--------------------------- MODULE ContainmentProofs ---------------------------
(***************************************************************************)
(* Type correctness of Containment, for every set of sessions, requests    *)
(* and orders and every configuration the assumptions admit, and the       *)
(* lemmas all its proofs rest on: what each update of an invocation, a     *)
(* registry row, an alert message or an order changes and leaves alone,    *)
(* and what a stop attempt may report.                                     *)
(***************************************************************************)
EXTENDS Containment, TLAPS

(***************************************************************************)
(* What one StopRuntimeSession attempt may report and leave behind: a      *)
(* known outcome, a session that stays stopped once stopped, and           *)
(* "confirmed" only for one that has stopped.                              *)
(***************************************************************************)
LEMMA StopResultsFacts ==
    ASSUME runtime \in [Sessions -> {"live", "stopped"}],
           NEW s \in Sessions, NEW r \in StopResults(s)
    PROVE  /\ r[1] \in {"confirmed", "unverified", "failed", "unsupported"}
           /\ r[2] \in {"live", "stopped"}
           /\ runtime[s] = "stopped" => r[2] = "stopped"
           /\ r[1] = "confirmed" => r[2] = "stopped"
<1>1. CASE RuntimeKind[s] = "self_managed"
      BY <1>1 DEF StopResults
<1>2. CASE RuntimeKind[s] = "harness"
      BY <1>2 DEF StopResults
<1>3. CASE RuntimeKind[s] = "unmapped"
      BY <1>3 DEF StopResults
<1>4. CASE RuntimeKind[s] = "absent"
      BY <1>4 DEF StopResults
<1>5. QED
      BY <1>1, <1>2, <1>3, <1>4, RuntimeKindAssumption DEF RuntimeKinds

\* A stop attempt keeps the runtime's type and never revives a session.
LEMMA StopEffect ==
    ASSUME runtime \in [Sessions -> {"live", "stopped"}], NEW s \in Sessions,
           NEW r \in StopResults(s), StopRuntimeSession(s, r)
    PROVE  /\ runtime' \in [Sessions -> {"live", "stopped"}]
           /\ \A t \in Sessions : runtime[t] = "stopped" => runtime'[t] = "stopped"
           /\ r[1] = "confirmed" => runtime'[s] = "stopped"
BY StopResultsFacts DEF StopRuntimeSession

\* The configuration facts the type proofs use.
LEMMA RequestFacts ==
    ASSUME NEW i \in Requests
    PROVE  /\ Req[i] \in Request
           /\ Session(i) \in Sessions
           /\ Req[i].score \in Nat
BY DispatcherAssumption DEF Request, Session

\* The session risk an evaluation computes stays below the cap.
LEMMA SessionRisksBounded ==
    ASSUME inv \in [Requests -> Invocation], NEW i \in Requests,
           NEW risk \in SessionRisks(i)
    PROVE  risk \in 0..SessionCap
<1>1. SessionCap \in Nat /\ BonusCap \in Nat
      BY DispatcherAssumption
<1>2. Req[i].score \in Nat
      BY RequestFacts
<1>3. inv[i].risk \in 0..SessionCap
      BY DEF Invocation
<1>4. PICK kept \in Decayed(inv[i].risk), bonus \in Bonuses(i) :
          risk = Capped(kept + Req[i].score + bonus)
      BY DEF SessionRisks
<1>5. kept \in Nat /\ bonus \in Nat
      BY <1>1, <1>3 DEF Decayed, Bonuses
<1>6. QED
      BY <1>1, <1>2, <1>4, <1>5 DEF Capped
-----------------------------------------------------------------------------
(* Updates of one invocation.  OthersKept: no other invocation moves. *)

OthersKept(i) == \A j \in Requests \ {i} : inv'[j] = inv[j]

\* An answer ends the invocation and touches nothing else of it.
LEMMA AnswerEffect ==
    ASSUME inv \in [Requests -> Invocation], NEW i \in Requests,
           NEW response \in {"passed", "refused", "error"}, Answer(i, response)
    PROVE  /\ inv' \in [Requests -> Invocation] /\ OthersKept(i)
           /\ inv'[i].pc = "done" /\ inv'[i].response = response
           /\ inv'[i].verdict = inv[i].verdict /\ inv'[i].recorded = inv[i].recorded
           /\ inv'[i].transport = inv[i].transport /\ inv'[i].kill = inv[i].kill
<1>1. PICK r \in Invocation : r = inv[i]
      OBVIOUS
<1>2. PICK q : q = [r EXCEPT !.pc = "done", !.response = response]
      OBVIOUS
<1>3. inv' = [inv EXCEPT ![i] = q]
      BY <1>1, <1>2 DEF Answer
<1>4. /\ q \in Invocation
      /\ q.pc = "done" /\ q.response = response /\ q.verdict = r.verdict
      /\ q.recorded = r.recorded /\ q.transport = r.transport /\ q.kill = r.kill
      BY <1>2 DEF Invocation, Stages
<1>5. inv' \in [Requests -> Invocation] /\ OthersKept(i) /\ inv'[i] = q
      BY <1>3, <1>4, Zenon DEF OthersKept
<1>6. QED
      BY <1>1, <1>4, <1>5

\* Goto moves the program counter alone.
LEMMA GotoEffect ==
    ASSUME inv \in [Requests -> Invocation], NEW i \in Requests,
           NEW stage \in Stages, Goto(i, stage)
    PROVE  /\ inv' \in [Requests -> Invocation] /\ OthersKept(i)
           /\ inv'[i].pc = stage /\ inv'[i].verdict = inv[i].verdict
           /\ inv'[i].recorded = inv[i].recorded /\ inv'[i].transport = inv[i].transport
           /\ inv'[i].kill = inv[i].kill /\ inv'[i].response = inv[i].response
           /\ inv'[i].seen = inv[i].seen
<1>1. PICK r \in Invocation : r = inv[i]
      OBVIOUS
<1>2. PICK q : q = [r EXCEPT !.pc = stage]
      OBVIOUS
<1>3. inv' = [inv EXCEPT ![i] = q]
      BY <1>1, <1>2 DEF Goto
<1>4. /\ q \in Invocation
      /\ q.pc = stage /\ q.seen = r.seen
      /\ q.verdict = r.verdict /\ q.recorded = r.recorded
      /\ q.transport = r.transport /\ q.kill = r.kill /\ q.response = r.response
      BY <1>2 DEF Invocation, Stages
<1>5. inv' \in [Requests -> Invocation] /\ OthersKept(i) /\ inv'[i] = q
      BY <1>3, <1>4, Zenon DEF OthersKept
<1>6. QED
      BY <1>1, <1>4, <1>5

\* What ReadSession copies from the row.
Reads(i, risk, seen) ==
    inv' = [inv EXCEPT ![i].pc = "ensure", ![i].risk = risk, ![i].seen = seen]

LEMMA ReadEffect ==
    ASSUME inv \in [Requests -> Invocation], NEW i \in Requests,
           NEW risk \in 0..SessionCap, NEW seen \in Nat, Reads(i, risk, seen)
    PROVE  /\ inv' \in [Requests -> Invocation] /\ OthersKept(i)
           /\ inv'[i].pc = "ensure" /\ inv'[i].risk = risk
           /\ inv'[i].seen = seen /\ inv'[i].verdict = inv[i].verdict
           /\ inv'[i].recorded = inv[i].recorded /\ inv'[i].transport = inv[i].transport
           /\ inv'[i].kill = inv[i].kill /\ inv'[i].response = inv[i].response
<1>1. PICK r \in Invocation : r = inv[i]
      OBVIOUS
<1>2. PICK q : q = [r EXCEPT !.pc = "ensure", !.risk = risk, !.seen = seen]
      OBVIOUS
<1>3. inv' = [inv EXCEPT ![i] = q]
      BY <1>1, <1>2 DEF Reads
<1>4. /\ q \in Invocation
      /\ q.pc = "ensure" /\ q.risk = risk /\ q.seen = seen
      /\ q.verdict = r.verdict /\ q.recorded = r.recorded /\ q.transport = r.transport
      /\ q.kill = r.kill /\ q.response = r.response
      BY <1>2 DEF Invocation, Stages
<1>5. inv' \in [Requests -> Invocation] /\ OthersKept(i) /\ inv'[i] = q
      BY <1>3, <1>4, Zenon DEF OthersKept
<1>6. QED
      BY <1>1, <1>4, <1>5

\* What Evaluate adds: a risk and a verdict.
Judges(i, risk, verdict) ==
    inv' = [inv EXCEPT ![i].pc = "record", ![i].risk = risk, ![i].verdict = verdict]

LEMMA EvaluateEffect ==
    ASSUME inv \in [Requests -> Invocation], NEW i \in Requests,
           NEW risk \in 0..SessionCap, NEW verdict \in {"allow", "block"},
           Judges(i, risk, verdict)
    PROVE  /\ inv' \in [Requests -> Invocation] /\ OthersKept(i)
           /\ inv'[i].pc = "record" /\ inv'[i].risk = risk
           /\ inv'[i].verdict = verdict /\ inv'[i].recorded = inv[i].recorded
           /\ inv'[i].transport = inv[i].transport /\ inv'[i].kill = inv[i].kill
           /\ inv'[i].response = inv[i].response /\ inv'[i].seen = inv[i].seen
<1>1. PICK r \in Invocation : r = inv[i]
      OBVIOUS
<1>2. PICK q : q = [r EXCEPT !.pc = "record", !.risk = risk, !.verdict = verdict]
      OBVIOUS
<1>3. inv' = [inv EXCEPT ![i] = q]
      BY <1>1, <1>2 DEF Judges
<1>4. /\ q \in Invocation
      /\ q.pc = "record" /\ q.risk = risk /\ q.verdict = verdict
      /\ q.seen = r.seen
      /\ q.recorded = r.recorded /\ q.transport = r.transport /\ q.kill = r.kill
      /\ q.response = r.response
      BY <1>2 DEF Invocation, Stages
<1>5. inv' \in [Requests -> Invocation] /\ OthersKept(i) /\ inv'[i] = q
      BY <1>3, <1>4, Zenon DEF OthersKept
<1>6. QED
      BY <1>1, <1>4, <1>5

\* An acknowledged write of the verdict.
LEMMA RecordedEffect ==
    ASSUME inv \in [Requests -> Invocation], NEW i \in Requests,
           Acknowledged(i, TRUE)
    PROVE  /\ inv' \in [Requests -> Invocation] /\ OthersKept(i)
           /\ inv'[i].pc = "report" /\ inv'[i].recorded = TRUE
           /\ inv'[i].verdict = inv[i].verdict /\ inv'[i].transport = inv[i].transport
           /\ inv'[i].kill = inv[i].kill /\ inv'[i].response = inv[i].response
<1>1. PICK r \in Invocation : r = inv[i]
      OBVIOUS
<1>2. PICK q : q = [r EXCEPT !.pc = "report", !.recorded = TRUE]
      OBVIOUS
<1>3. inv' = [inv EXCEPT ![i] = q]
      BY <1>1, <1>2 DEF Acknowledged
<1>4. /\ q \in Invocation
      /\ q.pc = "report" /\ q.recorded = TRUE /\ q.verdict = r.verdict
      /\ q.transport = r.transport /\ q.kill = r.kill /\ q.response = r.response
      BY <1>2 DEF Invocation, Stages
<1>5. inv' \in [Requests -> Invocation] /\ OthersKept(i) /\ inv'[i] = q
      BY <1>3, <1>4, Zenon DEF OthersKept
<1>6. QED
      BY <1>1, <1>4, <1>5

\* An acknowledged write has landed.
LEMMA AckedWriteLanded ==
    ASSUME NEW i \in Requests, NEW write \in RegistryWrites, "acked" \in write,
           Acknowledged(i, "landed" \in write)
    PROVE  Acknowledged(i, TRUE)
<1>1. ("landed" \in write) = TRUE
      BY DEF RegistryWrites
<1>2. QED
      BY <1>1

\* A write of the verdict that raised.
LEMMA UnrecordedEffect ==
    ASSUME inv \in [Requests -> Invocation], NEW i \in Requests,
           NEW landed \in BOOLEAN, Unacknowledged(i, landed)
    PROVE  /\ inv' \in [Requests -> Invocation] /\ OthersKept(i)
           /\ inv'[i].pc = "done" /\ inv'[i].recorded = landed
           /\ inv'[i].response = FailureAnswer /\ inv'[i].verdict = inv[i].verdict
           /\ inv'[i].transport = inv[i].transport /\ inv'[i].kill = inv[i].kill
<1>1. PICK r \in Invocation : r = inv[i]
      OBVIOUS
<1>2. PICK q : q = [r EXCEPT !.pc = "done", !.recorded = landed, !.response = FailureAnswer]
      OBVIOUS
<1>3. inv' = [inv EXCEPT ![i] = q]
      BY <1>1, <1>2 DEF Unacknowledged
<1>4. /\ q \in Invocation
      /\ q.pc = "done" /\ q.recorded = landed /\ q.response = FailureAnswer
      /\ q.verdict = r.verdict /\ q.transport = r.transport /\ q.kill = r.kill
      <2>1. FailureAnswer \in {"passed", "refused"}
            BY DEF FailureAnswer
      <2>2. CASE landed = TRUE
            BY <1>2, <2>1, <2>2 DEF Invocation, Stages
      <2>3. CASE landed = FALSE
            BY <1>2, <2>1, <2>3 DEF Invocation, Stages
      <2>4. QED
            BY <2>2, <2>3
<1>5. inv' \in [Requests -> Invocation] /\ OthersKept(i) /\ inv'[i] = q
      BY <1>3, <1>4, Zenon DEF OthersKept
<1>6. QED
      BY <1>1, <1>4, <1>5

\* An inline kill in gate mode.
LEMMA KillEffect ==
    ASSUME inv \in [Requests -> Invocation], NEW i \in Requests,
           NEW outcome \in KillOutcomes,
           inv' = [inv EXCEPT ![i].pc = "note",
                              ![i].kill = outcome]
    PROVE  /\ inv' \in [Requests -> Invocation] /\ OthersKept(i)
           /\ inv'[i].pc = "note" /\ inv'[i].kill = outcome
           /\ inv'[i].verdict = inv[i].verdict /\ inv'[i].recorded = inv[i].recorded
           /\ inv'[i].transport = inv[i].transport /\ inv'[i].response = inv[i].response
<1>1. PICK r \in Invocation : r = inv[i]
      OBVIOUS
<1>2. PICK q : q = [r EXCEPT !.pc = "note", !.kill = outcome]
      OBVIOUS
<1>3. inv' = [inv EXCEPT ![i] = q]
      BY <1>1, <1>2
<1>4. /\ q \in Invocation
      /\ q.pc = "note" /\ q.kill = outcome /\ q.verdict = r.verdict
      /\ q.recorded = r.recorded /\ q.transport = r.transport /\ q.response = r.response
      BY <1>2 DEF Invocation, Stages
<1>5. inv' \in [Requests -> Invocation] /\ OthersKept(i) /\ inv'[i] = q
      BY <1>3, <1>4, Zenon DEF OthersKept
<1>6. QED
      BY <1>1, <1>4, <1>5

\* The fallback kill, which ends the invocation.
LEMMA FallbackEffect ==
    ASSUME inv \in [Requests -> Invocation], NEW i \in Requests,
           NEW outcome \in KillOutcomes, AnswerKilled(i, outcome)
    PROVE  /\ inv' \in [Requests -> Invocation] /\ OthersKept(i)
           /\ inv'[i].pc = "done" /\ inv'[i].kill = outcome
           /\ inv'[i].response = BlockAnswer /\ inv'[i].verdict = inv[i].verdict
           /\ inv'[i].recorded = inv[i].recorded /\ inv'[i].transport = inv[i].transport
<1>1. PICK r \in Invocation : r = inv[i]
      OBVIOUS
<1>2. PICK q : q = [r EXCEPT !.pc = "done", !.kill = outcome, !.response = BlockAnswer]
      OBVIOUS
<1>3. inv' = [inv EXCEPT ![i] = q]
      BY <1>1, <1>2 DEF AnswerKilled
<1>4. /\ q \in Invocation
      /\ q.pc = "done" /\ q.kill = outcome /\ q.response = BlockAnswer
      /\ q.verdict = r.verdict /\ q.recorded = r.recorded /\ q.transport = r.transport
      <2>1. BlockAnswer \in {"passed", "refused"}
            BY DEF BlockAnswer
      <2>2. QED
            BY <1>2, <2>1 DEF Invocation, Stages
<1>5. inv' \in [Requests -> Invocation] /\ OthersKept(i) /\ inv'[i] = q
      BY <1>3, <1>4, Zenon DEF OthersKept
<1>6. QED
      BY <1>1, <1>4, <1>5

(***************************************************************************)
(* After telemetry an allowed prompt is answered; a blocked one goes on to *)
(* its kill in gate mode and carries a deferred one in sidecar mode.       *)
(***************************************************************************)
LEMMA TelemetryEffect ==
    ASSUME inv \in [Requests -> Invocation], NEW i \in Requests,
           NEW outcome \in {"none", "sent", "degraded", "fail_closed"},
           AfterTelemetry(i, outcome)
    PROVE  /\ inv' \in [Requests -> Invocation] /\ OthersKept(i)
           /\ inv'[i].transport = outcome /\ inv'[i].verdict = inv[i].verdict
           /\ inv'[i].recorded = inv[i].recorded
           /\ inv[i].verdict = "allow" =>
                 /\ inv'[i].pc = "done" /\ inv'[i].kill = inv[i].kill
                 /\ inv'[i].response \in {"passed", "refused"}
                 /\ inv'[i].response = "passed" => outcome # "fail_closed"
           /\ inv[i].verdict # "allow" => inv'[i].response = inv[i].response
           /\ inv[i].verdict # "allow" /\ TIER1_MODE = "gate" =>
                 inv'[i].pc = "kill" /\ inv'[i].kill = inv[i].kill
           /\ inv[i].verdict # "allow" /\ TIER1_MODE # "gate" =>
                 inv'[i].pc = "note" /\ inv'[i].kill = "deferred"
<1>1. PICK r \in Invocation : r = inv[i]
      OBVIOUS
<1>2. CASE r.verdict = "allow"
  <2>1. PICK response \in {"passed", "refused"} :
           response = IF outcome = "fail_closed" THEN "refused" ELSE "passed"
        OBVIOUS
  <2>2. PICK q : q = [r EXCEPT !.transport = outcome, !.pc = "done", !.response = response]
        OBVIOUS
  <2>3. inv' = [inv EXCEPT ![i] = q]
        BY <1>1, <1>2, <2>1, <2>2 DEF AfterTelemetry
  <2>4. /\ q \in Invocation
        /\ q.pc = "done" /\ q.transport = outcome /\ q.response = response
        /\ q.verdict = r.verdict /\ q.recorded = r.recorded /\ q.kill = r.kill
        BY <2>2 DEF Invocation, Stages
  <2>5. QED
        BY <1>1, <1>2, <2>1, <2>3, <2>4 DEF OthersKept
<1>3. CASE r.verdict # "allow" /\ TIER1_MODE = "gate"
  <2>1. PICK q : q = [r EXCEPT !.transport = outcome, !.pc = "kill"]
        OBVIOUS
  <2>2. inv' = [inv EXCEPT ![i] = q]
        BY <1>1, <1>3, <2>1 DEF AfterTelemetry
  <2>3. /\ q \in Invocation
        /\ q.pc = "kill" /\ q.transport = outcome /\ q.response = r.response
        /\ q.verdict = r.verdict /\ q.recorded = r.recorded /\ q.kill = r.kill
        BY <2>1 DEF Invocation, Stages
  <2>4. QED
        BY <1>1, <1>3, <2>2, <2>3 DEF OthersKept
<1>4. CASE r.verdict # "allow" /\ TIER1_MODE # "gate"
  <2>1. PICK q : q = [r EXCEPT !.transport = outcome, !.pc = "note", !.kill = "deferred"]
        OBVIOUS
  <2>2. inv' = [inv EXCEPT ![i] = q]
        BY <1>1, <1>4, <2>1 DEF AfterTelemetry
  <2>3. /\ q \in Invocation
        /\ q.pc = "note" /\ q.transport = outcome /\ q.response = r.response
        /\ q.verdict = r.verdict /\ q.recorded = r.recorded /\ q.kill = "deferred"
        BY <2>1 DEF Invocation, Stages, KillOutcomes
  <2>4. QED
        BY <1>1, <1>4, <2>2, <2>3 DEF OthersKept
<1>5. QED
      BY <1>1, <1>2, <1>3, <1>4

\* A metric is added to its request and none is taken back.
LEMMA DegradeEffect ==
    ASSUME degraded \in [Requests -> SUBSET Components], NEW i \in Requests,
           NEW component \in Components, Degrade(i, component)
    PROVE  /\ degraded' \in [Requests -> SUBSET Components]
           /\ \A j \in Requests : degraded[j] \subseteq degraded'[j]
           /\ component \in degraded'[i]
BY DEF Degrade

(***************************************************************************)
(* A detection failure is reported; it passes the prompt only where the    *)
(* operator chose fail_open.                                               *)
(***************************************************************************)
LEMMA FailureEffect ==
    ASSUME inv \in [Requests -> Invocation],
           degraded \in [Requests -> SUBSET Components],
           NEW i \in Requests, DetectionFailed(i)
    PROVE  /\ inv' \in [Requests -> Invocation] /\ OthersKept(i)
           /\ inv'[i].pc = "done" /\ inv'[i].response \in {"passed", "refused"}
           /\ inv'[i].response = "passed" => DETECTION_FAILURE_POLICY = "fail_open"
           /\ inv'[i].verdict = inv[i].verdict /\ inv'[i].recorded = inv[i].recorded
           /\ inv'[i].transport = inv[i].transport /\ inv'[i].kill = inv[i].kill
           /\ degraded' \in [Requests -> SUBSET Components]
           /\ \A j \in Requests : degraded[j] \subseteq degraded'[j]
           /\ "inline_detection" \in degraded'[i]
<1>1. /\ FailureAnswer \in {"passed", "refused", "error"}
      /\ FailureAnswer = "passed" => DETECTION_FAILURE_POLICY = "fail_open"
      /\ FailureAnswer # "error"
      BY DispatcherAssumption DEF FailureAnswer
<1>2. /\ inv' \in [Requests -> Invocation] /\ OthersKept(i)
      /\ inv'[i].pc = "done" /\ inv'[i].response = FailureAnswer
      /\ inv'[i].verdict = inv[i].verdict /\ inv'[i].recorded = inv[i].recorded
      /\ inv'[i].transport = inv[i].transport /\ inv'[i].kill = inv[i].kill
      BY <1>1, AnswerEffect DEF DetectionFailed
<1>3. /\ degraded' \in [Requests -> SUBSET Components]
      /\ \A j \in Requests : degraded[j] \subseteq degraded'[j]
      /\ "inline_detection" \in degraded'[i]
      BY DegradeEffect DEF DetectionFailed, Components
<1>4. QED
      BY <1>1, <1>2, <1>3

\* What a stop attempt reports, and that it takes nothing back.
LEMMA StopReportedEffect ==
    ASSUME degraded \in [Requests -> SUBSET Components], NEW i \in Requests,
           NEW outcome, StopReported(i, outcome)
    PROVE  /\ degraded' \in [Requests -> SUBSET Components]
           /\ \A j \in Requests : degraded[j] \subseteq degraded'[j]
           /\ /\ outcome \in {"failed", "unsupported"}
              /\ RuntimeKind[Session(i)] # "absent"
              => "enforcement" \in degraded'[i]
<1>1. CASE outcome = "unsupported" \/ (outcome = "failed" /\ RuntimeKind[Session(i)] # "absent")
  <2>1. Degrade(i, "enforcement")
        BY <1>1 DEF StopReported, Session
  <2>2. QED
        BY <2>1, DegradeEffect DEF Components
<1>2. CASE ~(outcome = "unsupported" \/ (outcome = "failed" /\ RuntimeKind[Session(i)] # "absent"))
      BY <1>2 DEF StopReported, Session
<1>3. QED
      BY <1>1, <1>2
-----------------------------------------------------------------------------
(* Updates of the registry. *)

LEMMA StatusAfterTyped == ASSUME NEW decision PROVE StatusAfter(decision) \in Statuses
BY DEF StatusAfter, Statuses

\* The upsert leaves the kill outcome, the count and the status alone.
LEMMA EnsureEffect ==
    ASSUME registry \in [Sessions -> Row], NEW s \in Sessions, EnsureSession(s)
    PROVE  /\ registry' \in [Sessions -> Row]
           /\ \A t \in Sessions : registry'[t].kill = registry[t].kill
           /\ \A t \in Sessions : /\ registry'[t].seen = registry[t].seen
                                 /\ registry'[t].status = registry[t].status
<1>1. PICK r \in Row : r = registry[s]
      OBVIOUS
<1>2. PICK q : q = [r EXCEPT !.ttl = TRUE]
      OBVIOUS
<1>3. registry' = [registry EXCEPT ![s] = q]
      BY <1>1, <1>2 DEF EnsureSession
<1>4. /\ q \in Row /\ q.kill = r.kill /\ q.seen = r.seen /\ q.status = r.status
      BY <1>2 DEF Row
<1>5. QED
      BY <1>1, <1>3, <1>4

\* So does the write of a verdict ...
LEMMA EvaluationEffect ==
    ASSUME registry \in [Sessions -> Row], NEW s \in Sessions, NEW decision,
           NEW risk \in 0..SessionCap, NEW seen \in Nat,
           RecordSessionEvaluation(s, risk, seen, decision)
    PROVE  /\ registry' \in [Sessions -> Row]
           /\ \A t \in Sessions : registry'[t].kill = registry[t].kill
           /\ registry'[s].seen = seen /\ registry'[s].status = StatusAfter(decision)
           /\ \A t \in Sessions \ {s} : registry'[t] = registry[t]
<1>1. PICK r \in Row : r = registry[s]
      OBVIOUS
<1>2. PICK q : q = [r EXCEPT !.risk = risk, !.seen = seen, !.status = StatusAfter(decision)]
      OBVIOUS
<1>3. registry' = [registry EXCEPT ![s] = q]
      BY <1>1, <1>2 DEF RecordSessionEvaluation
<1>4. /\ q \in Row /\ q.kill = r.kill
      /\ q.seen = seen /\ q.status = StatusAfter(decision)
      BY <1>2, StatusAfterTyped DEF Row, Statuses
<1>5. QED
      BY <1>1, <1>3, <1>4

\* ... and the mark of an asynchronous kill.
LEMMA MarkEffect ==
    ASSUME registry \in [Sessions -> Row], NEW s \in Sessions, NEW decision,
           MarkSessionDecision(s, decision)
    PROVE  /\ registry' \in [Sessions -> Row]
           /\ \A t \in Sessions : registry'[t].kill = registry[t].kill
           /\ registry'[s].status = StatusAfter(decision)
           /\ registry'[s].seen = registry[s].seen
           /\ \A t \in Sessions \ {s} : registry'[t] = registry[t]
<1>1. PICK r \in Row : r = registry[s]
      OBVIOUS
<1>2. PICK q : q = [r EXCEPT !.status = StatusAfter(decision)]
      OBVIOUS
<1>3. registry' = [registry EXCEPT ![s] = q]
      BY <1>1, <1>2 DEF MarkSessionDecision
<1>4. /\ q \in Row /\ q.kill = r.kill
      /\ q.seen = r.seen /\ q.status = StatusAfter(decision)
      BY <1>2, StatusAfterTyped DEF Row, Statuses
<1>5. QED
      BY <1>1, <1>3, <1>4

\* A kill outcome goes to one row.
LEMMA OutcomeEffect ==
    ASSUME registry \in [Sessions -> Row], NEW s \in Sessions,
           NEW outcome \in KillOutcomes \cup {"none"}, RecordKillOutcome(s, outcome)
    PROVE  /\ registry' \in [Sessions -> Row]
           /\ \A t \in Sessions : registry'[t].kill = IF t = s THEN outcome ELSE registry[t].kill
           /\ \A t \in Sessions : /\ registry'[t].seen = registry[t].seen
                                 /\ registry'[t].status = registry[t].status
<1>1. PICK r \in Row : r = registry[s]
      OBVIOUS
<1>2. PICK q : q = [r EXCEPT !.kill = outcome]
      OBVIOUS
<1>3. registry' = [registry EXCEPT ![s] = q]
      BY <1>1, <1>2 DEF RecordKillOutcome
<1>4. q \in Row /\ q.kill = outcome /\ q.seen = r.seen /\ q.status = r.status
      BY <1>2 DEF Row
<1>5. QED
      BY <1>1, <1>3, <1>4

-----------------------------------------------------------------------------
(* Updates of the alert queue and of the orders. *)

AlertsKept(m) == \A j \in Requests \ {m} : alert'[j] = alert[j]

\* A published alert waits on the queue.
LEMMA EnqueueEffect ==
    ASSUME alert \in [Requests -> AlertMessage], NEW m \in Requests, EnqueueAlert(m)
    PROVE  /\ alert' \in [Requests -> AlertMessage] /\ AlertsKept(m)
           /\ alert'[m].stage = "queued" /\ alert'[m].outcome = alert[m].outcome
           /\ alert'[m].receives = alert[m].receives
<1>1. PICK a \in AlertMessage : a = alert[m]
      OBVIOUS
<1>2. PICK q : q = [a EXCEPT !.stage = "queued"]
      OBVIOUS
<1>3. alert' = [alert EXCEPT ![m] = q]
      BY <1>1, <1>2 DEF EnqueueAlert
<1>4. /\ q \in AlertMessage /\ q.stage = "queued"
      /\ q.outcome = a.outcome /\ q.receives = a.receives
      BY <1>2 DEF AlertMessage
<1>5. QED
      BY <1>1, <1>3, <1>4 DEF AlertsKept

\* A receive is counted and leaves the outcome of the one before.
LEMMA ReceivedMessage ==
    ASSUME alert \in [Requests -> AlertMessage], NEW m \in Requests
    PROVE  /\ Received(m) \in AlertMessage /\ Received(m).outcome = alert[m].outcome
           /\ Received(m).receives = alert[m].receives + 1
<1>1. PICK a \in AlertMessage : a = alert[m]
      OBVIOUS
<1>2. PICK p : p = [a EXCEPT !.receives = @ + 1]
      OBVIOUS
<1>3. p \in AlertMessage /\ p.outcome = a.outcome /\ p.receives = a.receives + 1
      BY <1>2 DEF AlertMessage
<1>4. QED
      BY <1>1, <1>2, <1>3 DEF Received

\* A receive that attempted the kill keeps its outcome in the message.
LEMMA KilledEffect ==
    ASSUME alert \in [Requests -> AlertMessage], NEW m \in Requests,
           NEW outcome \in KillOutcomes, AttemptedKill(m, outcome)
    PROVE  /\ alert' \in [Requests -> AlertMessage] /\ AlertsKept(m)
           /\ alert'[m].stage = "killed" /\ alert'[m].outcome = outcome
           /\ alert'[m].receives = alert[m].receives + 1
<1>1. PICK a \in AlertMessage : a = Received(m)
      BY ReceivedMessage
<1>2. PICK q : q = [a EXCEPT !.stage = "killed", !.outcome = outcome]
      OBVIOUS
<1>3. alert' = [alert EXCEPT ![m] = q]
      BY <1>1, <1>2 DEF AttemptedKill
<1>4. /\ q \in AlertMessage /\ q.stage = "killed" /\ q.outcome = outcome
      /\ q.receives = alert[m].receives + 1
      BY <1>1, <1>2, ReceivedMessage DEF AlertMessage
<1>5. QED
      BY <1>3, <1>4 DEF AlertsKept

\* A message that was not deleted is queued again or dead; it is never lost.
LEMMA ReturnedMessage ==
    ASSUME NEW a \in AlertMessage
    PROVE  /\ Returned(a) \in AlertMessage
           /\ Returned(a).stage \in {"queued", "dead"} /\ Returned(a).outcome = a.outcome
           /\ Returned(a).receives = a.receives
           /\ Returned(a).stage = "queued" => a.receives < MaxReceive
<1>1. CASE a.receives >= MaxReceive
      BY <1>1 DEF Returned, AlertMessage
<1>2. CASE ~(a.receives >= MaxReceive)
      BY <1>2, MaxReceiveAssumption DEF Returned, AlertMessage
<1>3. QED
      BY <1>1, <1>2

\* An order survives its attempts as an order.
LEMMA OrderTyped ==
    ASSUME NEW order \in Order
    PROVE  /\ Retried(order) \in Order
           /\ [order EXCEPT !.attempts = @ + 1] \in Order
           /\ \A stage \in {"sent", "killed", "done"} : [order EXCEPT !.stage = stage] \in Order
<1>1. Retried(order) \in Order
  <2>1. CASE order.attempts >= MaxAttempts
        BY <2>1 DEF Retried, Order
  <2>2. CASE ~(order.attempts >= MaxAttempts)
        BY <2>2 DEF Retried, Order
  <2>3. QED
        BY <2>1, <2>2
<1>2. [order EXCEPT !.attempts = @ + 1] \in Order
      BY DEF Order
<1>3. ASSUME NEW stage \in {"sent", "killed", "done"}
      PROVE  [order EXCEPT !.stage = stage] \in Order
      BY DEF Order
<1>4. QED
      BY <1>1, <1>2, <1>3
-----------------------------------------------------------------------------
(* Type correctness. *)

LEMMA TypeInit == Init => TypeOK
BY DispatcherAssumption DEF Init, RegistryInit, RuntimeInit, DispatcherInit, AlertingInit,
   OrdersInit, TypeOK, NoRow, Row, Statuses, NewInvocation, Invocation, Stages, NoAlert,
   AlertMessage, Order

(***************************************************************************)
(* A step of a dispatcher invocation keeps the types.                      *)
(***************************************************************************)
LEMMA TypeDispatch ==
    ASSUME TypeOK, NEW i \in Requests, DispatchStep(i)
    PROVE  TypeOK'
<1>0. /\ Session(i) \in Sessions
      /\ registry \in [Sessions -> Row] /\ runtime \in [Sessions -> {"live", "stopped"}]
      /\ inv \in [Requests -> Invocation] /\ intake \in SUBSET Requests
      /\ degraded \in [Requests -> SUBSET Components]
      /\ alert \in [Requests -> AlertMessage] /\ notices' = notices /\ orders' = orders
      /\ notices \in [Requests -> SUBSET Subjects] /\ orders \in [Orders -> Order]
      BY RequestFacts DEF TypeOK, DispatchStep
<1>1. CASE RejectStray(i)
  <2>1. inv' \in [Requests -> Invocation]
        BY <1>0, <1>1, AnswerEffect DEF RejectStray
  <2>2. QED
        BY <1>0, <1>1, <2>1 DEF RejectStray, TypeOK
<1>2. CASE FailToParse(i)
  <2>1. inv' \in [Requests -> Invocation] /\ degraded' \in [Requests -> SUBSET Components]
        BY <1>0, <1>2, FailureEffect DEF FailToParse
  <2>2. QED
        BY <1>0, <1>2, <2>1 DEF FailToParse, TypeOK
<1>3. CASE PassWithoutText(i)
  <2>1. inv' \in [Requests -> Invocation]
        BY <1>0, <1>3, AnswerEffect DEF PassWithoutText
  <2>2. QED
        BY <1>0, <1>3, <2>1 DEF PassWithoutText, TypeOK
<1>4. CASE RefuseUnscopable(i)
  <2>1. inv' \in [Requests -> Invocation]
        BY <1>0, <1>4, AnswerEffect DEF RefuseUnscopable
  <2>2. QED
        BY <1>0, <1>4, <2>1 DEF RefuseUnscopable, TypeOK
<1>5. CASE ReadSession(i)
  <2>1. registry[Session(i)].risk \in 0..SessionCap /\ registry[Session(i)].seen \in Nat
        BY <1>0 DEF Row
  <2>2. inv' \in [Requests -> Invocation] /\ degraded' \in [Requests -> SUBSET Components]
    <3>1. CASE Answer(i, "refused") /\ UNCHANGED degraded
          BY <1>0, <3>1, AnswerEffect
    <3>2. CASE /\ inv' = [inv EXCEPT ![i].pc = "ensure",
                                     ![i].risk = registry[Session(i)].risk,
                                     ![i].seen = registry[Session(i)].seen]
               /\ UNCHANGED degraded
          BY <1>0, <2>1, <3>2, ReadEffect DEF Reads
    <3>3. CASE DetectionFailed(i)
          BY <1>0, <3>3, FailureEffect
    <3>4. QED
          BY <1>5, <3>1, <3>2, <3>3 DEF ReadSession
  <2>3. QED
        BY <1>0, <1>5, <2>2 DEF ReadSession, TypeOK
<1>6. CASE Ensure(i)
  <2>1. CASE EnsureSession(Session(i)) /\ Goto(i, "evaluate") /\ UNCHANGED degraded
    <3>1. inv' \in [Requests -> Invocation] /\ registry' \in [Sessions -> Row]
          BY <1>0, <2>1, EnsureEffect, GotoEffect DEF Stages
    <3>2. QED
          BY <1>0, <1>6, <2>1, <3>1 DEF Ensure, TypeOK
  <2>2. CASE DetectionFailed(i) /\ UNCHANGED registry
    <3>1. inv' \in [Requests -> Invocation] /\ degraded' \in [Requests -> SUBSET Components]
          BY <1>0, <2>2, FailureEffect
    <3>2. QED
          BY <1>0, <1>6, <2>2, <3>1 DEF Ensure, TypeOK
  <2>3. QED
        BY <1>6, <2>1, <2>2 DEF Ensure
<1>7. CASE Evaluate(i)
  <2>1. inv' \in [Requests -> Invocation] /\ degraded' \in [Requests -> SUBSET Components]
    <3>1. ASSUME NEW risk \in SessionRisks(i), NEW verdict \in Verdicts(i, risk),
                 UNCHANGED degraded,
                 inv' = [inv EXCEPT ![i].pc = "record", ![i].risk = risk,
                                    ![i].verdict = verdict]
          PROVE  inv' \in [Requests -> Invocation] /\ degraded' \in [Requests -> SUBSET Components]
      <4>1. risk \in 0..SessionCap /\ verdict \in {"allow", "block"}
            BY <1>0, SessionRisksBounded DEF Verdicts
      <4>2. QED
            BY <1>0, <3>1, <4>1, EvaluateEffect DEF Judges
    <3>2. CASE DetectionFailed(i)
          BY <1>0, <3>2, FailureEffect
    <3>3. QED
          BY <1>7, <3>1, <3>2 DEF Evaluate
  <2>2. QED
        BY <1>0, <1>7, <2>1 DEF Evaluate, TypeOK
<1>8. CASE Record(i)
  <2>1. PICK write \in RegistryWrites :
          /\ IF "landed" \in write
             THEN RecordSessionEvaluation(Session(i), inv[i].risk, inv[i].seen + 1,
                                          inv[i].verdict)
             ELSE UNCHANGED registry
          /\ IF "acked" \in write
             THEN Acknowledged(i, "landed" \in write) /\ UNCHANGED degraded
             ELSE Unacknowledged(i, "landed" \in write)
        BY <1>8 DEF Record
  <2>2. ("landed" \in write) \in BOOLEAN
        OBVIOUS
  <2>3. registry' \in [Sessions -> Row]
    <3>1. inv[i].risk \in 0..SessionCap /\ inv[i].seen + 1 \in Nat
          BY <1>0 DEF Invocation
    <3>2. QED
          BY <1>0, <2>1, <3>1, EvaluationEffect
  <2>4. inv' \in [Requests -> Invocation] /\ degraded' \in [Requests -> SUBSET Components]
    <3>1. CASE "acked" \in write
      <4>1. Acknowledged(i, TRUE)
            BY <2>1, <3>1, AckedWriteLanded
      <4>2. QED
            BY <1>0, <2>1, <3>1, <4>1, RecordedEffect
    <3>2. CASE "acked" \notin write
      <4>1. Unacknowledged(i, "landed" \in write) /\ Degrade(i, "inline_detection")
            BY <2>1, <3>2 DEF Unacknowledged
      <4>2. QED
            BY <1>0, <2>2, <4>1, UnrecordedEffect, DegradeEffect DEF Components
    <3>3. QED
          BY <3>1, <3>2
  <2>5. QED
        BY <1>0, <1>8, <2>3, <2>4 DEF Record, TypeOK
<1>9. CASE Report(i)
  <2>1. /\ inv' \in [Requests -> Invocation] /\ degraded' \in [Requests -> SUBSET Components]
        /\ intake' \in SUBSET Requests
    <3>1. ASSUME NEW outcome \in TransportOutcomes, AfterTelemetry(i, outcome),
                 intake' = intake \cup {i} \/ UNCHANGED intake,
                 Degrade(i, "prompt_telemetry") \/ UNCHANGED degraded
          PROVE  /\ inv' \in [Requests -> Invocation]
                 /\ degraded' \in [Requests -> SUBSET Components] /\ intake' \in SUBSET Requests
      <4>1. outcome \in {"none", "sent", "degraded", "fail_closed"}
            BY DEF TransportOutcomes
      <4>2. inv' \in [Requests -> Invocation]
            BY <1>0, <3>1, <4>1, TelemetryEffect
      <4>3. degraded' \in [Requests -> SUBSET Components]
            BY <1>0, <3>1, DegradeEffect DEF Components
      <4>4. QED
            BY <1>0, <3>1, <4>2, <4>3
    <3>2. CASE DetectionFailed(i) /\ UNCHANGED intake
          BY <1>0, <3>2, FailureEffect
    <3>3. QED
          BY <1>9, <3>1, <3>2 DEF Report
  <2>2. QED
        BY <1>0, <1>9, <2>1 DEF Report, TypeOK
<1>10. CASE InlineKill(i)
  <2>1. PICK r \in StopResults(Session(i)) :
          /\ StopRuntimeSession(Session(i), r) /\ StopReported(i, r[1])
          /\ inv' = [inv EXCEPT ![i].pc = "note", ![i].kill = r[1]]
        BY <1>10 DEF InlineKill
  <2>2. r[1] \in KillOutcomes
        BY <1>0, StopResultsFacts DEF KillOutcomes
  <2>3. /\ inv' \in [Requests -> Invocation] /\ runtime' \in [Sessions -> {"live", "stopped"}]
        /\ degraded' \in [Requests -> SUBSET Components]
        BY <1>0, <2>1, <2>2, StopEffect, KillEffect, StopReportedEffect
  <2>4. QED
        BY <1>0, <1>10, <2>3 DEF InlineKill, TypeOK
<1>11. CASE NoteKill(i)
  <2>1. inv' \in [Requests -> Invocation]
        BY <1>0, <1>11, GotoEffect DEF NoteKill, Stages
  <2>2. degraded' \in [Requests -> SUBSET Components]
        BY <1>0, <1>11, DegradeEffect DEF NoteKill, Components
  <2>3. registry' \in [Sessions -> Row]
    <3>1. inv[i].kill \in KillOutcomes \cup {"none"}
          BY <1>0 DEF Invocation
    <3>2. QED
          BY <1>0, <1>11, <3>1, OutcomeEffect DEF NoteKill
  <2>4. QED
        BY <1>0, <1>11, <2>1, <2>2, <2>3 DEF NoteKill, TypeOK
<1>12. CASE PublishAlert(i)
  <2>1. BlockAnswer \in {"passed", "refused", "error"}
        BY DEF BlockAnswer
  <2>2. inv' \in [Requests -> Invocation] /\ degraded' \in [Requests -> SUBSET Components]
        BY <1>0, <1>12, <2>1, AnswerEffect, GotoEffect, DegradeEffect
        DEF PublishAlert, Stages, Components
  <2>3. alert' \in [Requests -> AlertMessage]
        BY <1>0, <1>12, EnqueueEffect DEF PublishAlert
  <2>4. QED
        BY <1>0, <1>12, <2>2, <2>3 DEF PublishAlert, TypeOK
<1>13. CASE FallbackKill(i)
  <2>1. PICK r \in StopResults(Session(i)) :
          /\ StopRuntimeSession(Session(i), r) /\ StopReported(i, r[1])
          /\ AnswerKilled(i, r[1])
        BY <1>13 DEF FallbackKill
  <2>2. r[1] \in KillOutcomes
        BY <1>0, StopResultsFacts DEF KillOutcomes
  <2>3. /\ inv' \in [Requests -> Invocation] /\ runtime' \in [Sessions -> {"live", "stopped"}]
        /\ degraded' \in [Requests -> SUBSET Components]
        BY <1>0, <2>1, <2>2, StopEffect, FallbackEffect, StopReportedEffect
  <2>4. QED
        BY <1>0, <1>13, <2>3 DEF FallbackKill, TypeOK
<1>14. CASE Crash(i)
  <2>1. inv' \in [Requests -> Invocation]
        BY <1>0, <1>14, AnswerEffect DEF Crash
  <2>2. QED
        BY <1>0, <1>14, <2>1 DEF Crash, TypeOK
<1>15. QED
      BY <1>1, <1>2, <1>3, <1>4, <1>5, <1>6, <1>7, <1>8, <1>9, <1>10, <1>11, <1>12, <1>13,
         <1>14 DEF DispatchStep, Dispatch, Screen, Judge, Contain

\* So does a step of the alert Lambda ...
LEMMA TypeAlert ==
    ASSUME TypeOK, NEW m \in Requests, AlertStep(m)
    PROVE  TypeOK'
<1>0. /\ Session(m) \in Sessions
      /\ registry \in [Sessions -> Row] /\ runtime \in [Sessions -> {"live", "stopped"}]
      /\ inv \in [Requests -> Invocation] /\ intake \in SUBSET Requests
      /\ degraded \in [Requests -> SUBSET Components]
      /\ alert \in [Requests -> AlertMessage] /\ orders' = orders
      /\ notices \in [Requests -> SUBSET Subjects] /\ orders \in [Orders -> Order]
      BY RequestFacts DEF TypeOK, AlertStep
<1>1. CASE AlertKill(m)
  <2>1. CASE RuntimeKind[Session(m)] # "absent"
    <3>1. PICK r \in StopResults(Session(m)) :
             /\ StopRuntimeSession(Session(m), r) /\ StopReported(m, r[1])
             /\ AttemptedKill(m, r[1])
          BY <1>1, <2>1 DEF AlertKill
    <3>2. r[1] \in KillOutcomes
          BY <1>0, StopResultsFacts DEF KillOutcomes
    <3>3. alert' \in [Requests -> AlertMessage]
          BY <1>0, <3>1, <3>2, KilledEffect
    <3>4. /\ runtime' \in [Sessions -> {"live", "stopped"}]
          /\ degraded' \in [Requests -> SUBSET Components]
          BY <1>0, <3>1, StopEffect, StopReportedEffect
    <3>5. QED
          BY <1>0, <1>1, <3>3, <3>4 DEF AlertKill, TypeOK
  <2>2. CASE RuntimeKind[Session(m)] = "absent"
    <3>1. /\ AttemptedKill(m, "not_configured") /\ Degrade(m, "enforcement") /\ UNCHANGED runtime
          BY <1>1, <2>2 DEF AlertKill
    <3>2. alert' \in [Requests -> AlertMessage]
          BY <1>0, <3>1, KilledEffect DEF KillOutcomes
    <3>3. degraded' \in [Requests -> SUBSET Components]
          BY <1>0, <3>1, DegradeEffect DEF Components
    <3>4. QED
          BY <1>0, <1>1, <3>1, <3>2, <3>3 DEF AlertKill, TypeOK
  <2>3. QED
        BY <2>1, <2>2
<1>2. CASE AlertReport(m)
  <2>1. PICK failures \in SUBSET {"enforcement", "alerting"} :
          /\ \/ RecordKillOutcome(Session(m), alert[m].outcome)
             \/ "enforcement" \in failures /\ UNCHANGED registry
          /\ PublishSnsAlert(m, failures)
          /\ degraded' = [degraded EXCEPT ![m] = @ \cup failures]
        BY <1>2 DEF AlertReport
  <2>2. alert[m] \in AlertMessage /\ alert[m].outcome \in KillOutcomes \cup {"none"}
        BY <1>0 DEF AlertMessage
  <2>3. registry' \in [Sessions -> Row]
        BY <1>0, <2>1, <2>2, OutcomeEffect
  <2>4. degraded' \in [Requests -> SUBSET Components]
        BY <1>0, <2>1 DEF Components
  <2>5. notices' \in [Requests -> SUBSET Subjects]
    <3>1. Subject(alert[m].outcome) \in Subjects
          BY DEF Subject, Subjects
    <3>2. QED
          BY <1>0, <2>1, <3>1 DEF PublishSnsAlert, Mail
  <2>6. alert' \in [Requests -> AlertMessage]
    <3>1. CASE alert' = [alert EXCEPT ![m].stage = "done"]
          BY <1>0, <3>1 DEF AlertMessage
    <3>2. CASE alert' = [alert EXCEPT ![m] = Returned(@)]
          BY <1>0, <2>2, <3>2, ReturnedMessage
    <3>3. QED
          BY <1>2, <3>1, <3>2 DEF AlertReport
  <2>7. QED
        BY <1>0, <1>2, <2>3, <2>4, <2>5, <2>6 DEF AlertReport, TypeOK
<1>3. CASE AlertFault(m)
  <2>1. alert[m] \in AlertMessage /\ Received(m) \in AlertMessage
        BY <1>0, ReceivedMessage
  <2>2. alert' \in [Requests -> AlertMessage]
        BY <1>0, <1>3, <2>1, ReturnedMessage DEF AlertFault
  <2>3. alert[m].outcome \in KillOutcomes \cup {"none"}
        BY <2>1 DEF AlertMessage
  <2>4. registry' \in [Sessions -> Row]
        BY <1>0, <1>3, <2>3, OutcomeEffect DEF AlertFault
  <2>5. QED
        BY <1>0, <1>3, <2>2, <2>4 DEF AlertFault, TypeOK
<1>4. QED
      BY <1>1, <1>2, <1>3 DEF AlertStep, Deliver

\* ... of the enforcement Lambda ...
LEMMA TypeEnforce ==
    ASSUME TypeOK, NEW o \in Orders, EnforceStep(o)
    PROVE  TypeOK'
<1>0. /\ OrderSession[o] \in Sessions
      /\ registry \in [Sessions -> Row] /\ runtime \in [Sessions -> {"live", "stopped"}]
      /\ orders \in [Orders -> Order] /\ orders[o] \in Order /\ Attempted(o) \in Order
      BY OrderAssumption, OrderTyped DEF TypeOK, Attempted
<1>1. CASE SendOrder(o)
  <2>1. orders' \in [Orders -> Order]
        BY <1>0, <1>1, OrderTyped DEF SendOrder
  <2>2. QED
        BY <1>1, <2>1 DEF SendOrder, TypeOK
<1>2. CASE EnforceKill(o)
  <2>1. orders' \in [Orders -> Order]
        BY <1>0, <1>2, OrderTyped DEF EnforceKill
  <2>2. runtime' \in [Sessions -> {"live", "stopped"}]
        BY <1>0, <1>2, StopEffect DEF EnforceKill
  <2>3. QED
        BY <1>2, <2>1, <2>2 DEF EnforceKill, TypeOK
<1>3. CASE EnforceMark(o)
  <2>1. orders' \in [Orders -> Order]
        BY <1>0, <1>3, OrderTyped DEF EnforceMark
  <2>2. registry' \in [Sessions -> Row]
        BY <1>0, <1>3, MarkEffect DEF EnforceMark
  <2>3. QED
        BY <1>3, <2>1, <2>2 DEF EnforceMark, TypeOK
<1>4. CASE EnforceFault(o)
  <2>1. orders' \in [Orders -> Order]
        BY <1>0, <1>4, OrderTyped DEF EnforceFault
  <2>2. registry' \in [Sessions -> Row]
        BY <1>0, <1>4, MarkEffect DEF EnforceFault
  <2>3. QED
        BY <1>4, <2>1, <2>2 DEF EnforceFault, TypeOK
<1>5. QED
      BY <1>1, <1>2, <1>3, <1>4 DEF EnforceStep, Enforce

\* ... and the expiry of a row.
LEMMA TypeExpire ==
    ASSUME TypeOK, NEW s \in Sessions, Expire(s)
    PROVE  TypeOK'
<1>1. NoRow \in Row
      BY DispatcherAssumption DEF NoRow, Row, Statuses
<1>2. registry' \in [Sessions -> Row]
      BY <1>1 DEF Expire, ExpireSession, TypeOK
<1>3. QED
      BY <1>2 DEF Expire, TypeOK

(***************************************************************************)
(* Every reachable state is well typed: no session's risk leaves           *)
(* 0.._SESSION_SCORE_CAP whatever interleaves, and every record holds      *)
(* values the code can produce (risk_scoring.py:219, the registry calls).  *)
(***************************************************************************)
THEOREM TypeCorrect == Spec => []TypeOK
<1>1. TypeOK /\ [Next]_vars => TypeOK'
  <2> SUFFICES ASSUME TypeOK, [Next]_vars PROVE TypeOK'
      OBVIOUS
  <2>1. CASE UNCHANGED vars
        BY <2>1 DEF vars, TypeOK
  <2>2. CASE Next
        BY <2>2, TypeDispatch, TypeAlert, TypeEnforce, TypeExpire DEF Next
  <2>3. QED
        BY <2>1, <2>2
<1>2. QED
      BY <1>1, TypeInit, PTL DEF Spec
=============================================================================
