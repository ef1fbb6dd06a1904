--------------------------- MODULE ContainmentSafety ---------------------------
(***************************************************************************)
(* The safety invariants of Containment hold in every reachable state.     *)
(*                                                                         *)
(* None is inductive as it stands.  What an answered block has done        *)
(* follows from the stage it came through (StageFacts), and what a report  *)
(* may say follows from where its outcome came from (OutcomeFacts).  The   *)
(* last part shows that Containment implements StopPromise.                *)
(***************************************************************************)
EXTENDS ContainmentProofs

\* What the stage of an invocation says about the rest of it.
StageFacts(i) ==
    /\ inv[i].pc # "done" => inv[i].response = "none"
    /\ inv[i].pc \in {"idle", "ensure", "evaluate", "record"} => ~inv[i].recorded
    /\ inv[i].pc \in {"record", "report"} => inv[i].verdict # "none"
    /\ inv[i].pc \in {"report", "kill", "note", "publish", "fallback"} => inv[i].recorded
    /\ inv[i].pc \in {"kill", "note", "publish", "fallback"} => inv[i].verdict = "block"
    /\ inv[i].pc = "kill" => TIER1_MODE = "gate"
    /\ inv[i].pc = "fallback" => TIER1_MODE # "gate"
    /\ inv[i].pc \in {"note", "publish"} => inv[i].kill # "none"
    /\ TIER1_MODE = "gate" => inv[i].kill # "deferred"

\* The three safety invariants, of one request.
Delivered(i) == inv[i].response = "passed" => AccountedFor(i)

Carried(i) == /\ Blocked(i)
              /\ inv[i].response \in {"passed", "refused"}
              /\ ~Reported(i, "inline_detection")
              => KilledInline(i) \/ alert[i].stage # "none"

MarkedFirst(i) == inv[i].kill # "none" \/ alert[i].stage # "none" => Blocked(i)

RequestInv(i) == StageFacts(i) /\ Delivered(i) /\ Carried(i) /\ MarkedFirst(i)

IInv == TypeOK /\ \A i \in Requests : RequestInv(i)
-----------------------------------------------------------------------------
LEMMA InvInit == Init => IInv
<1> SUFFICES ASSUME Init PROVE IInv
    OBVIOUS
<1>1. TypeOK
      BY TypeInit
<1>2. ASSUME NEW i \in Requests PROVE RequestInv(i)
  <2>1. inv[i] = NewInvocation /\ alert[i].stage = "none"
        BY DEF Init, DispatcherInit, NoAlert
  <2>2. QED
        BY <2>1 DEF NewInvocation, RequestInv, StageFacts, Delivered, Carried, MarkedFirst, Blocked
<1>3. QED
      BY <1>1, <1>2 DEF IInv

(***************************************************************************)
(* A step that leaves an invocation alone, takes no metric back and        *)
(* neither creates nor loses its alert keeps its invariant.                *)
(***************************************************************************)
LEMMA RequestUntouched ==
    ASSUME NEW j \in Requests, RequestInv(j), inv'[j] = inv[j],
           degraded[j] \subseteq degraded'[j],
           alert'[j].stage = "none" <=> alert[j].stage = "none"
    PROVE  RequestInv(j)'
BY DEF RequestInv, StageFacts, Delivered, AccountedFor, Carried, MarkedFirst, Blocked,
       Reported, KilledInline

(***************************************************************************)
(* An invocation that ends before its verdict is recorded: no duty yet.    *)
(***************************************************************************)
LEMMA EndsUnrecorded ==
    ASSUME NEW i \in Requests, RequestInv(i), ~inv[i].recorded, ~inv'[i].recorded,
           inv'[i].pc = "done", inv'[i].kill = inv[i].kill,
           alert'[i].stage = alert[i].stage, Delivered(i)'
    PROVE  RequestInv(i)'
BY DEF RequestInv, StageFacts, Carried, MarkedFirst, Blocked

\* An invocation that fails or crashes reports it, and keeps what it had.
LEMMA EndsReported ==
    ASSUME NEW i \in Requests, RequestInv(i), inv'[i].recorded = inv[i].recorded,
           inv'[i].verdict = inv[i].verdict, inv'[i].pc = "done",
           inv'[i].kill = inv[i].kill, alert'[i].stage = alert[i].stage,
           \/ inv'[i].response = "error"
           \/ /\ "inline_detection" \in degraded'[i]
              /\ inv'[i].response = "passed" => DETECTION_FAILURE_POLICY = "fail_open"
    PROVE  RequestInv(i)'
BY DEF RequestInv, StageFacts, Delivered, AccountedFor, Carried, MarkedFirst, Blocked, Reported

(***************************************************************************)
(* A step of an invocation keeps its own invariant.                        *)
(***************************************************************************)
LEMMA RequestDispatch ==
    ASSUME TypeOK, NEW i \in Requests, RequestInv(i), DispatchStep(i)
    PROVE  RequestInv(i)'
<1>0. /\ Session(i) \in Sessions
      /\ registry \in [Sessions -> Row] /\ runtime \in [Sessions -> {"live", "stopped"}]
      /\ inv \in [Requests -> Invocation] /\ inv[i] \in Invocation
      /\ degraded \in [Requests -> SUBSET Components]
      /\ alert \in [Requests -> AlertMessage]
      BY RequestFacts DEF TypeOK
<1>1. CASE RejectStray(i)
  <2>1. /\ inv'[i].response = "error" /\ inv'[i].pc = "done" /\ inv'[i].recorded = inv[i].recorded
        /\ inv'[i].verdict = inv[i].verdict /\ inv'[i].kill = inv[i].kill
        BY <1>0, <1>1, AnswerEffect DEF RejectStray
  <2>2. QED
        BY <1>1, <2>1, EndsReported DEF RejectStray
<1>2. ASSUME DetectionFailed(i), UNCHANGED alert
      PROVE  RequestInv(i)'
      BY <1>0, <1>2, FailureEffect, EndsReported
<1>3. CASE PassWithoutText(i)
  <2>1. /\ inv'[i].pc = "done" /\ inv'[i].kill = inv[i].kill
        /\ inv'[i].recorded = inv[i].recorded /\ ~inv[i].recorded
        BY <1>0, <1>3, AnswerEffect DEF PassWithoutText, At, RequestInv, StageFacts
  <2>2. Delivered(i)'
        BY <1>3 DEF PassWithoutText, Delivered, AccountedFor
  <2>3. QED
        BY <1>3, <2>1, <2>2, EndsUnrecorded DEF PassWithoutText
<1>4. ASSUME At(i, "idle"), Answer(i, "refused"), UNCHANGED alert
      PROVE  RequestInv(i)'
  <2>1. /\ inv'[i].pc = "done" /\ inv'[i].kill = inv[i].kill /\ inv'[i].response = "refused"
        /\ inv'[i].recorded = inv[i].recorded /\ ~inv[i].recorded
        BY <1>0, <1>4, AnswerEffect DEF At, RequestInv, StageFacts
  <2>2. QED
        BY <1>4, <2>1, EndsUnrecorded DEF Delivered
<1>5. CASE ReadSession(i)
  <2>1. CASE /\ inv' = [inv EXCEPT ![i].pc = "ensure",
                                   ![i].risk = registry[Session(i)].risk,
                                   ![i].seen = registry[Session(i)].seen]
             /\ UNCHANGED degraded
    <3>1. registry[Session(i)].risk \in 0..SessionCap /\ registry[Session(i)].seen \in Nat
          BY <1>0 DEF Row
    <3>2. /\ inv'[i].pc = "ensure" /\ inv'[i].recorded = inv[i].recorded
          /\ inv'[i].verdict = inv[i].verdict /\ inv'[i].kill = inv[i].kill
          /\ inv'[i].response = inv[i].response
          BY <1>0, <2>1, <3>1, ReadEffect DEF Reads
    <3>3. QED
          BY <1>5, <2>1, <3>2
          DEF ReadSession, At, RequestInv, StageFacts, Delivered, Carried, MarkedFirst, Blocked
  <2>2. QED
        BY <1>2, <1>4, <1>5, <2>1 DEF ReadSession
<1>6. CASE Ensure(i)
  <2>1. CASE Goto(i, "evaluate")
    <3>1. /\ inv'[i].pc = "evaluate" /\ inv'[i].recorded = inv[i].recorded
          /\ inv'[i].verdict = inv[i].verdict /\ inv'[i].kill = inv[i].kill
          /\ inv'[i].response = inv[i].response
          BY <1>0, <2>1, GotoEffect DEF Stages
    <3>2. QED
          BY <1>6, <3>1
          DEF Ensure, At, RequestInv, StageFacts, Delivered, Carried, MarkedFirst, Blocked
  <2>2. QED
        BY <1>2, <1>6, <2>1 DEF Ensure
<1>7. CASE Evaluate(i)
  <2>1. ASSUME NEW risk \in SessionRisks(i), NEW verdict \in Verdicts(i, risk),
               inv' = [inv EXCEPT ![i].pc = "record", ![i].risk = risk,
                                  ![i].verdict = verdict]
        PROVE  RequestInv(i)'
    <3>1. risk \in 0..SessionCap /\ verdict \in {"allow", "block"}
          BY <1>0, SessionRisksBounded DEF Verdicts
    <3>2. /\ inv'[i].pc = "record" /\ inv'[i].recorded = inv[i].recorded
          /\ inv'[i].verdict = verdict /\ inv'[i].kill = inv[i].kill
          /\ inv'[i].response = inv[i].response
          BY <1>0, <2>1, <3>1, EvaluateEffect DEF Judges
    <3>3. QED
          BY <1>7, <3>1, <3>2
          DEF Evaluate, At, RequestInv, StageFacts, Delivered, Carried, MarkedFirst, Blocked
  <2>2. QED
        BY <1>2, <1>7, <2>1 DEF Evaluate
<1>8. CASE Record(i)
  <2>1. CASE Acknowledged(i, TRUE)
    <3>1. /\ inv'[i].pc = "report" /\ inv'[i].recorded = TRUE
          /\ inv'[i].verdict = inv[i].verdict /\ inv'[i].kill = inv[i].kill
          /\ inv'[i].response = inv[i].response
          BY <1>0, <2>1, RecordedEffect
    <3>2. QED
          BY <1>8, <3>1
          DEF Record, At, RequestInv, StageFacts, Delivered, Carried, MarkedFirst, Blocked
  <2>2. ASSUME NEW write, Unacknowledged(i, "landed" \in write)
        PROVE  RequestInv(i)'
    <3>1. ("landed" \in write) \in BOOLEAN
          OBVIOUS
    <3>2. /\ inv'[i].pc = "done" /\ inv'[i].response = FailureAnswer
          /\ inv'[i].verdict = inv[i].verdict /\ inv'[i].kill = inv[i].kill
          BY <1>0, <2>2, <3>1, UnrecordedEffect
    <3>3. "inline_detection" \in degraded'[i]
          BY <1>0, <2>2, DegradeEffect DEF Unacknowledged, Components
    <3>4. FailureAnswer = "passed" => DETECTION_FAILURE_POLICY = "fail_open"
          BY DispatcherAssumption DEF FailureAnswer
    <3>5. QED
          BY <1>8, <3>2, <3>3, <3>4
          DEF Record, At, RequestInv, StageFacts, Delivered, AccountedFor, Carried,
              MarkedFirst, Blocked, Reported
  <2>3. QED
        BY <1>8, <2>1, <2>2, AckedWriteLanded DEF Record
<1>9. CASE Report(i)
  <2>1. ASSUME NEW outcome \in TransportOutcomes, AfterTelemetry(i, outcome)
        PROVE  RequestInv(i)'
    <3>1. outcome \in {"none", "sent", "degraded", "fail_closed"}
          BY DEF TransportOutcomes
    <3>2. /\ inv[i].recorded /\ inv[i].verdict \in {"allow", "block"}
          /\ inv[i].response = "none" /\ alert' = alert /\ TIER1_MODE \in Modes
          /\ TIER1_MODE = "gate" => inv[i].kill # "deferred"
          BY <1>0, <1>9, DispatcherAssumption
          DEF Report, At, RequestInv, StageFacts, Invocation
    <3>3. CASE inv[i].verdict = "allow"
      <4>1. /\ inv'[i].pc = "done" /\ inv'[i].kill = inv[i].kill
            /\ inv'[i].verdict = "allow" /\ inv'[i].recorded /\ inv'[i].transport = outcome
            /\ inv'[i].response = "passed" => outcome # "fail_closed"
            BY <1>0, <2>1, <3>1, <3>2, <3>3, TelemetryEffect
      <4>2. QED
            BY <3>2, <3>3, <4>1
            DEF RequestInv, StageFacts, Delivered, AccountedFor, Carried, MarkedFirst, Blocked
    <3>4. CASE inv[i].verdict = "block" /\ TIER1_MODE = "gate"
      <4>1. /\ inv'[i].pc = "kill" /\ inv'[i].kill = inv[i].kill
            /\ inv'[i].verdict = "block" /\ inv'[i].recorded /\ inv'[i].response = "none"
            BY <1>0, <2>1, <3>1, <3>2, <3>4, TelemetryEffect
      <4>2. QED
            BY <3>2, <3>4, <4>1
            DEF RequestInv, StageFacts, Delivered, Carried, MarkedFirst, Blocked
    <3>5. CASE inv[i].verdict = "block" /\ TIER1_MODE # "gate"
      <4>1. /\ inv'[i].pc = "note" /\ inv'[i].kill = "deferred"
            /\ inv'[i].verdict = "block" /\ inv'[i].recorded /\ inv'[i].response = "none"
            BY <1>0, <2>1, <3>1, <3>2, <3>5, TelemetryEffect
      <4>2. QED
            BY <3>2, <3>5, <4>1
            DEF RequestInv, StageFacts, Delivered, Carried, MarkedFirst, Blocked
    <3>6. QED
          BY <3>2, <3>3, <3>4, <3>5
  <2>2. QED
        BY <1>2, <1>9, <2>1 DEF Report
<1>10. CASE InlineKill(i)
  <2>1. PICK r \in StopResults(Session(i)) :
          inv' = [inv EXCEPT ![i].pc = "note", ![i].kill = r[1]]
        BY <1>10 DEF InlineKill
  <2>2. r[1] \in KillOutcomes /\ r[1] \notin {"none", "deferred"}
        BY <1>0, StopResultsFacts DEF KillOutcomes
  <2>3. /\ inv'[i].pc = "note" /\ inv'[i].kill = r[1]
        /\ inv'[i].verdict = inv[i].verdict /\ inv'[i].recorded = inv[i].recorded
        /\ inv'[i].response = inv[i].response
        BY <1>0, <2>1, <2>2, KillEffect
  <2>4. QED
        BY <1>10, <2>2, <2>3
        DEF InlineKill, At, RequestInv, StageFacts, Delivered, Carried, MarkedFirst, Blocked
<1>11. CASE NoteKill(i)
  <2>1. /\ inv'[i].pc = "publish" /\ inv'[i].kill = inv[i].kill
        /\ inv'[i].verdict = inv[i].verdict /\ inv'[i].recorded = inv[i].recorded
        /\ inv'[i].response = inv[i].response
        BY <1>0, <1>11, GotoEffect DEF NoteKill, Stages
  <2>2. QED
        BY <1>11, <2>1
        DEF NoteKill, At, RequestInv, StageFacts, Delivered, Carried, MarkedFirst, Blocked
<1>12. CASE PublishAlert(i)
  <2>1. /\ Blocked(i) /\ inv[i].response = "none" /\ inv[i].kill # "none"
        /\ TIER1_MODE = "gate" => KilledInline(i)
        BY <1>12 DEF PublishAlert, At, RequestInv, StageFacts, Blocked, KilledInline
  <2>2. /\ BlockAnswer \in {"passed", "refused", "error"}
        /\ BlockAnswer = "passed" => TIER1_MODE = "sidecar"
        BY DispatcherAssumption DEF BlockAnswer, Modes
  <2>3. /\ inv'[i].kill = inv[i].kill /\ inv'[i].verdict = inv[i].verdict
        /\ inv'[i].recorded = inv[i].recorded
        /\ \/ /\ inv'[i].pc = "done" /\ inv'[i].response = BlockAnswer
              /\ EnqueueAlert(i) \/ TIER1_MODE = "gate"
           \/ /\ inv'[i].pc = "fallback" /\ inv'[i].response = inv[i].response
              /\ TIER1_MODE # "gate"
    <3>1. CASE Answer(i, BlockAnswer)
      <4>1. EnqueueAlert(i) \/ TIER1_MODE = "gate"
        <5>1. CASE Goto(i, "fallback") /\ TIER1_MODE # "gate"
          <6>1. inv'[i].pc = "done" /\ inv'[i].pc = "fallback"
                BY <1>0, <2>2, <3>1, <5>1, AnswerEffect, GotoEffect DEF Stages
          <6>2. QED
                BY <6>1
        <5>2. QED
              BY <1>12, <5>1 DEF PublishAlert
      <4>2. QED
            BY <1>0, <2>2, <3>1, <4>1, AnswerEffect
    <3>2. CASE Goto(i, "fallback") /\ TIER1_MODE # "gate"
          BY <1>0, <3>2, GotoEffect DEF Stages
    <3>3. QED
          BY <1>12, <3>1, <3>2 DEF PublishAlert
  <2>4. EnqueueAlert(i) => alert'[i].stage = "queued"
        BY <1>0, EnqueueEffect
  <2>5. QED
        BY <2>1, <2>2, <2>3, <2>4, <1>12
        DEF PublishAlert, RequestInv, StageFacts, Delivered, AccountedFor, Carried,
            MarkedFirst, Blocked, KilledInline
<1>13. CASE FallbackKill(i)
  <2>1. PICK r \in StopResults(Session(i)) : AnswerKilled(i, r[1])
        BY <1>13 DEF FallbackKill
  <2>2. r[1] \in KillOutcomes /\ r[1] \notin {"none", "deferred"}
        BY <1>0, StopResultsFacts DEF KillOutcomes
  <2>3. BlockAnswer = "passed" => TIER1_MODE = "sidecar"
        BY DispatcherAssumption DEF BlockAnswer, Modes
  <2>4. /\ inv'[i].pc = "done" /\ inv'[i].kill = r[1] /\ inv'[i].response = BlockAnswer
        /\ inv'[i].verdict = inv[i].verdict /\ inv'[i].recorded = inv[i].recorded
        BY <1>0, <2>1, <2>2, FallbackEffect
  <2>5. QED
        BY <1>13, <2>2, <2>3, <2>4
        DEF FallbackKill, At, RequestInv, StageFacts, Delivered, AccountedFor, Carried,
            MarkedFirst, Blocked, KilledInline
<1>14. CASE Crash(i)
  <2>1. /\ inv'[i].response = "error" /\ inv'[i].pc = "done" /\ inv'[i].recorded = inv[i].recorded
        /\ inv'[i].verdict = inv[i].verdict /\ inv'[i].kill = inv[i].kill
        BY <1>0, <1>14, AnswerEffect DEF Crash
  <2>2. QED
        BY <1>14, <2>1, EndsReported DEF Crash
<1>15. QED
      BY <1>1, <1>2, <1>3, <1>4, <1>5, <1>6, <1>7, <1>8, <1>9, <1>10, <1>11, <1>12, <1>13, <1>14
      DEF DispatchStep, Dispatch, Screen, Judge, Contain, FailToParse, RefuseUnscopable

(***************************************************************************)
(* An invocation's step moves no other invocation and no other alert,      *)
(* and takes no metric back.                                               *)
(***************************************************************************)
LEMMA DispatchIsLocal ==
    ASSUME TypeOK, NEW i \in Requests, DispatchStep(i)
    PROVE  /\ OthersKept(i) /\ AlertsKept(i)
           /\ \A j \in Requests : degraded[j] \subseteq degraded'[j]
<1>0. /\ Session(i) \in Sessions
      /\ registry \in [Sessions -> Row] /\ runtime \in [Sessions -> {"live", "stopped"}]
      /\ inv \in [Requests -> Invocation] /\ inv[i] \in Invocation
      /\ degraded \in [Requests -> SUBSET Components]
      /\ alert \in [Requests -> AlertMessage]
      BY RequestFacts DEF TypeOK
<1>1. OthersKept(i)
      BY <1>0 DEF DispatchStep, Dispatch, Screen, Judge, Contain, Crash, RejectStray,
         FailToParse, PassWithoutText, RefuseUnscopable, ReadSession, Ensure, Evaluate,
         Record, Report, InlineKill, NoteKill, PublishAlert, FallbackKill, Answer, Goto,
         DetectionFailed, Acknowledged, Unacknowledged, AnswerKilled, AfterTelemetry, OthersKept
<1>2. AlertsKept(i)
      BY <1>0, EnqueueEffect DEF DispatchStep, Dispatch, Screen, Judge, Contain, Crash,
         RejectStray, FailToParse, PassWithoutText, RefuseUnscopable, ReadSession, Ensure,
         Evaluate, Record, Report, InlineKill, NoteKill, PublishAlert, FallbackKill, AlertsKept
<1>3. ASSUME NEW j \in Requests PROVE degraded[j] \subseteq degraded'[j]
      BY <1>0, DegradeEffect, StopReportedEffect
      DEF DispatchStep, Dispatch, Screen, Judge, Contain, Crash, RejectStray, FailToParse,
         PassWithoutText, RefuseUnscopable, ReadSession, Ensure, Evaluate, Record, Report,
         InlineKill, NoteKill, PublishAlert, FallbackKill, DetectionFailed, Unacknowledged,
         Components
<1>4. QED
      BY <1>1, <1>2, <1>3

\* A step of the alert Lambda: its message stays a message.
LEMMA AlertIsLocal ==
    ASSUME TypeOK, NEW m \in Requests, AlertStep(m)
    PROVE  /\ inv' = inv /\ AlertsKept(m)
           /\ alert[m].stage # "none" /\ alert'[m].stage # "none"
           /\ \A j \in Requests : degraded[j] \subseteq degraded'[j]
<1>0. /\ Session(m) \in Sessions /\ runtime \in [Sessions -> {"live", "stopped"}]
      /\ degraded \in [Requests -> SUBSET Components]
      /\ alert \in [Requests -> AlertMessage] /\ alert[m] \in AlertMessage
      BY RequestFacts DEF TypeOK
<1>1. CASE AlertKill(m)
  <2>1. PICK outcome \in KillOutcomes : AttemptedKill(m, outcome)
    <3>1. CASE RuntimeKind[Session(m)] # "absent"
      <4>1. PICK r \in StopResults(Session(m)) : AttemptedKill(m, r[1])
            BY <1>1, <3>1 DEF AlertKill
      <4>2. r[1] \in KillOutcomes
            BY <1>0, StopResultsFacts DEF KillOutcomes
      <4>3. QED
            BY <4>1, <4>2
    <3>2. CASE RuntimeKind[Session(m)] = "absent"
          BY <1>1, <3>2 DEF AlertKill, KillOutcomes
    <3>3. QED
          BY <3>1, <3>2
  <2>2. AlertsKept(m) /\ alert'[m].stage = "killed"
        BY <1>0, <2>1, KilledEffect
  <2>3. \A j \in Requests : degraded[j] \subseteq degraded'[j]
        BY <1>0, <1>1, DegradeEffect, StopReportedEffect DEF AlertKill, Components
  <2>4. QED
        BY <1>1, <2>2, <2>3 DEF AlertKill
<1>2. CASE AlertReport(m)
  <2>1. alert' = [alert EXCEPT ![m].stage = "done"] \/ alert' = [alert EXCEPT ![m] = Returned(@)]
        BY <1>2 DEF AlertReport
  <2>2. AlertsKept(m) /\ alert'[m].stage # "none"
        BY <1>0, <2>1, ReturnedMessage DEF AlertsKept, AlertMessage
  <2>3. \A j \in Requests : degraded[j] \subseteq degraded'[j]
        BY <1>0, <1>2 DEF AlertReport
  <2>4. QED
        BY <1>2, <2>2, <2>3 DEF AlertReport
<1>3. CASE AlertFault(m)
  <2>1. AlertsKept(m) /\ alert'[m].stage # "none"
        BY <1>0, <1>3, ReceivedMessage, ReturnedMessage DEF AlertFault, AlertsKept
  <2>2. QED
        BY <1>3, <2>1 DEF AlertFault
<1>4. QED
      BY <1>1, <1>2, <1>3 DEF AlertStep, Deliver

\* The invariants of all requests survive every step of the system.
LEMMA InvNext ==
    ASSUME IInv, [Next]_vars
    PROVE  \A j \in Requests : RequestInv(j)'
<1>0. TypeOK /\ \A j \in Requests : RequestInv(j)
      BY DEF IInv
<1>1. ASSUME NEW i \in Requests, DispatchStep(i), NEW j \in Requests
      PROVE  RequestInv(j)'
  <2>1. CASE j = i
        BY <1>0, <1>1, <2>1, RequestDispatch
  <2>2. CASE j # i
    <3>1. /\ inv'[j] = inv[j] /\ degraded[j] \subseteq degraded'[j] /\ alert'[j] = alert[j]
          BY <1>0, <1>1, <2>2, DispatchIsLocal DEF OthersKept, AlertsKept
    <3>2. QED
          BY <1>0, <3>1, RequestUntouched
  <2>3. QED
        BY <2>1, <2>2
<1>2. ASSUME NEW m \in Requests, AlertStep(m), NEW j \in Requests
      PROVE  RequestInv(j)'
  <2>1. /\ inv' = inv /\ degraded[j] \subseteq degraded'[j]
        /\ alert'[j].stage = "none" <=> alert[j].stage = "none"
        BY <1>0, <1>2, AlertIsLocal DEF AlertsKept
  <2>2. QED
        BY <1>0, <2>1, RequestUntouched
<1>3. ASSUME UNCHANGED <<inv, degraded, alert>>, NEW j \in Requests
      PROVE  RequestInv(j)'
      BY <1>0, <1>3, RequestUntouched
<1>4. ASSUME NEW o \in Orders, EnforceStep(o)
      PROVE  UNCHANGED <<inv, degraded, alert>>
      BY <1>4 DEF EnforceStep, SendOrder, Enforce, EnforceKill, EnforceMark, EnforceFault
<1>5. ASSUME NEW s \in Sessions, Expire(s)
      PROVE  UNCHANGED <<inv, degraded, alert>>
      BY <1>5 DEF Expire
<1>6. CASE UNCHANGED vars
      BY <1>3, <1>6 DEF vars
<1>7. CASE Next
      BY <1>1, <1>2, <1>3, <1>4, <1>5, <1>7 DEF Next
<1>8. QED
      BY <1>6, <1>7

LEMMA InvCorrect == Spec => []IInv
<1>1. IInv /\ [Next]_vars /\ TypeOK' => IInv'
      BY InvNext DEF IInv
<1>2. QED
      BY <1>1, InvInit, TypeCorrect, PTL DEF Spec

(***************************************************************************)
(* No prompt reaches the agent for a reason the configuration does not     *)
(* give: every passed event had no text, was judged and allowed, was       *)
(* blocked in sidecar mode, or met a reported detection failure under      *)
(* fail_open (the answers of dispatcher.lambda_handler).                   *)
(***************************************************************************)
THEOREM DeliveryCorrect == Spec => []DeliveryIsAccountedFor
<1>1. IInv => DeliveryIsAccountedFor
      BY DEF IInv, RequestInv, Delivered, DeliveryIsAccountedFor
<1>2. QED
      BY <1>1, InvCorrect, PTL

(***************************************************************************)
(* A block that was answered, with no detection failure reported, has      *)
(* killed inline or put its order on the alert queue, in either mode and   *)
(* through every failing call (dispatcher.py:424-515).                     *)
(***************************************************************************)
THEOREM KillCarried == Spec => []EveryBlockCarriesAKill
<1>1. IInv => EveryBlockCarriesAKill
      BY DEF IInv, RequestInv, Carried, EveryBlockCarriesAKill
<1>2. QED
      BY <1>1, InvCorrect, PTL

(***************************************************************************)
(* The block is in the registry before anything kills, orders or notes a   *)
(* kill (dispatcher.py:360, 435).                                          *)
(***************************************************************************)
THEOREM MarkedBeforeKill == Spec => []KillOnlyAfterMark
<1>1. IInv => KillOnlyAfterMark
      BY DEF IInv, RequestInv, MarkedFirst, KillOnlyAfterMark
<1>2. QED
      BY <1>1, InvCorrect, PTL
-----------------------------------------------------------------------------
(***************************************************************************)
(* What the reports say.  An outcome reads "confirmed" only for a session  *)
(* that has stopped, in whichever of its four places it stands: the        *)
(* invocation, the alert message, the registry row, a mail.                *)
(***************************************************************************)
Stopped(s) == runtime[s] = "stopped"

OutcomeFacts(i) ==
    /\ inv[i].kill = "confirmed" => Stopped(Session(i))
    /\ alert[i].outcome = "confirmed" => Stopped(Session(i))
    /\ alert[i].stage = "killed" =>
          alert[i].outcome \in KillOutcomes \ {"deferred"}
    /\ alert[i].stage \in {"killed", "done"} /\ Impossible(alert[i].outcome) =>
          "enforcement" \in degraded[i]
    /\ "terminated" \in notices[i] => Stopped(Session(i))
    /\ alert[i].stage = "done" /\ ~Stopped(Session(i)) =>
          \/ notices[i] \ {"terminated"} # {}
          \/ "alerting" \in degraded[i]

RowTrue(s) == registry[s].kill = "confirmed" => Stopped(s)

ReportInv == /\ \A i \in Requests : OutcomeFacts(i)
             /\ \A s \in Sessions : RowTrue(s)

LEMMA ReportInit == Init => ReportInv
BY DEF Init, RegistryInit, RuntimeInit, DispatcherInit, AlertingInit, NoRow, NewInvocation,
   NoAlert, ReportInv, OutcomeFacts, RowTrue

\* A step that reports nothing new on a request and revives no session.
LEMMA OutcomeUntouched ==
    ASSUME NEW j \in Requests, OutcomeFacts(j), Session(j) \in Sessions,
           inv'[j].kill = "confirmed" =>
               inv[j].kill = "confirmed" \/ runtime'[Session(j)] = "stopped",
           degraded[j] \subseteq degraded'[j], notices'[j] = notices[j],
           alert'[j].outcome = alert[j].outcome,
           alert'[j].stage = alert[j].stage \/ alert'[j].stage \in {"queued", "dead"},
           \A t \in Sessions : runtime[t] = "stopped" => runtime'[t] = "stopped",
           runtime' \in [Sessions -> {"live", "stopped"}]
    PROVE  OutcomeFacts(j)'
<1>1. Session(j)' = Session(j)
      BY DEF Session
<1>2. QED
      BY <1>1 DEF OutcomeFacts, Stopped, Impossible

\* No session comes back to life.
LEMMA RuntimeStays ==
    ASSUME TypeOK, [Next]_vars
    PROVE  /\ runtime' \in [Sessions -> {"live", "stopped"}]
           /\ \A t \in Sessions : runtime[t] = "stopped" => runtime'[t] = "stopped"
<1>0. runtime \in [Sessions -> {"live", "stopped"}]
      BY DEF TypeOK
<1>1. ASSUME NEW i \in Requests, DispatchStep(i)
      PROVE  \/ runtime' = runtime
             \/ \E r \in StopResults(Session(i)) : StopRuntimeSession(Session(i), r)
      BY <1>1 DEF DispatchStep, Dispatch, Screen, Judge, Contain, Crash, RejectStray,
         FailToParse, PassWithoutText, RefuseUnscopable, ReadSession, Ensure, Evaluate,
         Record, Report, InlineKill, NoteKill, PublishAlert, FallbackKill
<1>2. ASSUME NEW m \in Requests, AlertStep(m)
      PROVE  \/ runtime' = runtime
             \/ \E r \in StopResults(Session(m)) : StopRuntimeSession(Session(m), r)
      BY <1>2 DEF AlertStep, Deliver, AlertKill, AlertReport, AlertFault
<1>3. ASSUME NEW o \in Orders, EnforceStep(o)
      PROVE  \/ runtime' = runtime
             \/ \E r \in StopResults(OrderSession[o]) : StopRuntimeSession(OrderSession[o], r)
      BY <1>3 DEF EnforceStep, SendOrder, Enforce, EnforceKill, EnforceMark, EnforceFault
<1>4. ASSUME NEW s \in Sessions, Expire(s) PROVE runtime' = runtime
      BY <1>4 DEF Expire
<1>5. \/ runtime' = runtime
      \/ \E s \in Sessions : \E r \in StopResults(s) : StopRuntimeSession(s, r)
      BY <1>1, <1>2, <1>3, <1>4, RequestFacts, OrderAssumption DEF Next, vars
<1>6. QED
      BY <1>0, <1>5, StopEffect

(***************************************************************************)
(* A dispatcher step notes an outcome of its own attempt only.             *)
(***************************************************************************)
LEMMA DispatchReports ==
    ASSUME TypeOK, ReportInv, NEW i \in Requests, DispatchStep(i),
           runtime' \in [Sessions -> {"live", "stopped"}],
           \A t \in Sessions : runtime[t] = "stopped" => runtime'[t] = "stopped"
    PROVE  ReportInv'
<1>0. /\ Session(i) \in Sessions
      /\ registry \in [Sessions -> Row] /\ runtime \in [Sessions -> {"live", "stopped"}]
      /\ inv \in [Requests -> Invocation] /\ inv[i] \in Invocation
      /\ degraded \in [Requests -> SUBSET Components] /\ notices' = notices
      /\ alert \in [Requests -> AlertMessage]
      BY RequestFacts DEF TypeOK, DispatchStep
<1>1. inv'[i].kill = "confirmed" => inv[i].kill = "confirmed" \/ runtime'[Session(i)] = "stopped"
  <2>1. ASSUME NEW response \in {"passed", "refused", "error"}, Answer(i, response)
        PROVE  inv'[i].kill = inv[i].kill
        BY <1>0, <2>1, AnswerEffect
  <2>2. ASSUME NEW stage \in Stages, Goto(i, stage) PROVE inv'[i].kill = inv[i].kill
        BY <1>0, <2>2, GotoEffect
  <2>3. ASSUME DetectionFailed(i) PROVE inv'[i].kill = inv[i].kill
        BY <1>0, <2>3, FailureEffect
  <2>4. CASE Screen(i) \/ Crash(i)
        BY <2>1, <2>3, <2>4
        DEF Screen, RejectStray, FailToParse, PassWithoutText, RefuseUnscopable, Crash
  <2>5. CASE ReadSession(i)
    <3>1. registry[Session(i)].risk \in 0..SessionCap /\ registry[Session(i)].seen \in Nat
          BY <1>0 DEF Row
    <3>2. CASE inv' = [inv EXCEPT ![i].pc = "ensure",
                                  ![i].risk = registry[Session(i)].risk,
                                  ![i].seen = registry[Session(i)].seen]
          BY <1>0, <3>1, <3>2, ReadEffect DEF Reads
    <3>3. QED
          BY <2>1, <2>3, <2>5, <3>2 DEF ReadSession
  <2>6. CASE Ensure(i)
        BY <2>2, <2>3, <2>6 DEF Ensure, Stages
  <2>7. CASE Evaluate(i)
    <3>1. ASSUME NEW risk \in SessionRisks(i), NEW verdict \in Verdicts(i, risk),
                 inv' = [inv EXCEPT ![i].pc = "record", ![i].risk = risk,
                                    ![i].verdict = verdict]
          PROVE  inv'[i].kill = inv[i].kill
      <4>1. risk \in 0..SessionCap /\ verdict \in {"allow", "block"}
            BY <1>0, SessionRisksBounded DEF Verdicts
      <4>2. QED
            BY <1>0, <3>1, <4>1, EvaluateEffect DEF Judges
    <3>2. QED
          BY <2>3, <2>7, <3>1 DEF Evaluate
  <2>8. CASE Record(i)
    <3>1. ASSUME NEW write, Unacknowledged(i, "landed" \in write)
          PROVE  inv'[i].kill = inv[i].kill
      <4>1. ("landed" \in write) \in BOOLEAN
            OBVIOUS
      <4>2. QED
            BY <1>0, <3>1, <4>1, UnrecordedEffect
    <3>2. QED
          BY <1>0, <2>8, <3>1, AckedWriteLanded, RecordedEffect DEF Record
  <2>9. CASE Report(i)
    <3>1. ASSUME NEW outcome \in TransportOutcomes, AfterTelemetry(i, outcome)
          PROVE  inv'[i].kill \in {inv[i].kill, "deferred"}
      <4>1. outcome \in {"none", "sent", "degraded", "fail_closed"}
            BY DEF TransportOutcomes
      <4>2. QED
            BY <1>0, <3>1, <4>1, TelemetryEffect
    <3>2. QED
          BY <2>3, <2>9, <3>1 DEF Report
  <2>10. CASE InlineKill(i) \/ FallbackKill(i)
    <3>1. PICK r \in StopResults(Session(i)) :
            /\ StopRuntimeSession(Session(i), r)
            /\ \/ inv' = [inv EXCEPT ![i].pc = "note", ![i].kill = r[1]]
               \/ AnswerKilled(i, r[1])
          BY <2>10 DEF InlineKill, FallbackKill
    <3>2. r[1] \in KillOutcomes
          BY <1>0, StopResultsFacts DEF KillOutcomes
    <3>3. ASSUME NEW outcome \in KillOutcomes,
                 inv' = [inv EXCEPT ![i].pc = "note", ![i].kill = outcome]
          PROVE  inv'[i].kill = outcome
          BY <1>0, <3>3, KillEffect
    <3>4. ASSUME NEW outcome \in KillOutcomes, AnswerKilled(i, outcome)
          PROVE  inv'[i].kill = outcome
          BY <1>0, <3>4, FallbackEffect
    <3>5. inv'[i].kill = r[1]
          BY <3>1, <3>2, <3>3, <3>4
    <3>6. QED
          BY <1>0, <3>1, <3>5, StopEffect
  <2>11. CASE NoteKill(i)
        BY <2>2, <2>11 DEF NoteKill, Stages
  <2>12. CASE PublishAlert(i)
    <3>1. BlockAnswer \in {"passed", "refused", "error"}
          BY DEF BlockAnswer
    <3>2. QED
          BY <2>1, <2>2, <2>12, <3>1 DEF PublishAlert, Stages
  <2>13. QED
        BY <2>4, <2>5, <2>6, <2>7, <2>8, <2>9, <2>10, <2>11, <2>12
        DEF DispatchStep, Dispatch, Judge, Contain
<1>2. /\ alert'[i].outcome = alert[i].outcome
      /\ alert'[i].stage = alert[i].stage \/ alert'[i].stage = "queued"
      BY <1>0, EnqueueEffect DEF DispatchStep, Dispatch, Screen, Judge, Contain, Crash,
         RejectStray, FailToParse, PassWithoutText, RefuseUnscopable, ReadSession, Ensure,
         Evaluate, Record, Report, InlineKill, NoteKill, PublishAlert, FallbackKill
<1>3. OthersKept(i) /\ AlertsKept(i) /\ \A j \in Requests : degraded[j] \subseteq degraded'[j]
      BY DispatchIsLocal
<1>4. ASSUME NEW j \in Requests PROVE OutcomeFacts(j)'
  <2>1. Session(j) \in Sessions /\ OutcomeFacts(j)
        BY RequestFacts DEF ReportInv
  <2>2. CASE j = i
        BY <1>0, <1>1, <1>2, <1>3, <2>1, <2>2, OutcomeUntouched
  <2>3. CASE j # i
    <3>1. inv'[j] = inv[j] /\ alert'[j] = alert[j]
          BY <1>3, <2>3 DEF OthersKept, AlertsKept
    <3>2. QED
          BY <1>0, <1>3, <2>1, <3>1, OutcomeUntouched
  <2>4. QED
        BY <2>2, <2>3
<1>5. ASSUME NEW s \in Sessions PROVE RowTrue(s)'
  <2>1. registry'[s].kill = "confirmed" =>
            registry[s].kill = "confirmed" \/ (s = Session(i) /\ inv[i].kill = "confirmed")
    <3>1. ASSUME NEW outcome \in KillOutcomes \cup {"none"},
                 RecordKillOutcome(Session(i), outcome)
          PROVE  registry'[s].kill = IF s = Session(i) THEN outcome ELSE registry[s].kill
          BY <1>0, <3>1, OutcomeEffect
    <3>2. CASE NoteKill(i)
      <4>1. inv[i].kill \in KillOutcomes \cup {"none"}
            BY <1>0 DEF Invocation
      <4>2. QED
            BY <3>1, <3>2, <4>1 DEF NoteKill
    <3>3. CASE Ensure(i)
          BY <1>0, <3>3, EnsureEffect DEF Ensure
    <3>4. CASE Record(i)
      <4>1. inv[i].risk \in 0..SessionCap /\ inv[i].seen + 1 \in Nat
            BY <1>0 DEF Invocation
      <4>2. QED
            BY <1>0, <3>4, <4>1, EvaluationEffect DEF Record
    <3>5. CASE registry' = registry
          BY <3>5
    <3>6. QED
          BY <3>2, <3>3, <3>4, <3>5
          DEF DispatchStep, Dispatch, Screen, Judge, Contain, Crash, RejectStray, FailToParse,
              PassWithoutText, RefuseUnscopable, ReadSession, Evaluate, Report, InlineKill,
              PublishAlert, FallbackKill
  <2>2. QED
        BY <1>0, <2>1 DEF ReportInv, OutcomeFacts, RowTrue, Stopped
<1>6. QED
      BY <1>4, <1>5 DEF ReportInv

(***************************************************************************)
(* The alert Lambda writes and mails the outcome of its last attempt.      *)
(***************************************************************************)
LEMMA AlertReports ==
    ASSUME TypeOK, ReportInv, NEW m \in Requests, AlertStep(m),
           runtime' \in [Sessions -> {"live", "stopped"}],
           \A t \in Sessions : runtime[t] = "stopped" => runtime'[t] = "stopped"
    PROVE  ReportInv'
<1>0. /\ Session(m) \in Sessions /\ Session(m)' = Session(m)
      /\ registry \in [Sessions -> Row] /\ runtime \in [Sessions -> {"live", "stopped"}]
      /\ degraded \in [Requests -> SUBSET Components]
      /\ notices \in [Requests -> SUBSET Subjects]
      /\ alert \in [Requests -> AlertMessage] /\ alert[m] \in AlertMessage
      BY RequestFacts DEF TypeOK, Session
<1>1. inv' = inv /\ AlertsKept(m) /\ \A j \in Requests : degraded[j] \subseteq degraded'[j]
      BY AlertIsLocal
<1>2. OutcomeFacts(m)
      BY DEF ReportInv
<1>3. ASSUME NEW j \in Requests, j # m, notices'[j] = notices[j]
      PROVE  OutcomeFacts(j)'
  <2>1. Session(j) \in Sessions /\ OutcomeFacts(j) /\ alert'[j] = alert[j]
        BY <1>1, <1>3, RequestFacts DEF ReportInv, AlertsKept
  <2>2. QED
        BY <1>0, <1>1, <1>3, <2>1, OutcomeUntouched
<1>4. ASSUME registry' = registry, NEW s \in Sessions
      PROVE  RowTrue(s)'
      BY <1>4 DEF ReportInv, RowTrue, Stopped
<1>5. CASE AlertKill(m)
  <2>1. PICK outcome \in KillOutcomes \ {"deferred"} :
          /\ AttemptedKill(m, outcome)
          /\ Impossible(outcome) => "enforcement" \in degraded'[m]
          /\ outcome = "confirmed" => runtime'[Session(m)] = "stopped"
    <3>1. CASE RuntimeKind[Session(m)] # "absent"
      <4>1. PICK r \in StopResults(Session(m)) :
              /\ StopRuntimeSession(Session(m), r)
              /\ AttemptedKill(m, r[1]) /\ StopReported(m, r[1])
            BY <1>5, <3>1 DEF AlertKill
      <4>2. r[1] \in KillOutcomes \ {"deferred"} /\ r[1] # "not_configured"
            BY <1>0, StopResultsFacts DEF KillOutcomes
      <4>3. r[1] \in {"failed", "unsupported"} => "enforcement" \in degraded'[m]
            BY <1>0, <3>1, <4>1, StopReportedEffect
      <4>4. QED
            BY <1>0, <4>1, <4>2, <4>3, StopEffect DEF Impossible
    <3>2. CASE RuntimeKind[Session(m)] = "absent"
      <4>1. AttemptedKill(m, "not_configured") /\ Degrade(m, "enforcement")
            BY <1>5, <3>2 DEF AlertKill
      <4>2. "enforcement" \in degraded'[m]
            BY <1>0, <4>1, DegradeEffect DEF Components
      <4>3. QED
            BY <4>1, <4>2 DEF KillOutcomes
    <3>3. QED
          BY <3>1, <3>2
  <2>2. alert'[m].stage = "killed" /\ alert'[m].outcome = outcome
        BY <1>0, <2>1, KilledEffect
  <2>3. notices' = notices /\ registry' = registry
        BY <1>5 DEF AlertKill
  <2>4. OutcomeFacts(m)'
        BY <1>0, <1>1, <1>2, <2>1, <2>2, <2>3 DEF OutcomeFacts, Stopped
  <2>5. QED
        BY <1>3, <1>4, <2>3, <2>4 DEF ReportInv
<1>6. CASE AlertReport(m)
  <2>1. PICK failures \in SUBSET {"enforcement", "alerting"} :
          /\ \/ RecordKillOutcome(Session(m), alert[m].outcome)
             \/ "enforcement" \in failures /\ UNCHANGED registry
          /\ PublishSnsAlert(m, failures)
          /\ degraded' = [degraded EXCEPT ![m] = @ \cup failures]
        BY <1>6 DEF AlertReport
  <2>2. /\ alert[m].stage = "killed" /\ runtime' = runtime
        /\ alert[m].outcome \in KillOutcomes \ {"deferred"}
        BY <1>2, <1>6 DEF AlertReport, OutcomeFacts
  <2>3. /\ alert'[m].outcome = alert[m].outcome
        /\ alert'[m].stage \in {"done", "queued", "dead"}
    <3>1. CASE alert' = [alert EXCEPT ![m].stage = "done"]
          BY <1>0, <3>1 DEF AlertMessage
    <3>2. CASE alert' = [alert EXCEPT ![m] = Returned(@)]
          BY <1>0, <3>2, ReturnedMessage
    <3>3. QED
          BY <1>6, <3>1, <3>2 DEF AlertReport
  <2>4. /\ Subject(alert[m].outcome) = "terminated" <=> alert[m].outcome = "confirmed"
        BY <2>2 DEF Subject, KillOutcomes
  <2>5. \/ notices'[m] = notices[m] \cup {Subject(alert[m].outcome)}
        \/ notices'[m] = notices[m] /\ "alerting" \in failures
        BY <1>0, <2>1 DEF PublishSnsAlert, Mail
  <2>6. degraded'[m] = degraded[m] \cup failures
        BY <1>0, <2>1
  <2>7. "terminated" \in notices'[m] => Stopped(Session(m))
        BY <1>2, <2>4, <2>5 DEF OutcomeFacts
  <2>8. ~Stopped(Session(m)) => \/ notices'[m] \ {"terminated"} # {}
                                \/ "alerting" \in degraded'[m]
    <3>1. CASE notices'[m] = notices[m] /\ "alerting" \in failures
          BY <2>6, <3>1
    <3>2. CASE /\ notices'[m] = notices[m] \cup {Subject(alert[m].outcome)}
               /\ alert[m].outcome # "confirmed"
          BY <2>4, <3>2
    <3>3. CASE alert[m].outcome = "confirmed"
          BY <1>2, <3>3 DEF OutcomeFacts
    <3>4. QED
          BY <2>5, <3>1, <3>2, <3>3
  <2>9. OutcomeFacts(m)'
        BY <1>0, <1>1, <1>2, <2>2, <2>3, <2>7, <2>8 DEF OutcomeFacts, Stopped, Impossible
  <2>10. ASSUME NEW j \in Requests, j # m PROVE OutcomeFacts(j)'
    <3>1. notices'[j] = notices[j]
          BY <1>0, <2>1, <2>10 DEF PublishSnsAlert, Mail
    <3>2. QED
          BY <1>3, <2>10, <3>1
  <2>11. ASSUME NEW s \in Sessions PROVE RowTrue(s)'
    <3>1. CASE RecordKillOutcome(Session(m), alert[m].outcome)
      <4>1. registry'[s].kill = IF s = Session(m) THEN alert[m].outcome ELSE registry[s].kill
            BY <1>0, <2>2, <3>1, OutcomeEffect
      <4>2. QED
            BY <1>2, <2>2, <4>1 DEF ReportInv, OutcomeFacts, RowTrue, Stopped
    <3>2. CASE registry' = registry
          BY <1>4, <3>2
    <3>3. QED
          BY <2>1, <3>1, <3>2
  <2>12. QED
        BY <2>9, <2>10, <2>11 DEF ReportInv
<1>7. CASE AlertFault(m)
  <2>1. alert'[m].outcome = alert[m].outcome /\ alert'[m].stage \in {"queued", "dead"}
        BY <1>0, <1>7, ReceivedMessage, ReturnedMessage DEF AlertFault
  <2>2. notices' = notices
        BY <1>7 DEF AlertFault
  <2>3. OutcomeFacts(m)'
        BY <1>0, <1>1, <1>2, <2>1, <2>2, OutcomeUntouched
  <2>4. ASSUME NEW s \in Sessions PROVE RowTrue(s)'
    <3>1. CASE /\ RecordKillOutcome(Session(m), alert[m].outcome)
               /\ alert[m].stage = "killed"
      <4>1. registry'[s].kill = IF s = Session(m) THEN alert[m].outcome ELSE registry[s].kill
            BY <1>0, <1>2, <3>1, OutcomeEffect DEF OutcomeFacts
      <4>2. QED
            BY <1>2, <4>1 DEF ReportInv, OutcomeFacts, RowTrue, Stopped
    <3>2. CASE registry' = registry
          BY <1>4, <3>2
    <3>3. QED
          BY <1>7, <3>1, <3>2 DEF AlertFault
  <2>5. QED
        BY <1>3, <2>2, <2>3, <2>4 DEF ReportInv
<1>8. QED
      BY <1>5, <1>6, <1>7 DEF AlertStep, Deliver

LEMMA ReportCorrect == Spec => []ReportInv
<1>1. TypeOK /\ ReportInv /\ [Next]_vars => ReportInv'
  <2> SUFFICES ASSUME TypeOK, ReportInv, [Next]_vars PROVE ReportInv'
      OBVIOUS
  <2>1. /\ runtime' \in [Sessions -> {"live", "stopped"}]
        /\ \A t \in Sessions : runtime[t] = "stopped" => runtime'[t] = "stopped"
        BY RuntimeStays
  <2>2. ASSUME UNCHANGED <<inv, degraded, alert, notices>>,
               \A s \in Sessions : registry'[s].kill \in {registry[s].kill, "none"}
        PROVE  ReportInv'
    <3>1. ASSUME NEW j \in Requests PROVE OutcomeFacts(j)'
      <4>1. Session(j) \in Sessions /\ OutcomeFacts(j)
            BY RequestFacts DEF ReportInv
      <4>2. QED
            BY <2>1, <2>2, <4>1, OutcomeUntouched
    <3>2. ASSUME NEW s \in Sessions PROVE RowTrue(s)'
          BY <2>1, <2>2 DEF ReportInv, RowTrue, Stopped
    <3>3. QED
          BY <3>1, <3>2 DEF ReportInv
  <2>3. ASSUME NEW o \in Orders, EnforceStep(o)
        PROVE  ReportInv'
    <3>1. OrderSession[o] \in Sessions /\ registry \in [Sessions -> Row]
          BY OrderAssumption DEF TypeOK
    <3>2. \A s \in Sessions : registry'[s].kill = registry[s].kill
          BY <2>3, <3>1, MarkEffect
          DEF EnforceStep, SendOrder, Enforce, EnforceKill, EnforceMark, EnforceFault
    <3>3. UNCHANGED <<inv, degraded, alert, notices>>
          BY <2>3 DEF EnforceStep, SendOrder, Enforce, EnforceKill, EnforceMark, EnforceFault
    <3>4. QED
          BY <2>2, <3>2, <3>3
  <2>4. ASSUME NEW t \in Sessions, Expire(t)
        PROVE  ReportInv'
    <3>1. \A s \in Sessions : registry'[s].kill \in {registry[s].kill, "none"}
          BY <2>4 DEF Expire, ExpireSession, NoRow, TypeOK
    <3>2. QED
          BY <2>2, <2>4, <3>1 DEF Expire
  <2>5. CASE UNCHANGED vars
        BY <2>2, <2>5 DEF vars
  <2>6. QED
        BY <2>1, <2>3, <2>4, <2>5, DispatchReports, AlertReports DEF Next
<1>2. QED
      BY <1>1, ReportInit, TypeCorrect, PTL DEF Spec

(***************************************************************************)
(* A mail that says "terminated" and a row that says "confirmed" are about *)
(* a session that has stopped, whatever was retried, delivered twice or    *)
(* overwritten (enforcement.py:82-129, alerting.py:56-69).                 *)
(***************************************************************************)
THEOREM ReportsAreTrue == Spec => []KillReportsAreTrue
<1>1. ReportInv => KillReportsAreTrue
      BY RequestFacts DEF ReportInv, OutcomeFacts, RowTrue, Stopped, KillReportsAreTrue
<1>2. QED
      BY <1>1, ReportCorrect, PTL

(***************************************************************************)
(* When the alert Lambda is done with a block and the agent still runs,    *)
(* a mail says so or its loss was reported, and a stop that could not      *)
(* work was reported on its own (alerting.py:50, enforcement.py:96-128).   *)
(***************************************************************************)
THEOREM NobodyIsToldNothing == Spec => []SurvivorsAreHeard
<1>1. ReportInv => SurvivorsAreHeard
      BY DEF ReportInv, OutcomeFacts, Stopped, SurvivorsAreHeard, Reported
<1>2. QED
      BY <1>1, ReportCorrect, PTL
-----------------------------------------------------------------------------
(***************************************************************************)
(* The refinement of StopPromise.  How often a call has been tried follows *)
(* from where its invocation and its alert, or its order, stand.           *)
(***************************************************************************)
TriesFacts(i) ==
    /\ inv[i].pc \notin {"fallback", "done"} => alert[i].stage = "none"
    /\ inv[i].pc \notin {"note", "publish", "done"} => ~KilledInline(i)
    /\ TIER1_MODE # "gate" /\ inv[i].pc # "done" => ~KilledInline(i)
    /\ alert[i].receives <= MaxReceive
    /\ alert[i].stage \in {"none", "queued"} => alert[i].receives < MaxReceive
    /\ alert[i].stage = "killed" => alert[i].receives > 0

AttemptFacts(o) ==
    /\ orders[o].stage = "none" => orders[o].attempts = 0
    /\ orders[o].stage \in {"none", "sent"} => orders[o].attempts < MaxAttempts

TriesInv == /\ \A i \in Requests : TriesFacts(i)
            /\ \A o \in Orders : AttemptFacts(o)

\* What a step may do to a call: leave it, make it, try it, or tell of it.
Leaves(c) == /\ Made(c)' <=> Made(c)
             /\ Tries(c)' = Tries(c) /\ Told(c)' = Told(c)

Makes(c) == /\ ~Made(c) /\ Made(c)'
            /\ Tries(c)' = Tries(c) /\ Told(c)' = Told(c) /\ runtime' = runtime

Attempts(c) == /\ Made(c) /\ Made(c)' /\ Tries(c) < Bound(c)
               /\ Tries(c)' = Tries(c) + 1 /\ Told(c)' = Told(c)
               /\ \/ runtime' = runtime
                  \/ \E r \in StopResults(Target(c)) : StopRuntimeSession(Target(c), r)

Tells(c, word) == /\ Made(c)' <=> Made(c)
                  /\ Tries(c)' = Tries(c) /\ Tries(c) > 0 /\ runtime' = runtime
                  /\ word = "terminated" => Stopped(Target(c))
                  /\ Told(c)' = Told(c) \cup {word}

CallMoves(c) == \/ Leaves(c) /\ runtime' = runtime
                \/ Makes(c) \/ Attempts(c)
                \/ \E word \in Subjects : Tells(c, word)

LEMMA BlockCall ==
    ASSUME NEW i \in Requests
    PROVE  /\ <<"block", i>> \in Calls /\ Target(<<"block", i>>) = Session(i)
           /\ Made(<<"block", i>>) <=> Blocked(i)
           /\ Made(<<"block", i>>)' <=> Blocked(i)'
           /\ Tries(<<"block", i>>) = BlockTries(i)
           /\ Tries(<<"block", i>>)' = BlockTries(i)'
           /\ Told(<<"block", i>>) = notices[i] /\ Told(<<"block", i>>)' = notices'[i]
           /\ Bound(<<"block", i>>) = MaxReceive + 1
BY DEF Calls, Blocks, Target, Made, Tries, Told, Bound

LEMMA OrderCall ==
    ASSUME NEW o \in Orders
    PROVE  /\ <<"order", o>> \in Calls /\ Target(<<"order", o>>) = OrderSession[o]
           /\ Made(<<"order", o>>) <=> orders[o].stage # "none"
           /\ Made(<<"order", o>>)' <=> orders'[o].stage # "none"
           /\ Tries(<<"order", o>>) = orders[o].attempts
           /\ Tries(<<"order", o>>)' = orders'[o].attempts
           /\ Told(<<"order", o>>) = {} /\ Told(<<"order", o>>)' = {}
           /\ Bound(<<"order", o>>) = MaxAttempts
BY DEF Calls, Blocks, Target, Made, Tries, Told, Bound

LEMMA CallsAreTwoKinds ==
    ASSUME NEW c \in Calls
    PROVE  \/ \E i \in Requests : c = <<"block", i>>
           \/ \E o \in Orders : c = <<"order", o>>
BY DEF Calls, Blocks

(***************************************************************************)
(* A step that moves one call and leaves the others is a step of the       *)
(* promise.                                                                *)
(***************************************************************************)
LEMMA CallMoveMaps ==
    ASSUME TypeOK, TypeOK', NEW c \in Calls, CallMoves(c),
           \A d \in Calls \ {c} : Leaves(d)
    PROVE  [Stop!Next]_Stop!vars
<1>. DEFINE made == {d \in Calls : Made(d)}
            tries == [d \in Calls |-> Tries(d)]
            told == [d \in Calls |-> Told(d)]
<1>1. tries[c] = Tries(c) /\ told[c] = Told(c)
      OBVIOUS
<1>2. /\ tries' = [tries EXCEPT ![c] = Tries(c)']
      /\ told' = [told EXCEPT ![c] = Told(c)']
      BY DEF Leaves
<1>3. /\ (Made(c)' <=> Made(c)) => made' = made
      /\ ~Made(c) /\ Made(c)' => made' = made \cup {c}
      BY DEF Leaves
<1>4. Tries(c)' = Tries(c) => tries' = tries
      BY <1>2
<1>5. Told(c)' = Told(c) => told' = told
      BY <1>2
<1>6. runtime' = runtime => StoppedSessions' = StoppedSessions
      BY DEF StoppedSessions
<1>7. CASE Leaves(c) /\ runtime' = runtime
      BY <1>3, <1>4, <1>5, <1>6, <1>7 DEF Leaves, Stop!vars
<1>8. CASE Makes(c)
      BY <1>3, <1>4, <1>5, <1>6, <1>8 DEF Makes, Stop!Next, Stop!Make
<1>9. CASE Attempts(c)
  <2>1. StoppedSessions' \in {StoppedSessions, StoppedSessions \cup {Target(c)}}
    <3>1. CASE runtime' = runtime
          BY <1>6, <3>1
    <3>2. CASE \E r \in StopResults(Target(c)) : StopRuntimeSession(Target(c), r)
      <4>1. PICK r \in StopResults(Target(c)) : StopRuntimeSession(Target(c), r)
            BY <3>2
      <4>2. Target(c) \in Sessions
            BY CallsAreTwoKinds, BlockCall, OrderCall, RequestFacts, OrderAssumption
      <4>3. /\ r[2] \in {"live", "stopped"}
            /\ runtime[Target(c)] = "stopped" => r[2] = "stopped"
            BY <4>2, StopResultsFacts DEF TypeOK
      <4>4. runtime' = [runtime EXCEPT ![Target(c)] = r[2]]
            BY <4>1 DEF StopRuntimeSession
      <4>5. QED
            BY <4>2, <4>3, <4>4 DEF StoppedSessions, TypeOK
    <3>3. QED
          BY <1>9, <3>1, <3>2 DEF Attempts
  <2>2. /\ made' = made /\ told' = told /\ c \in made
        /\ tries' = [tries EXCEPT ![c] = @ + 1] /\ tries[c] < [d \in Calls |-> Bound(d)][c]
        BY <1>1, <1>2, <1>3, <1>5, <1>9 DEF Attempts
  <2>3. [d \in Calls |-> Target(d)][c] = Target(c)
        OBVIOUS
  <2>4. QED
        BY <2>1, <2>2, <2>3 DEF Stop!Next, Stop!Try
<1>10. CASE \E word \in Subjects : Tells(c, word)
  <2>1. PICK word \in Subjects : Tells(c, word)
        BY <1>10
  <2>2. /\ made' = made /\ tries' = tries /\ tries[c] > 0
        /\ told' = [told EXCEPT ![c] = @ \cup {word}]
        /\ StoppedSessions' = StoppedSessions
        BY <1>1, <1>2, <1>3, <1>4, <1>6, <2>1 DEF Tells
  <2>3. /\ [d \in Calls |-> Target(d)][c] = Target(c)
        /\ word = "terminated" => Target(c) \in StoppedSessions
        BY <2>1, CallsAreTwoKinds, BlockCall, OrderCall, RequestFacts, OrderAssumption
        DEF Tells, Stopped, StoppedSessions
  <2>4. QED
        BY <2>2, <2>3 DEF Stop!Next, Stop!Tell
<1>11. QED
      BY <1>7, <1>8, <1>9, <1>10 DEF CallMoves


(***************************************************************************)
(* The steps of an invocation.  BlockMoves: what one does to its block.    *)
(***************************************************************************)
BlockMoves(i) ==
    \/ /\ Blocked(i)' <=> Blocked(i)
       /\ BlockTries(i)' = BlockTries(i) /\ runtime' = runtime
    \/ /\ ~Blocked(i) /\ Blocked(i)'
       /\ BlockTries(i)' = BlockTries(i) /\ runtime' = runtime
    \/ /\ Blocked(i) /\ Blocked(i)' /\ BlockTries(i) < MaxReceive + 1
       /\ BlockTries(i)' = BlockTries(i) + 1
       /\ \/ runtime' = runtime
          \/ \E r \in StopResults(Session(i)) : StopRuntimeSession(Session(i), r)

\* A step that goes on, or ends, without a kill; it may publish the alert.
LEMMA NoKill ==
    ASSUME NEW i \in Requests, TriesFacts(i), runtime' = runtime,
           inv'[i].kill = inv[i].kill, inv[i].pc # "done",
           \/ inv'[i].pc = "done"
           \/ inv'[i].pc = "fallback" /\ TIER1_MODE # "gate"
           \/ inv[i].pc = "note" /\ inv'[i].pc = "publish"
           \/ inv[i].pc \notin {"note", "publish", "fallback"},
           \/ alert'[i] = alert[i]
           \/ /\ alert[i].stage = "none" /\ alert'[i].stage = "queued"
              /\ alert'[i].receives = alert[i].receives
              /\ inv'[i].pc \in {"fallback", "done"},
           Blocked(i) => Blocked(i)'
    PROVE  TriesFacts(i)' /\ BlockMoves(i)
<1>1. (KilledInline(i)' <=> KilledInline(i)) /\ alert'[i].receives = alert[i].receives
      BY DEF KilledInline
<1>2. BlockTries(i)' = BlockTries(i)
      BY <1>1 DEF BlockTries
<1>3. BlockMoves(i)
      BY <1>2 DEF BlockMoves
<1>4. TriesFacts(i)'
      BY <1>1 DEF TriesFacts
<1>5. QED
      BY <1>3, <1>4

\* An inline kill, in the mode and at the point where it is the first one.
LEMMA InlineTry ==
    ASSUME TypeOK, NEW i \in Requests, TriesFacts(i), Blocked(i), Blocked(i)',
           inv[i].pc \in {"kill", "fallback"}, alert'[i] = alert[i],
           NEW r \in StopResults(Session(i)), StopRuntimeSession(Session(i), r),
           inv'[i].kill = r[1],
           \/ inv'[i].pc = "done"
           \/ inv'[i].pc = "note" /\ inv[i].pc = "kill" /\ TIER1_MODE = "gate"
    PROVE  TriesFacts(i)' /\ BlockMoves(i)
<1>1. r[1] \notin {"none", "deferred"}
      BY RequestFacts, StopResultsFacts DEF TypeOK
<1>2. ~KilledInline(i) /\ KilledInline(i)'
      BY <1>1 DEF TriesFacts, KilledInline
<1>3. alert[i].receives \in Nat /\ MaxReceive \in Nat /\ alert[i].receives <= MaxReceive
      BY MaxReceiveAssumption DEF TypeOK, AlertMessage, TriesFacts
<1>4. /\ BlockTries(i) < MaxReceive + 1
      /\ BlockTries(i)' = BlockTries(i) + 1
      BY <1>2, <1>3 DEF BlockTries
<1>5. BlockMoves(i)
      BY <1>4 DEF BlockMoves
<1>6. TriesFacts(i)'
      BY DEF TriesFacts
<1>7. QED
      BY <1>5, <1>6

LEMMA DispatchTries ==
    ASSUME TypeOK, NEW i \in Requests, RequestInv(i), TriesFacts(i), DispatchStep(i)
    PROVE  TriesFacts(i)' /\ BlockMoves(i)
<1>0. /\ Session(i) \in Sessions
      /\ registry \in [Sessions -> Row] /\ runtime \in [Sessions -> {"live", "stopped"}]
      /\ inv \in [Requests -> Invocation] /\ inv[i] \in Invocation
      /\ degraded \in [Requests -> SUBSET Components]
      /\ alert \in [Requests -> AlertMessage]
      BY RequestFacts DEF TypeOK
<1>1. ASSUME NEW response \in {"passed", "refused", "error"}, Answer(i, response),
             UNCHANGED <<alert, runtime>>, inv[i].pc # "done"
      PROVE  TriesFacts(i)' /\ BlockMoves(i)
  <2>1. /\ inv'[i].pc = "done" /\ inv'[i].kill = inv[i].kill
        /\ inv'[i].verdict = inv[i].verdict /\ inv'[i].recorded = inv[i].recorded
        BY <1>0, <1>1, AnswerEffect
  <2>2. QED
        BY <1>1, <2>1, NoKill DEF Blocked
<1>2. ASSUME DetectionFailed(i), UNCHANGED <<alert, runtime>>, inv[i].pc # "done"
      PROVE  TriesFacts(i)' /\ BlockMoves(i)
  <2>1. /\ inv'[i].pc = "done" /\ inv'[i].kill = inv[i].kill
        /\ inv'[i].verdict = inv[i].verdict /\ inv'[i].recorded = inv[i].recorded
        BY <1>0, <1>2, FailureEffect
  <2>2. QED
        BY <1>2, <2>1, NoKill DEF Blocked
<1>3. CASE Screen(i) \/ Crash(i)
      BY <1>1, <1>2, <1>3 DEF Screen, RejectStray, FailToParse, PassWithoutText,
         RefuseUnscopable, Crash, At, InFlight
<1>4. CASE ReadSession(i)
  <2>1. registry[Session(i)].risk \in 0..SessionCap /\ registry[Session(i)].seen \in Nat
        BY <1>0 DEF Row
  <2>2. CASE inv' = [inv EXCEPT ![i].pc = "ensure",
                                ![i].risk = registry[Session(i)].risk,
                                ![i].seen = registry[Session(i)].seen]
    <3>1. /\ inv'[i].kill = inv[i].kill /\ inv'[i].pc = "ensure"
          /\ inv'[i].verdict = inv[i].verdict /\ inv'[i].recorded = inv[i].recorded
          BY <1>0, <2>1, <2>2, ReadEffect DEF Reads
    <3>2. QED
          BY <1>4, <3>1, NoKill DEF ReadSession, At, Blocked
  <2>3. QED
        BY <1>1, <1>2, <1>4, <2>2 DEF ReadSession, At
<1>5. CASE Ensure(i)
  <2>1. CASE Goto(i, "evaluate")
    <3>1. /\ inv'[i].kill = inv[i].kill /\ inv'[i].pc = "evaluate"
          /\ inv'[i].verdict = inv[i].verdict /\ inv'[i].recorded = inv[i].recorded
          BY <1>0, <2>1, GotoEffect DEF Stages
    <3>2. QED
          BY <1>5, <3>1, NoKill DEF Ensure, At, Blocked
  <2>2. QED
        BY <1>2, <1>5, <2>1 DEF Ensure, At
<1>6. CASE Evaluate(i)
  <2>1. ASSUME NEW risk \in SessionRisks(i), NEW verdict \in Verdicts(i, risk),
               inv' = [inv EXCEPT ![i].pc = "record", ![i].risk = risk,
                                  ![i].verdict = verdict]
        PROVE  TriesFacts(i)' /\ BlockMoves(i)
    <3>1. risk \in 0..SessionCap /\ verdict \in {"allow", "block"}
          BY <1>0, SessionRisksBounded DEF Verdicts
    <3>2. /\ inv'[i].pc = "record" /\ inv'[i].kill = inv[i].kill /\ ~inv[i].recorded
          BY <1>0, <1>6, <2>1, <3>1, EvaluateEffect
          DEF Judges, Evaluate, At, RequestInv, StageFacts
    <3>3. QED
          BY <1>6, <3>2, NoKill DEF Evaluate, At, Blocked
  <2>2. QED
        BY <1>2, <1>6, <2>1 DEF Evaluate, At
<1>7. CASE Record(i)
  <2>1. ~Blocked(i)
        BY <1>7 DEF Record, At, RequestInv, StageFacts, Blocked
  <2>2. inv'[i].kill = inv[i].kill /\ inv'[i].pc \in {"report", "done"}
    <3>1. ASSUME NEW write, Unacknowledged(i, "landed" \in write)
          PROVE  inv'[i].kill = inv[i].kill /\ inv'[i].pc = "done"
      <4>1. ("landed" \in write) \in BOOLEAN
            OBVIOUS
      <4>2. QED
            BY <1>0, <3>1, <4>1, UnrecordedEffect
    <3>2. QED
          BY <1>0, <1>7, <3>1, AckedWriteLanded, RecordedEffect DEF Record
  <2>3. QED
        BY <1>7, <2>1, <2>2, NoKill DEF Record, At
<1>8. CASE Report(i)
  <2>1. ASSUME NEW outcome \in TransportOutcomes, AfterTelemetry(i, outcome)
        PROVE  TriesFacts(i)' /\ BlockMoves(i)
    <3>1. outcome \in {"none", "sent", "degraded", "fail_closed"}
          BY DEF TransportOutcomes
    <3>2. /\ inv'[i].verdict = inv[i].verdict /\ inv'[i].recorded = inv[i].recorded
          /\ inv'[i].pc \in {"done", "kill", "note"}
          /\ \/ inv'[i].kill = inv[i].kill /\ inv'[i].pc # "note"
             \/ inv'[i].kill = "deferred"
          BY <1>0, <2>1, <3>1, TelemetryEffect
    <3>3. CASE inv'[i].kill = inv[i].kill
          BY <1>8, <3>2, <3>3, NoKill DEF Report, At, Blocked
    <3>4. CASE inv'[i].kill = "deferred"
      <4>1. ~KilledInline(i) /\ ~KilledInline(i)' /\ alert' = alert /\ runtime' = runtime
            BY <1>8, <3>4 DEF Report, At, TriesFacts, KilledInline
      <4>2. BlockMoves(i)
            BY <3>2, <4>1 DEF BlockMoves, BlockTries, Blocked
      <4>3. TriesFacts(i)'
            BY <1>8, <4>1 DEF Report, At, TriesFacts
      <4>4. QED
            BY <4>2, <4>3
    <3>5. QED
          BY <3>2, <3>3, <3>4
  <2>2. QED
        BY <1>2, <1>8, <2>1 DEF Report, At
<1>9. CASE InlineKill(i)
  <2>1. PICK r \in StopResults(Session(i)) :
          /\ StopRuntimeSession(Session(i), r)
          /\ inv' = [inv EXCEPT ![i].pc = "note", ![i].kill = r[1]]
        BY <1>9 DEF InlineKill
  <2>2. r[1] \in KillOutcomes
        BY <1>0, StopResultsFacts DEF KillOutcomes
  <2>3. /\ inv'[i].pc = "note" /\ inv'[i].kill = r[1]
        /\ inv'[i].verdict = inv[i].verdict /\ inv'[i].recorded = inv[i].recorded
        BY <1>0, <2>1, <2>2, KillEffect
  <2>4. Blocked(i) /\ Blocked(i)' /\ inv[i].pc = "kill" /\ TIER1_MODE = "gate" /\ alert' = alert
        BY <1>9, <2>3 DEF InlineKill, At, RequestInv, StageFacts, Blocked
  <2>5. QED
        BY <2>1, <2>3, <2>4, InlineTry
<1>10. CASE NoteKill(i)
  <2>1. /\ inv'[i].kill = inv[i].kill /\ inv'[i].pc = "publish"
        /\ inv'[i].verdict = inv[i].verdict /\ inv'[i].recorded = inv[i].recorded
        BY <1>0, <1>10, GotoEffect DEF NoteKill, Stages
  <2>2. QED
        BY <1>10, <2>1, NoKill DEF NoteKill, At, Blocked
<1>11. CASE PublishAlert(i)
  <2>1. BlockAnswer \in {"passed", "refused", "error"}
        BY DEF BlockAnswer
  <2>2. /\ inv'[i].kill = inv[i].kill
        /\ inv'[i].verdict = inv[i].verdict /\ inv'[i].recorded = inv[i].recorded
        /\ inv'[i].pc = "done" \/ (inv'[i].pc = "fallback" /\ TIER1_MODE # "gate")
        BY <1>0, <1>11, <2>1, AnswerEffect, GotoEffect DEF PublishAlert, Stages
  <2>3. /\ alert[i].stage = "none"
        /\ \/ alert'[i] = alert[i]
           \/ alert'[i].stage = "queued" /\ alert'[i].receives = alert[i].receives
        BY <1>0, <1>11, EnqueueEffect DEF PublishAlert, At, TriesFacts
  <2>4. QED
        BY <1>11, <2>2, <2>3, NoKill DEF PublishAlert, At, Blocked
<1>12. CASE FallbackKill(i)
  <2>1. PICK r \in StopResults(Session(i)) :
          StopRuntimeSession(Session(i), r) /\ AnswerKilled(i, r[1])
        BY <1>12 DEF FallbackKill
  <2>2. r[1] \in KillOutcomes
        BY <1>0, StopResultsFacts DEF KillOutcomes
  <2>3. /\ inv'[i].pc = "done" /\ inv'[i].kill = r[1]
        /\ inv'[i].verdict = inv[i].verdict /\ inv'[i].recorded = inv[i].recorded
        BY <1>0, <2>1, <2>2, FallbackEffect
  <2>4. Blocked(i) /\ Blocked(i)' /\ inv[i].pc = "fallback" /\ alert' = alert
        BY <1>12, <2>3 DEF FallbackKill, At, RequestInv, StageFacts, Blocked
  <2>5. QED
        BY <2>1, <2>3, <2>4, InlineTry
<1>13. QED
      BY <1>3, <1>4, <1>5, <1>6, <1>7, <1>8, <1>9, <1>10, <1>11, <1>12
      DEF DispatchStep, Dispatch, Judge, Contain


(***************************************************************************)
(* The steps of the alert Lambda: a receive is a try, a mail tells of it.  *)
(***************************************************************************)
LEMMA AlertTries ==
    ASSUME TypeOK, NEW m \in Requests, RequestInv(m), TriesFacts(m), OutcomeFacts(m),
           AlertStep(m)
    PROVE  TriesFacts(m)' /\ CallMoves(<<"block", m>>)
<1>0. /\ Session(m) \in Sessions
      /\ notices \in [Requests -> SUBSET Subjects]
      /\ alert \in [Requests -> AlertMessage] /\ alert[m] \in AlertMessage
      /\ alert[m].receives \in Nat /\ MaxReceive \in Nat
      BY RequestFacts, MaxReceiveAssumption DEF TypeOK, AlertMessage
<1>1. /\ inv' = inv /\ alert[m].stage # "none"
      /\ inv[m].pc \in {"fallback", "done"} /\ Blocked(m) /\ Blocked(m)'
      BY AlertIsLocal DEF TriesFacts, RequestInv, MarkedFirst, Blocked
<1>2. (KilledInline(m)' <=> KilledInline(m)) /\ BlockTries(m) \in Nat
      BY <1>0, <1>1 DEF KilledInline, BlockTries
<1>3. ASSUME alert[m].stage = "queued", notices' = notices,
             alert'[m].receives = alert[m].receives + 1,
             alert'[m].stage \in {"killed", "queued", "dead"},
             alert'[m].stage = "queued" => alert'[m].receives < MaxReceive,
             \/ runtime' = runtime
             \/ \E r \in StopResults(Session(m)) : StopRuntimeSession(Session(m), r)
      PROVE  TriesFacts(m)' /\ CallMoves(<<"block", m>>)
  <2>1. alert[m].receives < MaxReceive
        BY <1>3 DEF TriesFacts
  <2>2. BlockTries(m)' = BlockTries(m) + 1 /\ BlockTries(m) < MaxReceive + 1
        BY <1>0, <1>2, <1>3, <2>1 DEF BlockTries
  <2>3. Attempts(<<"block", m>>)
        BY <1>1, <1>3, <2>2, BlockCall DEF Attempts
  <2>4. TriesFacts(m)'
        BY <1>0, <1>1, <1>2, <1>3, <2>1 DEF TriesFacts
  <2>5. QED
        BY <2>3, <2>4 DEF CallMoves
<1>4. ASSUME alert[m].stage = "killed", runtime' = runtime,
             alert'[m].receives = alert[m].receives,
             alert'[m].stage \in {"done", "queued", "dead"},
             alert'[m].stage = "queued" => alert'[m].receives < MaxReceive
      PROVE  /\ TriesFacts(m)'
             /\ BlockTries(m)' = BlockTries(m) /\ BlockTries(m) > 0
  <2>1. BlockTries(m)' = BlockTries(m) /\ BlockTries(m) > 0
        BY <1>0, <1>2, <1>4 DEF BlockTries, TriesFacts
  <2>2. TriesFacts(m)'
        BY <1>1, <1>2, <1>4 DEF TriesFacts
  <2>3. QED
        BY <2>1, <2>2
<1>5. CASE AlertKill(m)
  <2>1. PICK outcome \in KillOutcomes : AttemptedKill(m, outcome)
    <3>1. CASE RuntimeKind[Session(m)] # "absent"
      <4>1. PICK r \in StopResults(Session(m)) : AttemptedKill(m, r[1])
            BY <1>5, <3>1 DEF AlertKill
      <4>2. r[1] \in KillOutcomes
            BY <1>0, StopResultsFacts DEF KillOutcomes, TypeOK
      <4>3. QED
            BY <4>1, <4>2
    <3>2. CASE RuntimeKind[Session(m)] = "absent"
          BY <1>5, <3>2 DEF AlertKill, KillOutcomes
    <3>3. QED
          BY <3>1, <3>2
  <2>2. alert'[m].stage = "killed" /\ alert'[m].receives = alert[m].receives + 1
        BY <1>0, <2>1, KilledEffect
  <2>3. /\ alert[m].stage = "queued" /\ notices' = notices
        /\ \/ runtime' = runtime
           \/ \E r \in StopResults(Session(m)) : StopRuntimeSession(Session(m), r)
        BY <1>5 DEF AlertKill
  <2>4. QED
        BY <1>3, <2>2, <2>3
<1>6. CASE AlertReport(m)
  <2>1. /\ alert'[m].receives = alert[m].receives
        /\ alert'[m].stage \in {"done", "queued", "dead"}
        /\ alert'[m].stage = "queued" => alert'[m].receives < MaxReceive
    <3>1. CASE alert' = [alert EXCEPT ![m].stage = "done"]
          BY <1>0, <3>1 DEF AlertMessage
    <3>2. CASE alert' = [alert EXCEPT ![m] = Returned(@)]
          BY <1>0, <3>2, ReturnedMessage
    <3>3. QED
          BY <1>6, <3>1, <3>2 DEF AlertReport
  <2>2. /\ alert[m].stage = "killed" /\ runtime' = runtime
        /\ notices' = notices \/ Mail(m)
        BY <1>6 DEF AlertReport, PublishSnsAlert
  <2>3. TriesFacts(m)' /\ BlockTries(m)' = BlockTries(m) /\ BlockTries(m) > 0
        BY <1>4, <2>1, <2>2
  <2>4. CASE notices' = notices
        BY <1>1, <2>2, <2>3, <2>4, BlockCall DEF Leaves, CallMoves
  <2>5. CASE Mail(m)
    <3>1. PICK word \in Subjects : word = Subject(alert[m].outcome)
          BY DEF Subject, Subjects
    <3>2. word = "terminated" => Stopped(Session(m))
          BY <2>2, <3>1 DEF Subject, OutcomeFacts, KillOutcomes
    <3>3. notices'[m] = notices[m] \cup {word}
          BY <1>0, <2>5, <3>1 DEF Mail
    <3>4. Tells(<<"block", m>>, word)
          BY <1>1, <2>2, <2>3, <3>2, <3>3, BlockCall DEF Tells
    <3>5. QED
          BY <2>3, <3>4 DEF CallMoves
  <2>6. QED
        BY <2>2, <2>4, <2>5
<1>7. CASE AlertFault(m)
  <2>1. runtime' = runtime /\ notices' = notices
        BY <1>7 DEF AlertFault
  <2>2. CASE alert[m].stage = "queued" /\ alert' = [alert EXCEPT ![m] = Returned(Received(m))]
    <3>1. /\ alert'[m].receives = alert[m].receives + 1
          /\ alert'[m].stage \in {"queued", "dead"}
          /\ alert'[m].stage = "queued" => alert'[m].receives < MaxReceive
          BY <1>0, <2>2, ReceivedMessage, ReturnedMessage
    <3>2. QED
          BY <1>3, <2>1, <2>2, <3>1
  <2>3. CASE alert[m].stage = "killed" /\ alert' = [alert EXCEPT ![m] = Returned(@)]
    <3>1. /\ alert'[m].receives = alert[m].receives
          /\ alert'[m].stage \in {"queued", "dead"}
          /\ alert'[m].stage = "queued" => alert'[m].receives < MaxReceive
          BY <1>0, <2>3, ReturnedMessage
    <3>2. TriesFacts(m)' /\ BlockTries(m)' = BlockTries(m)
          BY <1>4, <2>1, <2>3, <3>1
    <3>3. QED
          BY <1>1, <2>1, <3>2, BlockCall DEF Leaves, CallMoves
  <2>4. QED
        BY <1>7, <2>2, <2>3 DEF AlertFault
<1>8. QED
      BY <1>5, <1>6, <1>7 DEF AlertStep, Deliver

(***************************************************************************)
(* The life of an order: sent once, tried in each attempt.                 *)
(***************************************************************************)
LEMMA RetriedEffect ==
    ASSUME NEW order \in Order
    PROVE  /\ Retried(order).attempts = order.attempts
           /\ Retried(order).stage \in {"sent", "dropped"}
           /\ Retried(order).stage = "sent" => order.attempts < MaxAttempts
<1>1. CASE order.attempts >= MaxAttempts
      BY <1>1 DEF Retried, Order
<1>2. CASE ~(order.attempts >= MaxAttempts)
      BY <1>2, OrderAssumption DEF Retried, Order
<1>3. QED
      BY <1>1, <1>2

LEMMA EnforceTries ==
    ASSUME TypeOK, NEW o \in Orders, AttemptFacts(o), EnforceStep(o)
    PROVE  AttemptFacts(o)' /\ CallMoves(<<"order", o>>)
<1>0. /\ orders \in [Orders -> Order] /\ orders[o] \in Order /\ Attempted(o) \in Order
      /\ orders[o].attempts \in Nat /\ MaxAttempts \in Nat
      BY OrderAssumption, OrderTyped DEF TypeOK, Attempted, Order
<1>1. Attempted(o).attempts = orders[o].attempts + 1
      BY <1>0 DEF Attempted, Order
<1>2. ASSUME orders[o].stage = "sent", orders'[o].attempts = orders[o].attempts + 1,
             orders'[o].stage \in {"killed", "sent", "dropped"},
             orders'[o].stage = "sent" => orders'[o].attempts < MaxAttempts,
             \/ runtime' = runtime
             \/ \E r \in StopResults(OrderSession[o]) : StopRuntimeSession(OrderSession[o], r)
      PROVE  AttemptFacts(o)' /\ CallMoves(<<"order", o>>)
  <2>1. Attempts(<<"order", o>>)
        BY <1>2, OrderCall DEF Attempts, AttemptFacts
  <2>2. QED
        BY <1>2, <2>1 DEF AttemptFacts, CallMoves
<1>3. ASSUME orders[o].stage = "killed", orders'[o].attempts = orders[o].attempts,
             orders'[o].stage \in {"done", "sent", "dropped"},
             orders'[o].stage = "sent" => orders'[o].attempts < MaxAttempts,
             runtime' = runtime
      PROVE  AttemptFacts(o)' /\ CallMoves(<<"order", o>>)
      BY <1>3, OrderCall DEF AttemptFacts, Leaves, CallMoves
<1>4. CASE SendOrder(o)
  <2>1. /\ orders[o].stage = "none" /\ orders'[o].stage = "sent"
        /\ orders'[o].attempts = orders[o].attempts /\ runtime' = runtime
        BY <1>0, <1>4 DEF SendOrder, Order
  <2>2. Makes(<<"order", o>>)
        BY <2>1, OrderCall DEF Makes
  <2>3. QED
        BY <2>1, <2>2 DEF AttemptFacts, CallMoves
<1>5. CASE EnforceKill(o)
  <2>1. CASE orders' = [orders EXCEPT ![o] = [Attempted(o) EXCEPT !.stage = "killed"]]
    <3>1. orders'[o].attempts = orders[o].attempts + 1 /\ orders'[o].stage = "killed"
          BY <1>0, <1>1, <2>1 DEF Order
    <3>2. QED
          BY <1>2, <1>5, <3>1 DEF EnforceKill
  <2>2. CASE orders' = [orders EXCEPT ![o] = Retried(Attempted(o))]
    <3>1. orders'[o] = Retried(Attempted(o))
          BY <1>0, <2>2
    <3>2. QED
          BY <1>0, <1>1, <1>2, <1>5, <3>1, RetriedEffect DEF EnforceKill
  <2>3. QED
        BY <1>5, <2>1, <2>2 DEF EnforceKill
<1>6. CASE EnforceMark(o)
  <2>1. orders'[o].attempts = orders[o].attempts /\ orders'[o].stage = "done"
        BY <1>0, <1>6 DEF EnforceMark, Order
  <2>2. QED
        BY <1>3, <1>6, <2>1 DEF EnforceMark
<1>7. CASE EnforceFault(o)
  <2>1. CASE orders[o].stage = "sent" /\ orders' = [orders EXCEPT ![o] = Retried(Attempted(o))]
    <3>1. orders'[o] = Retried(Attempted(o))
          BY <1>0, <2>1
    <3>2. QED
          BY <1>0, <1>1, <1>2, <1>7, <2>1, <3>1, RetriedEffect DEF EnforceFault
  <2>2. CASE orders[o].stage = "killed" /\ orders' = [orders EXCEPT ![o] = Retried(@)]
    <3>1. orders'[o] = Retried(orders[o])
          BY <1>0, <2>2
    <3>2. QED
          BY <1>0, <1>3, <1>7, <2>2, <3>1, RetriedEffect DEF EnforceFault
  <2>3. QED
        BY <1>7, <2>1, <2>2 DEF EnforceFault
<1>8. QED
      BY <1>4, <1>5, <1>6, <1>7 DEF EnforceStep, Enforce


LEMMA PromiseInit == Init => TriesInv /\ Stop!Init
<1> SUFFICES ASSUME Init PROVE TriesInv /\ Stop!Init
    OBVIOUS
<1>1. ASSUME NEW i \in Requests
      PROVE  TriesFacts(i) /\ ~Blocked(i) /\ BlockTries(i) = 0 /\ notices[i] = {}
      BY <1>1, MaxReceiveAssumption
      DEF Init, DispatcherInit, AlertingInit, NewInvocation, NoAlert, TriesFacts,
          KilledInline, Blocked, BlockTries
<1>2. ASSUME NEW o \in Orders
      PROVE  AttemptFacts(o) /\ orders[o].stage = "none" /\ orders[o].attempts = 0
      BY <1>2, OrderAssumption DEF Init, OrdersInit, AttemptFacts
<1>3. ASSUME NEW c \in Calls PROVE ~Made(c) /\ Tries(c) = 0 /\ Told(c) = {}
      BY <1>1, <1>2, CallsAreTwoKinds, BlockCall, OrderCall
<1>4. StoppedSessions = {}
      BY DEF Init, RuntimeInit, StoppedSessions
<1>5. QED
      BY <1>1, <1>2, <1>3, <1>4 DEF TriesInv, Stop!Init

\* A call whose invocation and alert, or whose order, a step leaves alone.
LEMMA BlockLeft ==
    ASSUME NEW j \in Requests, TriesFacts(j),
           inv'[j] = inv[j], alert'[j] = alert[j], notices'[j] = notices[j]
    PROVE  TriesFacts(j)' /\ Leaves(<<"block", j>>)
<1>1. /\ Blocked(j)' <=> Blocked(j)
      /\ BlockTries(j)' = BlockTries(j) /\ TriesFacts(j)'
      BY DEF Blocked, BlockTries, KilledInline, TriesFacts
<1>2. QED
      BY <1>1, BlockCall DEF Leaves

LEMMA OrderLeft ==
    ASSUME NEW o \in Orders, AttemptFacts(o), orders'[o] = orders[o]
    PROVE  AttemptFacts(o)' /\ Leaves(<<"order", o>>)
BY OrderCall DEF AttemptFacts, Leaves

(***************************************************************************)
(* Every step moves one call at most, and keeps what the tries follow from.*)
(***************************************************************************)
LEMMA PromiseNext ==
    ASSUME TypeOK, TypeOK', IInv, ReportInv, TriesInv, [Next]_vars
    PROVE  TriesInv' /\ [Stop!Next]_Stop!vars
<1>0. /\ \A i \in Requests : RequestInv(i) /\ TriesFacts(i) /\ OutcomeFacts(i)
      /\ \A o \in Orders : AttemptFacts(o)
      BY DEF IInv, ReportInv, TriesInv
<1>1. ASSUME NEW i \in Requests, DispatchStep(i)
      PROVE  TriesInv' /\ [Stop!Next]_Stop!vars
  <2>1. TriesFacts(i)' /\ BlockMoves(i)
        BY <1>0, <1>1, DispatchTries
  <2>2. notices' = notices /\ orders' = orders
        BY <1>1 DEF DispatchStep
  <2>3. CallMoves(<<"block", i>>)
        BY <2>1, <2>2, BlockCall DEF BlockMoves, CallMoves, Leaves, Makes, Attempts
  <2>4. ASSUME NEW j \in Requests, j # i PROVE TriesFacts(j)' /\ Leaves(<<"block", j>>)
    <3>1. inv'[j] = inv[j] /\ alert'[j] = alert[j]
          BY <1>1, <2>4, DispatchIsLocal DEF OthersKept, AlertsKept
    <3>2. QED
          BY <1>0, <2>2, <3>1, BlockLeft
  <2>5. ASSUME NEW o \in Orders PROVE AttemptFacts(o)' /\ Leaves(<<"order", o>>)
        BY <1>0, <2>2, OrderLeft
  <2>6. \A c \in Calls \ {<<"block", i>>} : Leaves(c)
        BY <2>4, <2>5, CallsAreTwoKinds
  <2>7. QED
        BY <2>1, <2>3, <2>4, <2>5, <2>6, BlockCall, CallMoveMaps DEF TriesInv
<1>2. ASSUME NEW m \in Requests, AlertStep(m)
      PROVE  TriesInv' /\ [Stop!Next]_Stop!vars
  <2>1. TriesFacts(m)' /\ CallMoves(<<"block", m>>)
        BY <1>0, <1>2, AlertTries
  <2>2. /\ inv' = inv /\ orders' = orders /\ AlertsKept(m)
        /\ \A j \in Requests \ {m} : notices'[j] = notices[j]
        BY <1>2, AlertIsLocal
        DEF AlertStep, Deliver, AlertKill, AlertReport, AlertFault, PublishSnsAlert, Mail, TypeOK
  <2>3. ASSUME NEW j \in Requests, j # m PROVE TriesFacts(j)' /\ Leaves(<<"block", j>>)
        BY <1>0, <2>2, <2>3, BlockLeft DEF AlertsKept
  <2>4. ASSUME NEW o \in Orders PROVE AttemptFacts(o)' /\ Leaves(<<"order", o>>)
        BY <1>0, <2>2, OrderLeft
  <2>5. \A c \in Calls \ {<<"block", m>>} : Leaves(c)
        BY <2>3, <2>4, CallsAreTwoKinds
  <2>6. QED
        BY <2>1, <2>3, <2>4, <2>5, BlockCall, CallMoveMaps DEF TriesInv
<1>3. ASSUME NEW o \in Orders, EnforceStep(o)
      PROVE  TriesInv' /\ [Stop!Next]_Stop!vars
  <2>1. AttemptFacts(o)' /\ CallMoves(<<"order", o>>)
        BY <1>0, <1>3, EnforceTries
  <2>2. /\ inv' = inv /\ alert' = alert /\ notices' = notices
        /\ \A p \in Orders \ {o} : orders'[p] = orders[p]
        BY <1>3 DEF EnforceStep, SendOrder, Enforce, EnforceKill, EnforceMark, EnforceFault, TypeOK
  <2>3. ASSUME NEW j \in Requests PROVE TriesFacts(j)' /\ Leaves(<<"block", j>>)
        BY <1>0, <2>2, BlockLeft
  <2>4. ASSUME NEW p \in Orders, p # o PROVE AttemptFacts(p)' /\ Leaves(<<"order", p>>)
        BY <1>0, <2>2, <2>4, OrderLeft
  <2>5. \A c \in Calls \ {<<"order", o>>} : Leaves(c)
        BY <2>3, <2>4, CallsAreTwoKinds
  <2>6. QED
        BY <2>1, <2>3, <2>4, <2>5, OrderCall, CallMoveMaps DEF TriesInv
<1>4. ASSUME UNCHANGED <<runtime, inv, alert, notices, orders>>
      PROVE  TriesInv' /\ [Stop!Next]_Stop!vars
  <2>1. ASSUME NEW j \in Requests PROVE TriesFacts(j)' /\ Leaves(<<"block", j>>)
        BY <1>0, <1>4, BlockLeft
  <2>2. ASSUME NEW o \in Orders PROVE AttemptFacts(o)' /\ Leaves(<<"order", o>>)
        BY <1>0, <1>4, OrderLeft
  <2>3. \A c \in Calls : Leaves(c)
        BY <2>1, <2>2, CallsAreTwoKinds
  <2>4. UNCHANGED Stop!vars
        BY <1>4, <2>3 DEF Leaves, StoppedSessions, Stop!vars
  <2>5. QED
        BY <2>1, <2>2, <2>4 DEF TriesInv
<1>5. ASSUME NEW s \in Sessions, Expire(s)
      PROVE  UNCHANGED <<runtime, inv, alert, notices, orders>>
      BY <1>5 DEF Expire
<1>6. CASE UNCHANGED vars
      BY <1>4, <1>6 DEF vars
<1>7. CASE Next
      BY <1>1, <1>2, <1>3, <1>4, <1>5, <1>7 DEF Next
<1>8. QED
      BY <1>6, <1>7

(***************************************************************************)
(* The dispatcher, the alert Lambda and the enforcement Lambda keep what   *)
(* StopPromise promises, whatever interleaves, fails or comes twice: no    *)
(* session stops but in a try of a recorded block or an order about it, no *)
(* call is tried more often than its queue, its retries and one fallback   *)
(* allow, and no mail precedes its kill (dispatcher.py:435,                *)
(* alerting.py:143-170, enforcement_handler.py:72).                        *)
(***************************************************************************)
THEOREM ContainmentKeepsThePromise == Spec => StopsKeepThePromise
<1>1. TypeOK /\ TypeOK' /\ IInv /\ ReportInv /\ TriesInv /\ [Next]_vars
        => TriesInv' /\ [Stop!Next]_Stop!vars
      BY PromiseNext
<1>2. QED
      BY <1>1, PromiseInit, TypeCorrect, InvCorrect, ReportCorrect, PTL
      DEF Spec, StopsKeepThePromise, Stop!Spec
=============================================================================
