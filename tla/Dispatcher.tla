------------------------------ MODULE Dispatcher ------------------------------
(***************************************************************************)
(* The Tier 1 dispatcher (adapters/agentcore/dispatcher.py): the REQUEST   *)
(* interceptor on the gateway.  Many Lambda invocations run at once; each  *)
(* is cut at its AWS calls, so any number of them interleave between the   *)
(* read of a session and the write of its verdict.                         *)
(*                                                                         *)
(* Detection events and encrypted evidence are write-only sinks whose      *)
(* failures are swallowed (session_registry.py:299, dispatcher.py:471);    *)
(* they decide nothing and are left out.                                   *)
(***************************************************************************)
EXTENDS Enforcement

CONSTANTS
    Requests,                  \* one identity per interceptor event
    Req,                       \* [Requests -> Request]: what each event is
    TIER1_MODE,                \* "sidecar" or "gate"
    DETECTION_FAILURE_POLICY,  \* "fail_open" or "fail_closed"
    TRANSPORT_FAILURE_POLICY,  \* "allow_and_mark_degraded" or "fail_closed"
    TelemetryWired,            \* FALSE: telemetry disabled, or no queue URL
    SESSION_BLOCK_THRESHOLD,   \* accumulated risk that blocks by itself
    BonusCap,                  \* most the repeat and prompt bonuses add up to
    Serialized                 \* TRUE: a client awaits one answer before it
                               \* sends the next prompt of the same session

VARIABLES
    inv,        \* [Requests -> Invocation]
    intake,     \* requests copied to the prompt intake queue, Tier 2's input
    degraded,   \* [Requests -> SUBSET Components]: degraded metrics raised
    alert       \* [Requests -> AlertMessage]: the alert queue, see Alerting

(***************************************************************************)
(* An event as the parser leaves it: has it an envelope, does it parse,    *)
(* is there text, was the text cut, is there a source; is its mcp body a   *)
(* JSON object; does a signature, hash, policy rule or the prompt score    *)
(* block it alone; and the score it adds to its session.                   *)
(***************************************************************************)
Request == [session : Sessions, envelope : BOOLEAN, parses : BOOLEAN,
            text : BOOLEAN, truncated : BOOLEAN, sourced : BOOLEAN,
            object : BOOLEAN, flagged : BOOLEAN, score : Nat]

Modes == {"sidecar", "gate"}

ASSUME DispatcherAssumption ==
    /\ Req \in [Requests -> Request]
    /\ TIER1_MODE \in Modes
    /\ DETECTION_FAILURE_POLICY \in {"fail_open", "fail_closed"}
    /\ TRANSPORT_FAILURE_POLICY \in {"allow_and_mark_degraded", "fail_closed"}
    /\ TelemetryWired \in BOOLEAN
    /\ Serialized \in BOOLEAN
    /\ SessionCap \in Nat
    /\ SESSION_BLOCK_THRESHOLD \in Nat
    /\ BonusCap \in Nat

Stages == {"idle", "ensure", "evaluate", "record", "report", "kill", "note",
           "publish", "fallback", "done"}

Components == {"inline_detection", "prompt_telemetry", "enforcement", "alerting"}

\* Local state of one invocation: what it read, judged, and did about it.
Invocation == [pc : Stages, risk : 0..SessionCap, seen : Nat,
               verdict : {"none", "allow", "block"}, recorded : BOOLEAN,
               transport : {"none", "sent", "degraded", "fail_closed"},
               kill : KillOutcomes \cup {"none"},
               response : {"none", "passed", "refused", "error"}]

AlertMessage == [stage : {"none", "queued", "killed", "done", "dead"},
                 receives : Nat, outcome : KillOutcomes \cup {"none"}]

NewInvocation == [pc |-> "idle", risk |-> 0, seen |-> 0, verdict |-> "none",
                  recorded |-> FALSE, transport |-> "none", kill |-> "none",
                  response |-> "none"]

NoAlert == [stage |-> "none", receives |-> 0, outcome |-> "none"]

DispatcherInit == /\ inv = [i \in Requests |-> NewInvocation]
                  /\ intake = {}
                  /\ degraded = [i \in Requests |-> {}]
                  /\ alert = [i \in Requests |-> NoAlert]

Session(i) == Req[i].session

\* The event reaches the try block of the handler: it is a prompt to judge.
Inspectable(i) == /\ Req[i].envelope /\ Req[i].parses /\ Req[i].text
                  /\ ~Req[i].truncated /\ Req[i].sourced

InFlight(i) == inv[i].pc \notin {"idle", "done"}

At(i, stage) == inv[i].pc = stage

Goto(i, stage) == inv' = [inv EXCEPT ![i].pc = stage]

Answer(i, response) == inv' = [inv EXCEPT ![i].pc = "done", ![i].response = response]

Degrade(i, component) == degraded' = [degraded EXCEPT ![i] = @ \cup {component}]

\* terminate_session_detailed reports a stop that AgentCore refused or that
\* went wrong; without a runtime ARN it returns "failed" before any call.
StopReported(i, outcome) ==
    IF outcome = "unsupported" \/ (outcome = "failed" /\ RuntimeKind[Req[i].session] # "absent")
    THEN Degrade(i, "enforcement") ELSE UNCHANGED degraded

\* Both except clauses: report, then refuse or pass by DETECTION_FAILURE_POLICY.
FailureAnswer == IF DETECTION_FAILURE_POLICY = "fail_closed" THEN "refused" ELSE "passed"

\* Mutant: the failure passes the prompt and nobody hears of it.
FailsSilently(i) == Answer(i, "passed") /\ UNCHANGED degraded

DetectionFailed(i) == Answer(i, FailureAnswer) /\ Degrade(i, "inline_detection")
-----------------------------------------------------------------------------
(* Before the session is looked at. *)

\* No mcp or http envelope: not gateway traffic, the handler raises.
RejectStray(i) ==
    /\ At(i, "idle") /\ ~Req[i].envelope
    /\ Answer(i, "error")
    /\ UNCHANGED <<registry, runtime, intake, degraded, alert>>

FailToParse(i) ==
    /\ At(i, "idle") /\ Req[i].envelope /\ ~Req[i].parses
    /\ DetectionFailed(i)
    /\ UNCHANGED <<registry, runtime, intake, alert>>

\* No inspectable text: passed before truncation is looked at.
PassWithoutText(i) ==
    /\ At(i, "idle") /\ Req[i].envelope /\ Req[i].parses /\ ~Req[i].text
    /\ Answer(i, "passed")
    /\ UNCHANGED <<registry, runtime, intake, degraded, alert>>

RefuseUnscopable(i) ==
    /\ At(i, "idle") /\ Req[i].envelope /\ Req[i].parses /\ Req[i].text
    /\ Req[i].truncated \/ ~Req[i].sourced
    /\ Answer(i, "refused")
    /\ UNCHANGED <<registry, runtime, intake, degraded, alert>>
-----------------------------------------------------------------------------
(* Detection: read, upsert, judge, record. *)

ReadSession(i) ==
    LET row == registry[Session(i)] IN
    /\ At(i, "idle") /\ Inspectable(i)
    /\ Serialized => \A j \in Requests : Session(j) = Session(i) => ~InFlight(j)
    /\ \/ /\ row.status = "terminated"
          /\ Answer(i, "refused")
          /\ UNCHANGED degraded
       \/ /\ row.status # "terminated"
          /\ inv' = [inv EXCEPT ![i].pc = "ensure",
                                ![i].risk = row.risk, ![i].seen = row.seen]
          /\ UNCHANGED degraded
       \/ DetectionFailed(i)
    /\ UNCHANGED <<registry, runtime, intake, alert>>

Ensure(i) ==
    /\ At(i, "ensure")
    /\ \/ EnsureSession(Session(i)) /\ Goto(i, "evaluate") /\ UNCHANGED degraded
       \/ DetectionFailed(i) /\ UNCHANGED registry
    /\ UNCHANGED <<runtime, intake, alert>>

\* _session_decay never takes risk below a quarter (_DECAY_FLOOR), and what is
\* kept of the sum is rounded to a whole number.
Decayed(risk) == {r \in 0..risk : 4 * r + 2 >= risk}

\* Neither bonus applies to the first prompt of a session.
Bonuses(i) == IF inv[i].seen = 0 THEN {0} ELSE 0..BonusCap

\* Mutant: long sessions drift upward for ever.
Uncapped(risk) == risk

Capped(risk) == IF risk > SessionCap THEN SessionCap ELSE risk

SessionRisks(i) == {Capped(kept + Req[i].score + bonus) :
                      kept \in Decayed(inv[i].risk), bonus \in Bonuses(i)}

\* The threshold is compared before rounding: a decayed sum just below it is
\* allowed and stored as the threshold itself.
BelowThreshold(i, risk) ==
    \/ risk < SESSION_BLOCK_THRESHOLD
    \/ risk = SESSION_BLOCK_THRESHOLD /\ inv[i].risk > 0

Verdicts(i, risk) ==
    {v \in {"allow", "block"} :
        IF v = "block" THEN Req[i].flagged \/ risk >= SESSION_BLOCK_THRESHOLD
                       ELSE ~Req[i].flagged /\ BelowThreshold(i, risk)}

\* engine.evaluate, from the risk the invocation read.
Evaluate(i) ==
    /\ At(i, "evaluate")
    /\ \/ /\ \E risk \in SessionRisks(i) : \E verdict \in Verdicts(i, risk) :
                inv' = [inv EXCEPT ![i].pc = "record", ![i].risk = risk,
                                   ![i].verdict = verdict]
          /\ UNCHANGED degraded
       \/ DetectionFailed(i)
    /\ UNCHANGED <<registry, runtime, intake, alert>>

(***************************************************************************)
(* How an unguarded write to the registry ends.  It may land although the  *)
(* call times out.                                                         *)
(***************************************************************************)
\* Mutant: the write is best effort, its failure goes unnoticed.
BestEffortWrites == {{"landed", "acked"}, {"acked"}}

RegistryWrites == {{"landed", "acked"}, {"landed"}, {}}

\* `recorded` says whether the verdict is in the registry.
Acknowledged(i, landed) ==
    inv' = [inv EXCEPT ![i].pc = "report", ![i].recorded = landed]

\* The write raised: the prompt is answered like any detection failure.
Unacknowledged(i, landed) ==
    /\ inv' = [inv EXCEPT ![i].pc = "done", ![i].recorded = landed,
                          ![i].response = FailureAnswer]
    /\ Degrade(i, "inline_detection")

Record(i) ==
    /\ At(i, "record")
    /\ \E write \in RegistryWrites :
          /\ IF "landed" \in write
             THEN RecordSessionEvaluation(Session(i), inv[i].risk, inv[i].seen + 1,
                                          inv[i].verdict)
             ELSE UNCHANGED registry
          /\ IF "acked" \in write
             THEN Acknowledged(i, "landed" \in write) /\ UNCHANGED degraded
             ELSE Unacknowledged(i, "landed" \in write)
    /\ UNCHANGED <<runtime, intake, alert>>
-----------------------------------------------------------------------------
(* Telemetry, then the kill. *)

\* _copy_prompt_telemetry: the outcomes of the copy.
TransportOutcomes ==
    IF ~TelemetryWired THEN {"none"}
    ELSE {"sent", IF TRANSPORT_FAILURE_POLICY = "fail_closed" THEN "fail_closed"
                                                              ELSE "degraded"}

\* A block in sidecar mode carries "deferred" on; gate mode kills first.
\* An allowed prompt is answered here.
AfterTelemetry(i, outcome) ==
    inv' = [inv EXCEPT ![i] =
        IF @.verdict = "allow"
        THEN [@ EXCEPT !.transport = outcome, !.pc = "done",
                       !.response = IF outcome = "fail_closed" THEN "refused" ELSE "passed"]
        ELSE IF TIER1_MODE = "gate"
        THEN [@ EXCEPT !.transport = outcome, !.pc = "kill"]
        ELSE [@ EXCEPT !.transport = outcome, !.pc = "note", !.kill = "deferred"]]

(***************************************************************************)
(* The prompt message is built and copied to the intake queue.  Building   *)
(* it asks the mcp body for its "id", which raises on a body that is not   *)
(* an object, with the verdict already recorded.                           *)
(***************************************************************************)
Report(i) ==
    /\ At(i, "report")
    /\ \/ /\ Req[i].object
          /\ \E outcome \in TransportOutcomes :
                /\ AfterTelemetry(i, outcome)
                /\ \/ outcome # "none" /\ intake' = intake \cup {i}
                   \/ outcome # "sent" /\ UNCHANGED intake
                /\ IF outcome \in {"degraded", "fail_closed"}
                   THEN Degrade(i, "prompt_telemetry") ELSE UNCHANGED degraded
       \/ /\ ~Req[i].object
          /\ DetectionFailed(i)
          /\ UNCHANGED intake
    /\ UNCHANGED <<registry, runtime, alert>>

\* Gate mode: terminate before answering; a raising call counts as "failed".
InlineKill(i) ==
    /\ At(i, "kill")
    /\ \E r \in StopResults(Session(i)) :
          /\ StopRuntimeSession(Session(i), r)
          /\ inv' = [inv EXCEPT ![i].pc = "note", ![i].kill = r[1]]
          /\ StopReported(i, r[1])
    /\ UNCHANGED <<registry, intake, alert>>

\* record_kill_outcome, best effort.
NoteKill(i) ==
    /\ At(i, "note")
    /\ Goto(i, "publish")
    /\ \/ RecordKillOutcome(Session(i), inv[i].kill) /\ UNCHANGED degraded
       \/ /\ RecordKillOutcome(Session(i), inv[i].kill) \/ UNCHANGED registry
          /\ Degrade(i, "enforcement")
    /\ UNCHANGED <<runtime, intake, alert>>

BlockAnswer == IF TIER1_MODE = "gate" THEN "refused" ELSE "passed"

(***************************************************************************)
(* The alert message: in sidecar mode it IS the kill order, so a failed    *)
(* publish there falls back to an inline kill.  A publish may time out     *)
(* with the message on the queue all the same.                             *)
(***************************************************************************)
EnqueueAlert(i) == alert' = [alert EXCEPT ![i].stage = "queued"]

\* Mutant: the publish is best effort in sidecar mode too.
PublishAndForget(i) ==
    /\ At(i, "publish")
    /\ EnqueueAlert(i) \/ UNCHANGED alert
    /\ Answer(i, BlockAnswer)
    /\ UNCHANGED <<registry, runtime, intake, degraded>>

PublishAlert(i) ==
    /\ At(i, "publish")
    /\ \/ /\ EnqueueAlert(i)
          /\ Answer(i, BlockAnswer)
          /\ UNCHANGED degraded
       \/ /\ EnqueueAlert(i) \/ UNCHANGED alert
          /\ IF TIER1_MODE = "gate"
             THEN Answer(i, BlockAnswer) /\ UNCHANGED degraded
             ELSE Goto(i, "fallback") /\ Degrade(i, "enforcement")
    /\ UNCHANGED <<registry, runtime, intake>>

\* The fallback's outcome goes into the message, not into the registry.
AnswerKilled(i, outcome) ==
    inv' = [inv EXCEPT ![i].pc = "done", ![i].kill = outcome, ![i].response = BlockAnswer]

FallbackKill(i) ==
    /\ At(i, "fallback")
    /\ \E r \in StopResults(Session(i)) :
          /\ StopRuntimeSession(Session(i), r)
          /\ AnswerKilled(i, r[1])
          /\ StopReported(i, r[1])
    /\ UNCHANGED <<registry, intake, alert>>

\* The Lambda times out or dies: the gateway gets an error, not an answer.
Crash(i) ==
    /\ InFlight(i)
    /\ Answer(i, "error")
    /\ UNCHANGED <<registry, runtime, intake, degraded, alert>>
-----------------------------------------------------------------------------
Screen(i) == \/ RejectStray(i) \/ FailToParse(i)
             \/ PassWithoutText(i) \/ RefuseUnscopable(i)

Judge(i) == ReadSession(i) \/ Ensure(i) \/ Evaluate(i) \/ Record(i)

Contain(i) == \/ Report(i) \/ InlineKill(i) \/ NoteKill(i)
              \/ PublishAlert(i) \/ FallbackKill(i)

Dispatch(i) == Screen(i) \/ Judge(i) \/ Contain(i)

\* The invocation has called StopRuntimeSession itself.
KilledInline(i) == inv[i].kill \notin {"none", "deferred"}
=============================================================================
