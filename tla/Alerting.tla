------------------------------- MODULE Alerting -------------------------------
(***************************************************************************)
(* The alert queue and its Lambda (adapters/agentcore/alerting.py).  The   *)
(* queue is SQS: a message is received again until a receive ends with its *)
(* deletion, and moves to the dead-letter queue after MaxReceive receives  *)
(* (infra/self-hosted.yaml:417).  A message is named by the request whose  *)
(* block it reports.                                                       *)
(***************************************************************************)
EXTENDS Dispatcher

CONSTANT MaxReceive      \* maxReceiveCount of the redrive policy

VARIABLE notices         \* [Requests -> SUBSET Subjects]: SNS mails sent

ASSUME MaxReceiveAssumption == MaxReceive \in Nat \ {0}

Subjects == {"terminated", "unverified", "failed", "unsupported", "not_terminated"}

AlertingInit == notices = [m \in Requests |-> {}]

\* Mutant: the subject asserts the kill whatever happened.
AssertsTermination(outcome) == "terminated"

\* _alert_subject: anything that is not a known failure reads "terminated".
Subject(outcome) ==
    IF outcome = "not_configured" THEN "not_terminated"
    ELSE IF outcome \in {"failed", "unsupported", "unverified"} THEN outcome
    ELSE "terminated"

\* Mutant: the template lost its redrive policy.
NeverDead(message) == [message EXCEPT !.stage = "queued"]

\* What the queue does with a message a receive did not delete.
Returned(message) ==
    [message EXCEPT !.stage = IF message.receives >= MaxReceive THEN "dead" ELSE "queued"]

Received(m) == [alert[m] EXCEPT !.receives = @ + 1]

AttemptedKill(m, outcome) ==
    alert' = [alert EXCEPT ![m] = [Received(m) EXCEPT !.stage = "killed", !.outcome = outcome]]

(***************************************************************************)
(* Receive the message and terminate the session.  Without a runtime ARN   *)
(* there is nothing to call, and that is reported.                         *)
(***************************************************************************)
AlertKill(m) ==
    /\ alert[m].stage = "queued"
    /\ \/ /\ RuntimeKind[Session(m)] # "absent"
          /\ \E r \in StopResults(Session(m)) :
                /\ StopRuntimeSession(Session(m), r)
                /\ AttemptedKill(m, r[1])
                /\ StopReported(m, r[1])
       \/ /\ RuntimeKind[Session(m)] = "absent"
          /\ AttemptedKill(m, "not_configured")
          /\ Degrade(m, "enforcement")
          /\ UNCHANGED runtime
    /\ UNCHANGED <<registry, inv, intake, notices>>

Mail(m) == notices' = [notices EXCEPT ![m] = @ \cup {Subject(alert[m].outcome)}]

\* Mutant: a mail that cannot be sent is only logged.
MailsQuietly(m, failures) == Mail(m) \/ UNCHANGED notices

\* _publish_sns_alert; the templates always wire the topic.  A call that
\* failed may have sent its mail.
PublishSnsAlert(m, failures) == Mail(m) \/ ("alerting" \in failures /\ UNCHANGED notices)

\* record_kill_outcome and the mail, each best effort and reported when it
\* fails; then the message is deleted, unless the deletion itself is lost and
\* it comes back.
AlertReport(m) ==
    /\ alert[m].stage = "killed"
    /\ \E failures \in SUBSET {"enforcement", "alerting"} :
          /\ \/ RecordKillOutcome(Session(m), alert[m].outcome)
             \/ "enforcement" \in failures /\ UNCHANGED registry
          /\ PublishSnsAlert(m, failures)
          /\ degraded' = [degraded EXCEPT ![m] = @ \cup failures]
    /\ \/ alert' = [alert EXCEPT ![m].stage = "done"]
       \/ alert' = [alert EXCEPT ![m] = Returned(@)]
    /\ UNCHANGED <<runtime, inv, intake>>

\* The record raises or the Lambda dies: before the kill, after it, or once
\* the outcome is noted and no mail is sent.
AlertFault(m) ==
    /\ \/ /\ alert[m].stage = "queued"
          /\ alert' = [alert EXCEPT ![m] = Returned(Received(m))]
          /\ UNCHANGED registry
       \/ /\ alert[m].stage = "killed"
          /\ alert' = [alert EXCEPT ![m] = Returned(@)]
          /\ RecordKillOutcome(Session(m), alert[m].outcome) \/ UNCHANGED registry
    /\ UNCHANGED <<runtime, inv, intake, degraded, notices>>

Deliver(m) == AlertKill(m) \/ AlertReport(m)
=============================================================================
