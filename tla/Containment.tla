------------------------------ MODULE Containment ------------------------------
(***************************************************************************)
(* Tier 1 containment: dispatcher invocations, the alert Lambda and the    *)
(* enforcement Lambda, all writing the one session registry and stopping   *)
(* the one set of runtime sessions, in any interleaving.                   *)
(***************************************************************************)
EXTENDS EnforcementHandler, FiniteSets

CONSTANT RowsExpire      \* TRUE: DynamoDB TTL removes registry items

vars == <<registry, runtime, inv, intake, degraded, alert, notices, orders>>

Init == /\ RegistryInit /\ RuntimeInit /\ DispatcherInit
        /\ AlertingInit /\ OrdersInit

DispatchStep(i) == (Dispatch(i) \/ Crash(i)) /\ UNCHANGED <<notices, orders>>

AlertStep(m) == (Deliver(m) \/ AlertFault(m)) /\ UNCHANGED orders

EnforceStep(o) == SendOrder(o) \/ Enforce(o) \/ EnforceFault(o)

\* The TTL is 30 minutes from the last judged prompt, an invocation lives
\* 30 seconds: an item never expires under one.
Expire(s) == /\ RowsExpire
             /\ \A i \in Requests : Session(i) = s => ~InFlight(i)
             /\ ExpireSession(s)
             /\ UNCHANGED <<runtime, inv, intake, degraded, alert, notices, orders>>

Next == \/ \E i \in Requests : DispatchStep(i)
        \/ \E m \in Requests : AlertStep(m)
        \/ \E o \in Orders : EnforceStep(o)
        \/ \E s \in Sessions : Expire(s)

Spec == Init /\ [][Next]_vars

(***************************************************************************)
(* Fairness: a Lambda that is running goes on to its next call (or dies),  *)
(* and the event source mapping keeps polling the alert queue.  Nothing    *)
(* promises that a client sends a prompt, or that a tier orders a kill.    *)
(***************************************************************************)
Fairness ==
    /\ \A i \in Requests : WF_vars(InFlight(i) /\ DispatchStep(i))
    /\ \A m \in Requests : WF_vars(AlertStep(m))

FairSpec == Spec /\ Fairness
-----------------------------------------------------------------------------
TypeOK ==
    /\ registry \in [Sessions -> Row]
    /\ runtime \in [Sessions -> {"live", "stopped"}]
    /\ inv \in [Requests -> Invocation]
    /\ intake \in SUBSET Requests
    /\ degraded \in [Requests -> SUBSET Components]
    /\ alert \in [Requests -> AlertMessage]
    /\ notices \in [Requests -> SUBSET Subjects]
    /\ orders \in [Orders -> Order]

Reported(i, component) == component \in degraded[i]

Blocked(i) == inv[i].recorded /\ inv[i].verdict = "block"

(***************************************************************************)
(* What reaches the agent is accounted for: an event without text; a       *)
(* prompt judged, allowed and not held back by the transport policy; a     *)
(* blocked one in sidecar mode; or an event detection failed on, when the  *)
(* operator chose fail_open and the failure was reported (config.py:104,   *)
(* dispatcher.py:520).                                                     *)
(***************************************************************************)
AccountedFor(i) ==
    \/ Req[i].parses /\ ~Req[i].text
    \/ inv[i].verdict = "allow" /\ inv[i].recorded /\ inv[i].transport # "fail_closed"
    \/ Blocked(i) /\ TIER1_MODE = "sidecar"
    \/ DETECTION_FAILURE_POLICY = "fail_open" /\ Reported(i, "inline_detection")

DeliveryIsAccountedFor ==
    \A i \in Requests : inv[i].response = "passed" => AccountedFor(i)

(***************************************************************************)
(* "A session that was supposed to be terminated and silently never was"   *)
(* (docs/capabilities.md:152) does not exist: a block that was answered    *)
(* without a detection failure has killed inline or handed over an order.  *)
(***************************************************************************)
EveryBlockCarriesAKill ==
    \A i \in Requests :
        /\ Blocked(i)
        /\ inv[i].response \in {"passed", "refused"}
        /\ ~Reported(i, "inline_detection")
        => KilledInline(i) \/ alert[i].stage # "none"

(***************************************************************************)
(* The door closes before the kill: no invocation kills, orders a kill or  *)
(* notes one unless it has recorded its block (dispatcher.py:435).         *)
(***************************************************************************)
KillOnlyAfterMark ==
    \A i \in Requests :
        inv[i].kill # "none" \/ alert[i].stage # "none" => Blocked(i)

(***************************************************************************)
(* A mail that says "terminated" and a registry row that says "confirmed"  *)
(* are about a session that has stopped, whatever was retried, delivered   *)
(* twice or overwritten in between (alerting.py:56, enforcement.py:17).    *)
(***************************************************************************)
KillReportsAreTrue ==
    /\ \A m \in Requests : "terminated" \in notices[m] => runtime[Session(m)] = "stopped"
    /\ \A s \in Sessions : registry[s].kill = "confirmed" => runtime[s] = "stopped"

(***************************************************************************)
(* Nobody is told nothing: when the alert Lambda is done with a block and  *)
(* the agent still runs, a mail says so or the loss of the mail was        *)
(* reported (alerting.py:50), and a stop that could not work was reported  *)
(* on its own as well (enforcement.py:96-128).                             *)
(***************************************************************************)
Impossible(outcome) == outcome \in {"failed", "unsupported", "not_configured"}

SurvivorsAreHeard ==
    \A m \in Requests :
        alert[m].stage = "done" /\ runtime[Session(m)] = "live" =>
            /\ notices[m] \ {"terminated"} # {} \/ Reported(m, "alerting")
            /\ Impossible(alert[m].outcome) => Reported(m, "enforcement")

(***************************************************************************)
(* Overlapping prompts may lose a turn of a session but never invent one:  *)
(* prompts_seen is at most the number of recorded evaluations.             *)
(***************************************************************************)
SeenIsNotOvercounted ==
    \A s \in Sessions : registry[s].seen <=
        Cardinality({i \in Requests : Session(i) = s /\ inv[i].recorded})

\* With one prompt of a session at a time, no turn is lost either.
EveryTurnIsCounted ==
    Serialized => \A s \in Sessions : registry[s].seen =
        Cardinality({i \in Requests : Session(i) = s /\ inv[i].recorded})

(***************************************************************************)
(* The refinement: the calls for a stop are the recorded blocks and the    *)
(* orders of the other tiers.  A block is tried inline at most once and    *)
(* once in each receive of its alert; an order once in each attempt.       *)
(***************************************************************************)
Blocks == {"block"} \X Requests

Calls == Blocks \cup ({"order"} \X Orders)

Target(c) == IF c[1] = "block" THEN Session(c[2]) ELSE OrderSession[c[2]]

Made(c) == IF c[1] = "block" THEN Blocked(c[2]) ELSE orders[c[2]].stage # "none"

BlockTries(i) == alert[i].receives + (IF KilledInline(i) THEN 1 ELSE 0)

Tries(c) == IF c[1] = "block" THEN BlockTries(c[2]) ELSE orders[c[2]].attempts

Bound(c) == IF c[1] = "block" THEN MaxReceive + 1 ELSE MaxAttempts

Told(c) == IF c[1] = "block" THEN notices[c[2]] ELSE {}

StoppedSessions == {s \in Sessions : runtime[s] = "stopped"}

Stop == INSTANCE StopPromise WITH
            Words <- Subjects,
            About <- [c \in Calls |-> Target(c)],
            Most <- [c \in Calls |-> Bound(c)],
            made <- {c \in Calls : Made(c)},
            tries <- [c \in Calls |-> Tries(c)],
            stopped <- StoppedSessions,
            told <- [c \in Calls |-> Told(c)]

(***************************************************************************)
(* The dispatcher, the alert Lambda and the enforcement Lambda together    *)
(* keep the promise of StopPromise: no session is stopped that no recorded *)
(* block and no order is about, no retry, redelivery or fallback tries a   *)
(* call more often than its queue and its mode allow, and no mail is ahead *)
(* of the kill it reports (dispatcher.py:435, alerting.py:143-170,         *)
(* enforcement_handler.py:72).                                             *)
(***************************************************************************)
StopsKeepThePromise == Stop!Spec

(***************************************************************************)
(* "The very next prompt on that session is refused by the dispatcher"     *)
(* (docs/capabilities.md:73): once a block is recorded on a session, an    *)
(* invocation that begins is not let past the read.                        *)
(***************************************************************************)
Begins(i) == At(i, "idle") /\ inv'[i].pc = "ensure"

RefusedOnceTerminated ==
    [][\A i, j \in Requests :
          Begins(i) /\ Session(i) = Session(j) => ~Blocked(j)]_vars

(***************************************************************************)
(* Time to kill: a recorded block leads to a finished kill attempt of its  *)
(* own, or to one of the ends an operator can see: a dead-lettered order,  *)
(* a gateway error, a detection failure.                                   *)
(***************************************************************************)
BlockLeadsToKill ==
    \A i \in Requests : Blocked(i) ~>
        \/ At(i, "done") /\ KilledInline(i)
        \/ alert[i].stage \in {"done", "dead"}
        \/ inv[i].response = "error"
        \/ Reported(i, "inline_detection")
=============================================================================
