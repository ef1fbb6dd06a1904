-------------------------- MODULE EnforcementHandler --------------------------
(***************************************************************************)
(* The enforcement Lambda (adapters/agentcore/enforcement_handler.py),     *)
(* which Tier 2 and Tier 3 invoke asynchronously (InvocationType "Event")  *)
(* to kill a session.  Lambda runs an asynchronous invocation up to        *)
(* MaxAttempts times and then drops it: no failure destination is wired.   *)
(***************************************************************************)
EXTENDS Alerting

CONSTANTS Orders,          \* kill orders of Tier 2 and Tier 3
          OrderSession,    \* [Orders -> Sessions]
          MaxAttempts      \* 1 + the retries of an asynchronous invocation

VARIABLE orders            \* [Orders -> Order]

ASSUME OrderAssumption == /\ OrderSession \in [Orders -> Sessions]
                          /\ MaxAttempts \in Nat \ {0}

Order == [stage : {"none", "sent", "killed", "done", "dropped"}, attempts : Nat]

OrdersInit == orders = [o \in Orders |-> [stage |-> "none", attempts |-> 0]]

\* The invoke call of a tier: here any session may be ordered killed.
SendOrder(o) ==
    /\ orders[o].stage = "none"
    /\ orders' = [orders EXCEPT ![o].stage = "sent"]
    /\ UNCHANGED <<registry, runtime, inv, intake, degraded, alert, notices>>

\* An attempt that did not finish is run again until the attempts are used.
Retried(order) ==
    [order EXCEPT !.stage = IF order.attempts >= MaxAttempts THEN "dropped" ELSE "sent"]

Attempted(o) == [orders[o] EXCEPT !.attempts = @ + 1]

\* _process_one: validation, then the stop.  A request without a runtime ARN
\* raises, on every attempt alike.
EnforceKill(o) ==
    /\ orders[o].stage = "sent"
    /\ \/ /\ RuntimeKind[OrderSession[o]] # "absent"
          /\ \E r \in StopResults(OrderSession[o]) : StopRuntimeSession(OrderSession[o], r)
          /\ orders' = [orders EXCEPT ![o] = [Attempted(o) EXCEPT !.stage = "killed"]]
       \/ /\ RuntimeKind[OrderSession[o]] = "absent"
          /\ orders' = [orders EXCEPT ![o] = Retried(Attempted(o))]
          /\ UNCHANGED runtime
    /\ UNCHANGED <<registry, inv, intake, degraded, alert, notices>>

\* mark_session_decision("block"); its failure is logged and swallowed.
EnforceMark(o) ==
    /\ orders[o].stage = "killed"
    /\ orders' = [orders EXCEPT ![o].stage = "done"]
    /\ MarkSessionDecision(OrderSession[o], "block") \/ UNCHANGED registry
    /\ UNCHANGED <<runtime, inv, intake, degraded, alert, notices>>

\* The attempt ends early: before the stop, after it, or after the mark.
EnforceFault(o) ==
    /\ \/ /\ orders[o].stage = "sent"
          /\ orders' = [orders EXCEPT ![o] = Retried(Attempted(o))]
          /\ UNCHANGED registry
       \/ /\ orders[o].stage = "killed"
          /\ orders' = [orders EXCEPT ![o] = Retried(@)]
          /\ MarkSessionDecision(OrderSession[o], "block") \/ UNCHANGED registry
    /\ UNCHANGED <<runtime, inv, intake, degraded, alert, notices>>

Enforce(o) == EnforceKill(o) \/ EnforceMark(o)
=============================================================================
