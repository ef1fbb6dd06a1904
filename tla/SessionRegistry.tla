---------------------------- MODULE SessionRegistry ----------------------------
(***************************************************************************)
(* The session registry table (adapters/agentcore/session_registry.py):    *)
(* one DynamoDB item per session, read whole and written by unconditional  *)
(* update_item calls.  Every operator below is one such call, so it is     *)
(* atomic; nothing ties a write to the read its values came from.          *)
(*                                                                         *)
(* Clock readings, ARNs, scope and source never decide anything the        *)
(* properties look at and are left out.                                    *)
(***************************************************************************)
EXTENDS Naturals

CONSTANTS Sessions,      \* session ids
          SessionCap     \* _SESSION_SCORE_CAP: ceiling of the accumulated risk

VARIABLE registry        \* [Sessions -> Row]

Statuses == {"none", "active", "terminated"}

KillOutcomes == {"confirmed", "unverified", "failed", "deferred",
                 "unsupported", "not_configured"}

\* `ttl` is TRUE once the item carries the attribute DynamoDB expires it by.
Row == [status : Statuses, risk : 0..SessionCap, seen : Nat,
        kill : KillOutcomes \cup {"none"}, ttl : BOOLEAN]

\* What get_session returns for an absent item, and how an item starts.
NoRow == [status |-> "none", risk |-> 0, seen |-> 0, kill |-> "none", ttl |-> FALSE]

RegistryInit == registry = [s \in Sessions |-> NoRow]

\* Mutant: the decision is recorded, the session stays open.
StaysActive(decision) == "active"

StatusAfter(decision) == IF decision = "block" THEN "terminated" ELSE "active"

\* ensure_session: the upsert sets no status; it only (re)starts the TTL.
EnsureSession(s) == registry' = [registry EXCEPT ![s].ttl = TRUE]

\* Mutant: the callee counts the prompt its caller has counted already.
CountsTwice(s, risk, seen, decision) ==
    registry' = [registry EXCEPT ![s].risk = risk,
                                 ![s].seen = seen + 1,
                                 ![s].status = StatusAfter(decision)]

\* record_session_evaluation: risk, prompts_seen and status in one blind SET.
RecordSessionEvaluation(s, risk, seen, decision) ==
    registry' = [registry EXCEPT ![s].risk = risk,
                                 ![s].seen = seen,
                                 ![s].status = StatusAfter(decision)]

\* mark_session_decision: the same SET without the risk fields.
MarkSessionDecision(s, decision) ==
    registry' = [registry EXCEPT ![s].status = StatusAfter(decision)]

\* record_kill_outcome: the last writer wins.
RecordKillOutcome(s, outcome) == registry' = [registry EXCEPT ![s].kill = outcome]

\* DynamoDB deletes an item some time after its ttl has passed.
ExpireSession(s) == /\ registry[s].ttl
                    /\ registry' = [registry EXCEPT ![s] = NoRow]
=============================================================================
