------------------------------ MODULE Enforcement ------------------------------
(***************************************************************************)
(* StopRuntimeSession as adapters/agentcore/enforcement.py reports it.     *)
(* The AgentCore runtime itself is external: of a runtime session only     *)
(* whether it still runs is kept.                                          *)
(***************************************************************************)
EXTENDS SessionRegistry

CONSTANT RuntimeKind     \* [Sessions -> RuntimeKinds]

VARIABLE runtime         \* [Sessions -> {"live", "stopped"}]

(***************************************************************************)
(* self_managed: the call can stop it.  harness: AgentCore refuses the     *)
(* call.  unmapped: our session id is not the runtime's, the call finds    *)
(* nothing.  absent: no agent runtime ARN is configured.                   *)
(***************************************************************************)
RuntimeKinds == {"self_managed", "harness", "unmapped", "absent"}

ASSUME RuntimeKindAssumption == RuntimeKind \in [Sessions -> RuntimeKinds]

RuntimeInit == runtime = [s \in Sessions |-> "live"]

(***************************************************************************)
(* terminate_session_detailed: the pairs <<outcome, runtime afterwards>>   *)
(* one attempt may end in.  A call whose answer is lost is reported        *)
(* "failed" although the runtime may have stopped; a second call on a      *)
(* stopped session finds nothing, which is "unverified".                   *)
(***************************************************************************)
StopResults(s) ==
    {r \in KillOutcomes \X {"live", "stopped"} :
        \/ r = <<"failed", runtime[s]>>
        \/ /\ RuntimeKind[s] = "self_managed" /\ r[2] = "stopped"
           /\ r[1] \in {"failed", IF runtime[s] = "live" THEN "confirmed" ELSE "unverified"}
        \/ RuntimeKind[s] = "harness" /\ r = <<"unsupported", runtime[s]>>
        \/ RuntimeKind[s] = "unmapped" /\ r = <<"unverified", runtime[s]>>}

\* One attempt that ends in r, an element of StopResults(s).
StopRuntimeSession(s, r) == /\ r \in StopResults(s)
                            /\ runtime' = [runtime EXCEPT ![s] = r[2]]
=============================================================================
