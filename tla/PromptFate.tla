------------------------------- MODULE PromptFate -------------------------------
(* What Tier 2 promises of every prompt, whatever its invocations go through:   *)
(* it is taken up once; while it is open, and at no other time, one kill may be *)
(* ordered on its account; then one verdict is recorded, and that of a prompt   *)
(* that killed is "malicious".  An error may be recorded in its place or over   *)
(* it; nothing else replaces a verdict, and nothing reopens a prompt.           *)
EXTENDS Integers

CONSTANTS Prompts, Verdicts

VARIABLES
    fate,       \* [Prompts -> "waiting", "open", a verdict or "error"]
    kills       \* [Prompts -> number of kill orders]

vars == <<fate, kills>>

Init ==
    /\ fate = [p \in Prompts |-> "waiting"]
    /\ kills = [p \in Prompts |-> 0]

Take(p) ==
    /\ fate[p] = "waiting"
    /\ fate' = [fate EXCEPT ![p] = "open"]
    /\ UNCHANGED kills

\* An order that nobody heard the answer to may be an error at once.
Kill(p) ==
    /\ fate[p] = "open" /\ kills[p] = 0
    /\ kills' = [kills EXCEPT ![p] = 1]
    /\ \E after \in {"open", "error"} : fate' = [fate EXCEPT ![p] = after]

Settle(p, verdict) ==
    /\ fate[p] = "open"
    /\ kills[p] = 1 => verdict = "malicious"
    /\ fate' = [fate EXCEPT ![p] = verdict]
    /\ UNCHANGED kills

Err(p) ==
    /\ fate' = [fate EXCEPT ![p] = "error"]
    /\ UNCHANGED kills

Next ==
    \E p \in Prompts :
        \/ Take(p) \/ Kill(p) \/ Err(p)
        \/ \E verdict \in Verdicts : Settle(p, verdict)

Spec == Init /\ [][Next]_vars
=============================================================================
