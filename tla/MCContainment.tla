----------------------------- MODULE MCContainment -----------------------------
(* Small instances of Containment for TLC. *)
EXTENDS Containment, TLC

CONSTANTS s1, s2, r1, r2, r3, r4, r5, r6, r7, o1

\* An event that reaches the engine; the variations below override a field.
Prompt(session, flagged, score) ==
    [session |-> session, envelope |-> TRUE, parses |-> TRUE, text |-> TRUE,
     truncated |-> FALSE, sourced |-> TRUE, object |-> TRUE,
     flagged |-> flagged, score |-> score]

Suspicious(s) == Prompt(s, FALSE, 1)
Attack(s) == Prompt(s, TRUE, 2)

Unparseable == [Attack(s1) EXCEPT !.parses = FALSE]

\* Two prompts of one session: one blocks alone, one only with the other's risk.
RaceRequests == r1 :> Attack(s1) @@ r2 :> Suspicious(s1)

\* One attack on each of two sessions, the first in an mcp body that is not a
\* JSON object, the second in a conversation with another prompt, beside events
\* that stop at the screening.
ScreenedRequests ==
    r1 :> [Attack(s1) EXCEPT !.object = FALSE] @@ r2 :> Attack(s2)
    @@ r3 :> Unparseable
    @@ r4 :> [Attack(s1) EXCEPT !.text = FALSE]
    @@ r5 :> [Attack(s1) EXCEPT !.sourced = FALSE]
    @@ r6 :> [Attack(s1) EXCEPT !.envelope = FALSE]
    @@ r7 :> Suspicious(s2)

\* An attack and what follows it in its session.
Pursuit == r1 :> Attack(s1) @@ r2 :> Suspicious(s1) @@ r3 :> Suspicious(s1)

SelfManaged == [s \in Sessions |-> "self_managed"]
Unstoppable == s1 :> "unmapped" @@ s2 :> "absent"
Harness == [s \in Sessions |-> "harness"]

OrderS1 == [o \in Orders |-> s1]
=============================================================================
