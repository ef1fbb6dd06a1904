-------------------------------- MODULE MCTier3 --------------------------------
(* Traffic, policies and a schedule for the instance of Tier3Correlation.       *)
EXTENDS Tier3Correlation, TLC

CONSTANTS n1, n2

Row(text, shape) ==
    [text |-> text, shape |-> shape, category |-> "", signatures |-> {}, risk |-> 0,
     repeated |-> 0]

Judged(row, category, risk) ==
    [row EXCEPT !.category = category, !.risk = risk, !.repeated = IF risk > 0 THEN 1 ELSE 0]

Signed(row, hint) == [row EXCEPT !.signatures = {hint}]

Calm == [s \in Sessions |-> [score |-> 0, status |-> "absent", repeated |-> 0]]
Tense == [s \in Sessions |-> [score |-> 95, status |-> "watch", repeated |-> 2]]

Everywhere(row) == [p \in Prompts |-> row]

\* One prompt in three sessions, of which a signature says that it asks for secrets.
Replay == Everywhere(Signed(Row("t", "f"), "credential"))
\* The same, of which Tier 2 may say so before or after it is looked at.
Disputed == << Row("t", ""), Row("t", ""), Judged(Row("t", ""), "data_exfiltration", 0) >>
\* Variants of one attack: near-duplicates, and of one shape.
Variants == << Judged(Row("t", "f"), "data_exfiltration", 90), Row("u", "f"),
               Row("v", "f") >>
\* What many users ask on the day of an outage: one question, one shape.
Ordinary == Everywhere(Row("t", "f"))
Shaped == << Row("t", "f"), Judged(Row("u", "f"), "tier2_no_endpoint", 0), Row("x", "f") >>

Traffic == {[said |-> Replay, risks |-> Calm], [said |-> Disputed, risks |-> Calm],
            [said |-> Variants, risks |-> Tense], [said |-> Ordinary, risks |-> Tense],
            [said |-> Shaped, risks |-> Tense]}

Near == {{"t", "u"}, {"u", "v"}, {"t", "v"}}
Alike == {{"t", "u"}, {"t", "v"}, {"u", "v"}, {"v", "w"}}

Own == [p \in Prompts |-> p]
EveryWindow == n1 :> 2 @@ n2 :> 4

Default == [mode |-> "enforce", minSessions |-> 2, killThreshold |-> 95, similarity |-> 90]
Lowered == [Default EXCEPT !.killThreshold = 90]
Shadow == [Default EXCEPT !.mode = "shadow"]

MCPolicies == {Default, Lowered, Shadow}
=============================================================================
