-------------------------------- MODULE MCTier2 --------------------------------
(* Turns, deliveries and policies for the instances of Tier2Pipeline.          *)
EXTENDS Tier2Pipeline, TLC

CONSTANTS s1, c1, c2, c3, c4, c5

Benign == [Silence EXCEPT !.decision = "allow"]

Said(label, confidence) == [Benign EXCEPT !.label = label, !.confidence = confidence]

Shows(t, behaviour) == [t EXCEPT !.opens = {behaviour}, !.closes = {behaviour}]

\* The surest answer of the model, on a text that shows nothing, and on one that
\* asks for a secret.
Sure == Said("PROMPT_INJECTION", 99)
Blatant == Shows(Sure, "credential_or_secret_request")
\* Answers that need corroboration, of a subtle and of an obvious category.
Subtle == Shows(Said("DATA_EXFILTRATION", 97), "bulk_export")
Obvious == Shows(Said("JAILBREAK", 97), "security_bypass")
Mild == Said("SOCIAL_ENGINEERING", 80)
Refused == [Benign EXCEPT !.decision = "block", !.risk = 12]
Rated == [Sure EXCEPT !.risk = 7]
\* A pattern that only the session shows: opened in one turn, closed in the next.
Opener == [Said("DATA_EXFILTRATION", 97) EXCEPT !.opens = {"bulk_export"}]
Closer == [Said("DATA_EXFILTRATION", 97) EXCEPT !.closes = {"bulk_export"}]
Helped == [Sure EXCEPT !.intent = "password_reset_help"]

\* A refusal and the same asked again; a question about what the agent can do, and
\* with it a word that takes its innocence; steps of an escalation and of a count.
Denied == [Mild EXCEPT !.marks = {"denial"}]
Again == [Said("JAILBREAK", 97) EXCEPT !.marks = {"rephrase"}]
Capable == [Sure EXCEPT !.marks = {"capability"}]
Abusive == [Helped EXCEPT !.marks = {"abuse"}]
Early == [Benign EXCEPT !.early = {1, 5}]
Late == [Sure EXCEPT !.late = {5}]
Count(n) == [Said("DATA_EXFILTRATION", 97) EXCEPT !.shape = "id", !.numbers = <<n>>]

Defaults == [killThreshold |-> 97, singleThreshold |-> 99, minMalicious |-> 2]

Pairs == {<<Blatant, Subtle>>, <<Refused, Subtle>>, <<Opener, Closer>>, <<Mild, Sure>>,
          <<Garbled, Sure>>}
Kinds == {Blatant, Sure, Subtle, Obvious, Mild, Refused, Opener, Closer, Helped, Denied, Again,
          Capable, Abusive, Early, Late}
Talks == {<<a, b, c>> : a \in Kinds, b \in Kinds, c \in Kinds} \cup {<<Count(1), Count(3), Count(5)>>}
\* A risky prompt, and small talk afterwards.
SmallTalk == {<<Mild, Benign, Benign, Benign, Benign>>}
Alone == {<<Blatant>>}
TwoDelivered == c1 :> 1 @@ c2 :> 1 @@ c3 :> 2
TwoOfOne == c1 :> 1 @@ c2 :> 1
InTurn == [c \in Copies |-> (c1 :> 1 @@ c2 :> 2 @@ c3 :> 3 @@ c4 :> 4 @@ c5 :> 5)[c]]
OneSession == [p \in Prompts |-> s1]
=============================================================================
