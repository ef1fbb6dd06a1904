------------------------------ MODULE Tier2Proofs ------------------------------
(* What every number of prompts, deliveries, failures and crashes leaves true  *)
(* of the Tier 2 pipeline: a prompt is acted on at most once, and the pipeline *)
(* keeps the promise of PromptFate.                                            *)
EXTENDS Tier2Pipeline, TLAPS

RowFields == {"status", "text", "verdict", "category", "kill"}

JudgementFields ==
    {"mode", "category", "confidence", "hostile", "prior", "safe", "score", "verdict",
     "after", "evident", "kill"}

Statuses == Verdicts \cup {"absent", "ingested", "skipped", "error"}

\* The tables are functions, the rows are records: what TypeOK leaves unsaid.
Shapes ==
    /\ pc \in [Copies -> PCs]
    /\ DOMAIN judged = Copies /\ \A c \in Copies : DOMAIN judged[c] = JudgementFields
    /\ DOMAIN history = Prompts /\ \A p \in Prompts : DOMAIN history[p] = RowFields
    /\ \A p \in Prompts : history[p].status \in Statuses
    /\ orders \in [Prompts -> Nat] /\ raises \in [Prompts -> Nat]
    /\ events \in [Prompts -> Nat] /\ ledger \in [Prompts -> Nat]

-----------------------------------------------------------------------------
(* The inductive invariant.  A copy that has taken its prompt up holds it, and  *)
(* while it does, what it is yet to do for the prompt has not been done.       *)

Holds(c) == pc[c] \in Working \cup {"book"}

Untouched(p) == orders[p] = 0 /\ raises[p] = 0 /\ events[p] = 0 /\ ledger[p] = 0

HeldOnce ==
    \A c, d \in Copies : Of[c] = Of[d] /\ Holds(c) /\ Holds(d) => c = d

\* A row that is absent is of a prompt that nobody has taken up.
AbsentIsUntouched ==
    \A p \in Prompts :
        history[p].status = "absent" =>
            Untouched(p) /\ \A c \in Copies : Of[c] = p => ~Holds(c)

HolderIsOnTime(c) ==
    LET p == Of[c]
    IN  /\ pc[c] \in {"classify", "assess", "order"} => orders[p] = 0
        /\ pc[c] \in {"classify", "assess", "order", "raise"} => raises[p] = 0
        /\ pc[c] \in {"classify", "assess", "order", "raise", "event"} => events[p] = 0
        /\ Holds(c) => ledger[p] = 0
        /\ pc[c] \in Working => history[p].status \in {"ingested", "error"}

HolderIsConsistent(c) ==
    /\ pc[c] = "order" => judged[c].verdict = "malicious"
    /\ Holds(c) /\ orders[Of[c]] > 0 => judged[c].verdict = "malicious"
    /\ pc[c] \in {"assess", "order", "raise", "event", "record"} =>
           judged[c].verdict \in Verdicts \cup {"skipped"}

IInv ==
    /\ Shapes /\ HeldOnce /\ AbsentIsUntouched /\ AtMostOnce
    /\ \A c \in Copies : HolderIsOnTime(c) /\ HolderIsConsistent(c)

-----------------------------------------------------------------------------

LEMMA JudgementFacts ==
    ASSUME NEW c, NEW recent, NEW answer, DOMAIN judged[c] = JudgementFields
    PROVE  /\ DOMAIN Judgement(c, recent, answer) = JudgementFields
           /\ Judgement(c, recent, answer).verdict \in Verdicts
BY DEF Judgement, JudgementFields, Verdicts, RiskBand

LEMMA AssessmentFacts ==
    ASSUME NEW c, NEW row, DOMAIN judged[c] = JudgementFields
    PROVE  /\ DOMAIN Assessment(c, row) = JudgementFields
           /\ Assessment(c, row).verdict = judged[c].verdict
           /\ Assessment(c, row).kill => judged[c].verdict = "malicious"
BY DEF Assessment, JudgementFields

LEMMA OpeningFacts ==
    ASSUME NEW p, NEW mode
    PROVE  /\ DOMAIN Opening(p, mode) = JudgementFields
           /\ FirstStep[Route(p, mode)] \in {"assess", "record", "classify"}
           /\ FirstStep[Route(p, mode)] \in {"assess", "record"} =>
                  Opening(p, mode).verdict \in Verdicts \cup {"skipped"}
BY DEF Opening, Route, FirstStep, NoJudgement, JudgementFields, Verdicts

LEMMA InitIInv == Init => IInv
BY DEF Init, IInv, Shapes, PCs, NoJudgement, NoRow, JudgementFields, RowFields, Statuses,
   HeldOnce, AbsentIsUntouched, AtMostOnce, HolderIsOnTime, HolderIsConsistent, Holds, Working,
   Untouched

-----------------------------------------------------------------------------
(* Every step is one copy's: it changes nothing of other prompts, and leaves   *)
(* the invariant if it does so for its own.                                    *)

Frame(c, step) ==
    LET p == Of[c]
    IN  /\ step \in PCs /\ Goes(c, step)
        /\ DOMAIN judged' = Copies /\ DOMAIN judged'[c] = JudgementFields
        /\ \A d \in Copies \ {c} : judged'[d] = judged[d]
        /\ DOMAIN history' = Prompts /\ DOMAIN history'[p] = RowFields
        /\ history'[p].status \in Statuses
        /\ orders' \in [Prompts -> Nat] /\ raises' \in [Prompts -> Nat]
        /\ events' \in [Prompts -> Nat] /\ ledger' \in [Prompts -> Nat]
        /\ \A q \in Prompts \ {p} : /\ history'[q] = history[q]
                                    /\ orders'[q] = orders[q] /\ raises'[q] = raises[q]
                                    /\ events'[q] = events[q] /\ ledger'[q] = ledger[q]

\* A copy that holds nothing leaves its prompt alone, but for an error.
Hands(c) ==
    LET p == Of[c]
    IN  /\ Holds(c)' => Holds(c) \/ history[p].status = "absent"
        /\ \/ Holds(c) \/ history[p].status = "absent"
           \/ /\ orders'[p] = orders[p] /\ raises'[p] = raises[p]
              /\ events'[p] = events[p] /\ ledger'[p] = ledger[p]
              /\ history'[p].status \in {history[p].status, "error"}

Own(c) ==
    LET p == Of[c]
    IN  /\ orders'[p] <= 1 /\ raises'[p] <= 1 /\ events'[p] <= 1 /\ ledger'[p] <= 1
        /\ history'[p].status = "absent" =>
               Untouched(p)' /\ ~Holds(c)' /\ history[p].status = "absent"
        /\ HolderIsOnTime(c)' /\ HolderIsConsistent(c)'

Framed(c) == \E step : Frame(c, step)

LEMMA OneCopyStep ==
    ASSUME IInv, NEW c \in Copies, NEW step, Frame(c, step), Hands(c), Own(c)
    PROVE  IInv' /\ Framed(c)
<1>1. /\ Of[c] \in Prompts
      /\ \A d \in Copies \ {c} : pc'[d] = pc[d] /\ judged'[d] = judged[d] /\ Of[d] \in Prompts
      /\ pc'[c] = step
  BY DeliveryAssumption DEF Frame, Goes, IInv, Shapes
<1>2. Shapes'
  BY <1>1 DEF Frame, Goes, IInv, Shapes
<1>3. \A d \in Copies \ {c} : Of[d] # Of[c] \/ ~Holds(d) \/ (~Holds(c) /\ history[Of[c]].status # "absent")
  BY <1>1 DEF IInv, HeldOnce, AbsentIsUntouched
<1>4. HeldOnce'
  BY <1>1, <1>3 DEF IInv, HeldOnce, Hands, Holds
<1>5. AbsentIsUntouched'
  <2>. SUFFICES ASSUME NEW p \in Prompts, history'[p].status = "absent"
                PROVE  Untouched(p)' /\ \A d \in Copies : Of[d] = p => ~Holds(d)'
    BY DEF AbsentIsUntouched
  <2>1. CASE p = Of[c]
    BY <1>1, <2>1 DEF Own, Holds, IInv, AbsentIsUntouched
  <2>2. CASE p # Of[c]
    BY <1>1, <2>2 DEF Frame, Holds, IInv, AbsentIsUntouched, Untouched
  <2>. QED
    BY <2>1, <2>2
<1>6. AtMostOnce'
  BY <1>1 DEF Frame, Own, IInv, AtMostOnce
<1>7. \A d \in Copies : HolderIsOnTime(d)' /\ HolderIsConsistent(d)'
  <2>. SUFFICES ASSUME NEW d \in Copies, d # c
                PROVE  HolderIsOnTime(d)' /\ HolderIsConsistent(d)'
    BY DEF Own
  <2>0. HolderIsOnTime(d) /\ HolderIsConsistent(d)
    BY DEF IInv
  <2>1. CASE Of[d] # Of[c]
    BY <1>1, <2>0, <2>1 DEF Frame, HolderIsOnTime, HolderIsConsistent, Holds
  <2>2. CASE Of[d] = Of[c] /\ ~Holds(d)
    BY <1>1, <2>2 DEF HolderIsOnTime, HolderIsConsistent, Holds, Working
  <2>3. CASE Of[d] = Of[c] /\ Holds(d)
    BY <1>1, <1>3, <2>0, <2>3 DEF Hands, HolderIsOnTime, HolderIsConsistent, Holds
  <2>. QED
    BY <2>1, <2>2, <2>3
<1>. QED
  BY <1>2, <1>4, <1>5, <1>6, <1>7 DEF IInv, Framed

LEMMA EndFacts == DOMAIN NoJudgement = JudgementFields
BY DEF NoJudgement, JudgementFields

LEMMA JudgedRowFacts ==
    ASSUME NEW c, NEW row, DOMAIN row = RowFields
    PROVE  /\ DOMAIN JudgedRow(c, row) = RowFields
           /\ JudgedRow(c, row).status = judged[c].verdict
BY DEF JudgedRow, RowFields

LEMMA ErrorRowFacts ==
    ASSUME NEW row, DOMAIN row = RowFields
    PROVE  DOMAIN ErrorRow(row) = RowFields /\ ErrorRow(row).status = "error"
BY DEF ErrorRow, RowFields

LEMMA PutFacts ==
    ASSUME Shapes, NEW p \in Prompts, Put(p)
    PROVE  /\ DOMAIN history' = Prompts
           /\ DOMAIN history'[p] = RowFields /\ history'[p].status = "ingested"
           /\ \A q \in Prompts \ {p} : history'[q] = history[q]
BY DEF Shapes, Put, RowFields

-----------------------------------------------------------------------------
(* The steps, one by one.                                                      *)

USE DEF At, Goes, Well, Fault, tables, world, Holds, Working

LEMMA IngestStep ==
    ASSUME IInv, NEW c \in Copies, NEW mode, Ingest(c, mode)
    PROVE  IInv' /\ Framed(c)
<1>1. Of[c] \in Prompts /\ HolderIsOnTime(c) /\ HolderIsConsistent(c)
  BY DeliveryAssumption DEF IInv
<1>2. CASE Untaken(Of[c])
  <2>. DEFINE step == FirstStep[Route(Of[c], mode)]
              opening == Opening(Of[c], mode)
  <2>1. /\ Goes(c, step) /\ Put(Of[c]) /\ judged' = [judged EXCEPT ![c] = opening]
        /\ pc[c] = "queued" /\ history[Of[c]].status = "absent" /\ Untouched(Of[c])
        /\ UNCHANGED <<orders, raises, events, ledger>>
    BY <1>1, <1>2 DEF Ingest, Untaken, IInv, AbsentIsUntouched
  <2>2. /\ step \in {"assess", "record", "classify"}
        /\ DOMAIN opening = JudgementFields
        /\ step \in {"assess", "record"} => opening.verdict \in Verdicts \cup {"skipped"}
    BY OpeningFacts
  <2>. HIDE DEF step, opening
  <2>3. Frame(c, step)
    BY <1>1, <2>1, <2>2, PutFacts DEF Frame, PCs, Statuses, Verdicts, IInv, Shapes
  <2>4. Hands(c)
    BY <1>1, <2>1 DEF Hands
  <2>5. Own(c)
    BY <1>1, <2>1, <2>2, PutFacts
    DEF Own, IInv, Shapes, Untouched, HolderIsOnTime, HolderIsConsistent
  <2>. QED
    BY <2>3, <2>4, <2>5, OneCopyStep
<1>3. CASE ~Untaken(Of[c])
  <2>3. Frame(c, "done")
    BY <1>1, <1>3 DEF Ingest, Frame, PCs, IInv, Shapes
  <2>4. Hands(c)
    BY <1>1, <1>3 DEF Ingest, Hands, Untaken, IInv, Shapes
  <2>5. Own(c)
    BY <1>1, <1>3
    DEF Ingest, Own, Untaken, IInv, Shapes, AtMostOnce, Untouched, HolderIsOnTime,
        HolderIsConsistent
  <2>. QED
    BY <2>3, <2>4, <2>5, OneCopyStep
<1>. QED
  BY <1>2, <1>3

LEMMA DecideStep ==
    ASSUME IInv, NEW c \in Copies, NEW row, Decide(c, row)
    PROVE  IInv' /\ Framed(c)
<1>1. Of[c] \in Prompts /\ HolderIsOnTime(c) /\ HolderIsConsistent(c)
  BY DeliveryAssumption DEF IInv
<1>. DEFINE j == Assessment(c, row)
            step == IF j.kill THEN "order" ELSE "raise"
<1>2. /\ pc[c] = "assess" /\ Goes(c, step) /\ judged' = [judged EXCEPT ![c] = j]
      /\ UNCHANGED <<history, orders, raises, events, ledger>>
  BY DEF Decide
<1>3. /\ DOMAIN j = JudgementFields /\ j.verdict = judged[c].verdict
      /\ j.kill => judged[c].verdict = "malicious"
  BY AssessmentFacts DEF IInv, Shapes
<1>. HIDE DEF j
<1>4. Frame(c, step)
  BY <1>1, <1>2, <1>3 DEF Frame, PCs, IInv, Shapes
<1>5. Hands(c)
  BY <1>1, <1>2 DEF Hands
<1>6. Own(c)
  BY <1>1, <1>2, <1>3
  DEF Own, IInv, Shapes, AbsentIsUntouched, AtMostOnce, Untouched, HolderIsOnTime,
      HolderIsConsistent
<1>. QED
  BY <1>4, <1>5, <1>6, OneCopyStep

LEMMA RejectStep ==
    ASSUME IInv, NEW c \in Copies, Reject(c)
    PROVE  IInv' /\ Framed(c)
<1>1. Of[c] \in Prompts /\ HolderIsOnTime(c) /\ HolderIsConsistent(c)
  BY DeliveryAssumption DEF IInv
<1>2. Frame(c, "failing")
  BY <1>1
  DEF Reject, Frame, PCs, Statuses, Verdicts, IInv, Shapes
<1>3. Hands(c)
  BY <1>1 DEF Reject, Hands, IInv, Shapes
<1>4. Own(c)
  BY <1>1
  DEF Reject, Own, IInv, Shapes, AbsentIsUntouched, AtMostOnce, Untouched,
     HolderIsOnTime, HolderIsConsistent, Verdicts
<1>. QED
  BY <1>2, <1>3, <1>4, OneCopyStep

LEMMA IngestUnansweredStep ==
    ASSUME IInv, NEW c \in Copies, IngestUnanswered(c)
    PROVE  IInv' /\ Framed(c)
<1>1. Of[c] \in Prompts /\ HolderIsOnTime(c) /\ HolderIsConsistent(c)
  BY DeliveryAssumption DEF IInv
<1>2. Frame(c, "done")
  BY <1>1, PutFacts
  DEF IngestUnanswered, Untaken, Frame, PCs, Statuses, Verdicts, IInv, Shapes
<1>3. Hands(c)
  BY <1>1, PutFacts DEF IngestUnanswered, Untaken, Hands, IInv, Shapes
<1>4. Own(c)
  BY <1>1, PutFacts
  DEF IngestUnanswered, Untaken, Own, IInv, Shapes, AbsentIsUntouched, AtMostOnce, Untouched,
     HolderIsOnTime, HolderIsConsistent, Verdicts
<1>. QED
  BY <1>2, <1>3, <1>4, OneCopyStep

LEMMA ClassifyStep ==
    ASSUME IInv, NEW c \in Copies, Classify(c)
    PROVE  IInv' /\ Framed(c)
<1>1. Of[c] \in Prompts /\ HolderIsOnTime(c) /\ HolderIsConsistent(c)
  BY DeliveryAssumption DEF IInv
<1>2. Frame(c, "assess")
  BY <1>1, JudgementFacts
  DEF Classify, Frame, PCs, Statuses, Verdicts, IInv, Shapes
<1>3. Hands(c)
  BY <1>1, JudgementFacts DEF Classify, Hands, IInv, Shapes
<1>4. Own(c)
  BY <1>1, JudgementFacts
  DEF Classify, Own, IInv, Shapes, AbsentIsUntouched, AtMostOnce, Untouched,
     HolderIsOnTime, HolderIsConsistent, Verdicts
<1>. QED
  BY <1>2, <1>3, <1>4, OneCopyStep

LEMMA ClassifyBlindStep ==
    ASSUME IInv, NEW c \in Copies, ClassifyBlind(c)
    PROVE  IInv' /\ Framed(c)
<1>1. Of[c] \in Prompts /\ HolderIsOnTime(c) /\ HolderIsConsistent(c)
  BY DeliveryAssumption DEF IInv
<1>2. Frame(c, "assess")
  BY <1>1, JudgementFacts
  DEF ClassifyBlind, Frame, PCs, Statuses, Verdicts, IInv, Shapes
<1>3. Hands(c)
  BY <1>1, JudgementFacts DEF ClassifyBlind, Hands, IInv, Shapes
<1>4. Own(c)
  BY <1>1, JudgementFacts
  DEF ClassifyBlind, Own, IInv, Shapes, AbsentIsUntouched, AtMostOnce, Untouched,
     HolderIsOnTime, HolderIsConsistent, Verdicts
<1>. QED
  BY <1>2, <1>3, <1>4, OneCopyStep

LEMMA ClassifyMisreadStep ==
    ASSUME IInv, NEW c \in Copies, ClassifyMisread(c)
    PROVE  IInv' /\ Framed(c)
<1>1. Of[c] \in Prompts /\ HolderIsOnTime(c) /\ HolderIsConsistent(c)
  BY DeliveryAssumption DEF IInv
<1>2. Frame(c, "assess")
  BY <1>1, JudgementFacts
  DEF ClassifyMisread, Frame, PCs, Statuses, Verdicts, IInv, Shapes
<1>3. Hands(c)
  BY <1>1, JudgementFacts DEF ClassifyMisread, Hands, IInv, Shapes
<1>4. Own(c)
  BY <1>1, JudgementFacts
  DEF ClassifyMisread, Own, IInv, Shapes, AbsentIsUntouched, AtMostOnce, Untouched,
     HolderIsOnTime, HolderIsConsistent, Verdicts
<1>. QED
  BY <1>2, <1>3, <1>4, OneCopyStep

LEMMA OrderStep ==
    ASSUME IInv, NEW c \in Copies, Order(c)
    PROVE  IInv' /\ Framed(c)
<1>1. Of[c] \in Prompts /\ HolderIsOnTime(c) /\ HolderIsConsistent(c)
  BY DeliveryAssumption DEF IInv
<1>2. Frame(c, "raise")
  BY <1>1
  DEF Order, Ordered, Frame, PCs, Statuses, Verdicts, IInv, Shapes
<1>3. Hands(c)
  BY <1>1 DEF Order, Ordered, Hands, IInv, Shapes
<1>4. Own(c)
  BY <1>1
  DEF Order, Ordered, Own, IInv, Shapes, AbsentIsUntouched, AtMostOnce, Untouched,
     HolderIsOnTime, HolderIsConsistent, Verdicts
<1>. QED
  BY <1>2, <1>3, <1>4, OneCopyStep

LEMMA OrderRefusedStep ==
    ASSUME IInv, NEW c \in Copies, OrderRefused(c)
    PROVE  IInv' /\ Framed(c)
<1>1. Of[c] \in Prompts /\ HolderIsOnTime(c) /\ HolderIsConsistent(c)
  BY DeliveryAssumption DEF IInv
<1>2. Frame(c, "raise")
  BY <1>1
  DEF OrderRefused, Frame, PCs, Statuses, Verdicts, IInv, Shapes
<1>3. Hands(c)
  BY <1>1 DEF OrderRefused, Hands, IInv, Shapes
<1>4. Own(c)
  BY <1>1
  DEF OrderRefused, Own, IInv, Shapes, AbsentIsUntouched, AtMostOnce, Untouched,
     HolderIsOnTime, HolderIsConsistent, Verdicts
<1>. QED
  BY <1>2, <1>3, <1>4, OneCopyStep

LEMMA OrderUnansweredStep ==
    ASSUME IInv, NEW c \in Copies, OrderUnanswered(c)
    PROVE  IInv' /\ Framed(c)
<1>1. Of[c] \in Prompts /\ HolderIsOnTime(c) /\ HolderIsConsistent(c)
  BY DeliveryAssumption DEF IInv
<1>2. Frame(c, "failing")
  BY <1>1
  DEF OrderUnanswered, Ordered, Frame, PCs, Statuses, Verdicts, IInv, Shapes
<1>3. Hands(c)
  BY <1>1 DEF OrderUnanswered, Ordered, Hands, IInv, Shapes
<1>4. Own(c)
  BY <1>1
  DEF OrderUnanswered, Ordered, Own, IInv, Shapes, AbsentIsUntouched, AtMostOnce, Untouched,
     HolderIsOnTime, HolderIsConsistent, Verdicts
<1>. QED
  BY <1>2, <1>3, <1>4, OneCopyStep

LEMMA RaiseStep ==
    ASSUME IInv, NEW c \in Copies, Raise(c)
    PROVE  IInv' /\ Framed(c)
<1>1. Of[c] \in Prompts /\ HolderIsOnTime(c) /\ HolderIsConsistent(c)
  BY DeliveryAssumption DEF IInv
<1>2. Frame(c, "event")
  BY <1>1
  DEF Raise, WriteRisk, Frame, PCs, Statuses, Verdicts, IInv, Shapes
<1>3. Hands(c)
  BY <1>1 DEF Raise, WriteRisk, Hands, IInv, Shapes
<1>4. Own(c)
  BY <1>1
  DEF Raise, WriteRisk, Own, IInv, Shapes, AbsentIsUntouched, AtMostOnce, Untouched,
     HolderIsOnTime, HolderIsConsistent, Verdicts
<1>. QED
  BY <1>2, <1>3, <1>4, OneCopyStep

LEMMA RaiseUndatedStep ==
    ASSUME IInv, NEW c \in Copies, RaiseUndated(c)
    PROVE  IInv' /\ Framed(c)
<1>1. Of[c] \in Prompts /\ HolderIsOnTime(c) /\ HolderIsConsistent(c)
  BY DeliveryAssumption DEF IInv
<1>2. Frame(c, "event")
  BY <1>1
  DEF RaiseUndated, WriteRisk, Frame, PCs, Statuses, Verdicts, IInv, Shapes
<1>3. Hands(c)
  BY <1>1 DEF RaiseUndated, WriteRisk, Hands, IInv, Shapes
<1>4. Own(c)
  BY <1>1
  DEF RaiseUndated, WriteRisk, Own, IInv, Shapes, AbsentIsUntouched, AtMostOnce, Untouched,
     HolderIsOnTime, HolderIsConsistent, Verdicts
<1>. QED
  BY <1>2, <1>3, <1>4, OneCopyStep

LEMMA RaiseUnansweredStep ==
    ASSUME IInv, NEW c \in Copies, RaiseUnanswered(c)
    PROVE  IInv' /\ Framed(c)
<1>1. Of[c] \in Prompts /\ HolderIsOnTime(c) /\ HolderIsConsistent(c)
  BY DeliveryAssumption DEF IInv
<1>2. Frame(c, "failing")
  BY <1>1
  DEF RaiseUnanswered, WriteRisk, Frame, PCs, Statuses, Verdicts, IInv, Shapes
<1>3. Hands(c)
  BY <1>1 DEF RaiseUnanswered, WriteRisk, Hands, IInv, Shapes
<1>4. Own(c)
  BY <1>1
  DEF RaiseUnanswered, WriteRisk, Own, IInv, Shapes, AbsentIsUntouched, AtMostOnce, Untouched,
     HolderIsOnTime, HolderIsConsistent, Verdicts
<1>. QED
  BY <1>2, <1>3, <1>4, OneCopyStep

LEMMA WriteEventStep ==
    ASSUME IInv, NEW c \in Copies, WriteEvent(c)
    PROVE  IInv' /\ Framed(c)
<1>1. Of[c] \in Prompts /\ HolderIsOnTime(c) /\ HolderIsConsistent(c)
  BY DeliveryAssumption DEF IInv
<1>2. Frame(c, "record")
  BY <1>1
  DEF WriteEvent, Frame, PCs, Statuses, Verdicts, IInv, Shapes
<1>3. Hands(c)
  BY <1>1 DEF WriteEvent, Hands, IInv, Shapes
<1>4. Own(c)
  BY <1>1
  DEF WriteEvent, Own, IInv, Shapes, AbsentIsUntouched, AtMostOnce, Untouched,
     HolderIsOnTime, HolderIsConsistent, Verdicts
<1>. QED
  BY <1>2, <1>3, <1>4, OneCopyStep

LEMMA RecordStep ==
    ASSUME IInv, NEW c \in Copies, Record(c)
    PROVE  IInv' /\ Framed(c)
<1>1. Of[c] \in Prompts /\ HolderIsOnTime(c) /\ HolderIsConsistent(c)
  BY DeliveryAssumption DEF IInv
<1>2. Frame(c, "book")
  BY <1>1, JudgedRowFacts
  DEF Record, Frame, PCs, Statuses, Verdicts, IInv, Shapes, HolderIsConsistent
<1>3. Hands(c)
  BY <1>1, JudgedRowFacts DEF Record, Hands, IInv, Shapes
<1>4. Own(c)
  BY <1>1, JudgedRowFacts
  DEF Record, Own, IInv, Shapes, AbsentIsUntouched, AtMostOnce, Untouched,
     HolderIsOnTime, HolderIsConsistent, Verdicts
<1>. QED
  BY <1>2, <1>3, <1>4, OneCopyStep

LEMMA RecordLostStep ==
    ASSUME IInv, NEW c \in Copies, RecordLost(c)
    PROVE  IInv' /\ Framed(c)
<1>1. Of[c] \in Prompts /\ HolderIsOnTime(c) /\ HolderIsConsistent(c)
  BY DeliveryAssumption DEF IInv
<1>2. Frame(c, "book")
  BY <1>1
  DEF RecordLost, Frame, PCs, Statuses, Verdicts, IInv, Shapes
<1>3. Hands(c)
  BY <1>1 DEF RecordLost, Hands, IInv, Shapes
<1>4. Own(c)
  BY <1>1
  DEF RecordLost, Own, IInv, Shapes, AbsentIsUntouched, AtMostOnce, Untouched,
     HolderIsOnTime, HolderIsConsistent, Verdicts
<1>. QED
  BY <1>2, <1>3, <1>4, OneCopyStep

LEMMA BookStep ==
    ASSUME IInv, NEW c \in Copies, Book(c)
    PROVE  IInv' /\ Framed(c)
<1>1. Of[c] \in Prompts /\ HolderIsOnTime(c) /\ HolderIsConsistent(c)
  BY DeliveryAssumption DEF IInv
<1>2. Frame(c, "done")
  BY <1>1, EndFacts
  DEF Book, Ends, Frame, PCs, Statuses, Verdicts, IInv, Shapes
<1>3. Hands(c)
  BY <1>1, EndFacts DEF Book, Ends, Hands, IInv, Shapes
<1>4. Own(c)
  BY <1>1, EndFacts
  DEF Book, Ends, Own, IInv, Shapes, AbsentIsUntouched, AtMostOnce, Untouched,
     HolderIsOnTime, HolderIsConsistent, Verdicts
<1>. QED
  BY <1>2, <1>3, <1>4, OneCopyStep

LEMMA BookLostStep ==
    ASSUME IInv, NEW c \in Copies, BookLost(c)
    PROVE  IInv' /\ Framed(c)
<1>1. Of[c] \in Prompts /\ HolderIsOnTime(c) /\ HolderIsConsistent(c)
  BY DeliveryAssumption DEF IInv
<1>2. Frame(c, "done")
  BY <1>1, EndFacts
  DEF BookLost, Ends, Frame, PCs, Statuses, Verdicts, IInv, Shapes
<1>3. Hands(c)
  BY <1>1, EndFacts DEF BookLost, Ends, Hands, IInv, Shapes
<1>4. Own(c)
  BY <1>1, EndFacts
  DEF BookLost, Ends, Own, IInv, Shapes, AbsentIsUntouched, AtMostOnce, Untouched,
     HolderIsOnTime, HolderIsConsistent, Verdicts
<1>. QED
  BY <1>2, <1>3, <1>4, OneCopyStep

LEMMA RaisesStep ==
    ASSUME IInv, NEW c \in Copies, Raises(c)
    PROVE  IInv' /\ Framed(c)
<1>1. Of[c] \in Prompts /\ HolderIsOnTime(c) /\ HolderIsConsistent(c)
  BY DeliveryAssumption DEF IInv
<1>2. Frame(c, "failing")
  BY <1>1
  DEF Raises, Frame, PCs, Statuses, Verdicts, IInv, Shapes
<1>3. Hands(c)
  BY <1>1 DEF Raises, Hands, IInv, Shapes
<1>4. Own(c)
  BY <1>1
  DEF Raises, Own, IInv, Shapes, AbsentIsUntouched, AtMostOnce, Untouched,
     HolderIsOnTime, HolderIsConsistent, Verdicts
<1>. QED
  BY <1>2, <1>3, <1>4, OneCopyStep

LEMMA FailStep ==
    ASSUME IInv, NEW c \in Copies, Fail(c)
    PROVE  IInv' /\ Framed(c)
<1>1. Of[c] \in Prompts /\ HolderIsOnTime(c) /\ HolderIsConsistent(c)
  BY DeliveryAssumption DEF IInv
<1>2. Frame(c, "done")
  BY <1>1, EndFacts, ErrorRowFacts
  DEF Fail, Ends, Frame, PCs, Statuses, Verdicts, IInv, Shapes
<1>3. Hands(c)
  BY <1>1, EndFacts, ErrorRowFacts DEF Fail, Ends, Hands, IInv, Shapes
<1>4. Own(c)
  BY <1>1, EndFacts, ErrorRowFacts
  DEF Fail, Ends, Own, IInv, Shapes, AbsentIsUntouched, AtMostOnce, Untouched,
     HolderIsOnTime, HolderIsConsistent, Verdicts
<1>. QED
  BY <1>2, <1>3, <1>4, OneCopyStep

LEMMA FailLostStep ==
    ASSUME IInv, NEW c \in Copies, FailLost(c)
    PROVE  IInv' /\ Framed(c)
<1>1. Of[c] \in Prompts /\ HolderIsOnTime(c) /\ HolderIsConsistent(c)
  BY DeliveryAssumption DEF IInv
<1>2. Frame(c, "done")
  BY <1>1, EndFacts
  DEF FailLost, Ends, Frame, PCs, Statuses, Verdicts, IInv, Shapes
<1>3. Hands(c)
  BY <1>1, EndFacts DEF FailLost, Ends, Hands, IInv, Shapes
<1>4. Own(c)
  BY <1>1, EndFacts
  DEF FailLost, Ends, Own, IInv, Shapes, AbsentIsUntouched, AtMostOnce, Untouched,
     HolderIsOnTime, HolderIsConsistent, Verdicts
<1>. QED
  BY <1>2, <1>3, <1>4, OneCopyStep

LEMMA FailRaisesStep ==
    ASSUME IInv, NEW c \in Copies, FailRaises(c)
    PROVE  IInv' /\ Framed(c)
<1>1. Of[c] \in Prompts /\ HolderIsOnTime(c) /\ HolderIsConsistent(c)
  BY DeliveryAssumption DEF IInv
<1>2. Frame(c, "queued")
  BY <1>1, EndFacts
  DEF FailRaises, Ends, Frame, PCs, Statuses, Verdicts, IInv, Shapes
<1>3. Hands(c)
  BY <1>1, EndFacts DEF FailRaises, Ends, Hands, IInv, Shapes
<1>4. Own(c)
  BY <1>1, EndFacts
  DEF FailRaises, Ends, Own, IInv, Shapes, AbsentIsUntouched, AtMostOnce, Untouched,
     HolderIsOnTime, HolderIsConsistent, Verdicts
<1>. QED
  BY <1>2, <1>3, <1>4, OneCopyStep

LEMMA CrashStep ==
    ASSUME IInv, NEW c \in Copies, Crash(c)
    PROVE  IInv' /\ Framed(c)
<1>1. Of[c] \in Prompts /\ HolderIsOnTime(c) /\ HolderIsConsistent(c)
  BY DeliveryAssumption DEF IInv
<1>2. Frame(c, "queued")
  BY <1>1, EndFacts
  DEF Crash, Ends, Frame, PCs, Statuses, Verdicts, IInv, Shapes
<1>3. Hands(c)
  BY <1>1, EndFacts DEF Crash, Ends, Hands, IInv, Shapes
<1>4. Own(c)
  BY <1>1, EndFacts
  DEF Crash, Ends, Own, IInv, Shapes, AbsentIsUntouched, AtMostOnce, Untouched,
     HolderIsOnTime, HolderIsConsistent, Verdicts
<1>. QED
  BY <1>2, <1>3, <1>4, OneCopyStep

LEMMA TickStep ==
    ASSUME IInv, Tick
    PROVE  IInv'
BY DEF Tick, IInv, Shapes, HeldOnce, AbsentIsUntouched, AtMostOnce, Untouched, HolderIsOnTime,
   HolderIsConsistent

LEMMA StutterStep ==
    ASSUME IInv, UNCHANGED vars
    PROVE  IInv'
BY DEF vars, IInv, Shapes, HeldOnce, AbsentIsUntouched, AtMostOnce, Untouched, HolderIsOnTime,
   HolderIsConsistent

LEMMA CopyStep ==
    ASSUME IInv, NEW c \in Copies, Step(c) \/ Failure(c)
    PROVE  IInv' /\ Framed(c)
<1>1. CASE Step(c)
  BY <1>1, IngestStep, RejectStep, ClassifyStep, DecideStep, OrderStep, RaiseStep, WriteEventStep,
     RecordStep, BookStep, FailStep
  DEF Step, Assess
<1>2. CASE Failure(c)
  BY <1>2, IngestUnansweredStep, ClassifyBlindStep, ClassifyMisreadStep, DecideStep,
     OrderRefusedStep, RaiseUndatedStep, RecordLostStep, BookLostStep, RaisesStep,
     OrderUnansweredStep, RaiseUnansweredStep, FailLostStep, FailRaisesStep, CrashStep
  DEF Failure, AssessBlind
<1>. QED
  BY <1>1, <1>2

LEMMA NextIInv ==
    ASSUME IInv, [Next]_vars
    PROVE  IInv'
BY CopyStep, TickStep, StutterStep DEF Next

LEMMA SpecIInv == Spec => []IInv
BY InitIInv, NextIInv, PTL DEF Spec

(* However many times the intake queue delivers a prompt, and however its       *)
(* invocations fail or are cut off, it is ordered killed, added to its          *)
(* session's risk, evented and booked at most once.                             *)
THEOREM PromptIsActedOnOnce == Spec => []AtMostOnce
BY SpecIInv, PTL DEF IInv
-----------------------------------------------------------------------------
(* The Tier 2 pipeline implements PromptFate: an initial state maps to an       *)
(* initial state, and every step of a copy, whether the calls of it succeed,    *)
(* fail or are cut off, to a step of its prompt's fate or to none.              *)

Busy(p) == \E c \in Copies : Of[c] = p /\ pc[c] \in Working

\* What a step may do to the fate of p and to the kills ordered for it.
FateMoves(p) ==
    \/ FateOf(p)' \in {FateOf(p), "error"} /\ orders'[p] = orders[p]
    \/ /\ FateOf(p) = "waiting" /\ FateOf(p)' = "open"
       /\ orders'[p] = orders[p]
    \/ /\ FateOf(p) = "open" /\ FateOf(p)' \in {"open", "error"}
       /\ orders[p] = 0 /\ orders'[p] = 1
    \/ /\ FateOf(p) = "open" /\ FateOf(p)' \in Verdicts \cup {"skipped"}
       /\ orders[p] = 1 => FateOf(p)' = "malicious"
       /\ orders'[p] = orders[p]

LEMMA InitMaps == Init => Fate!Init
BY DEF Init, Fate!Init, FateOf, NoRow, Working

LEMMA MoveMaps ==
    ASSUME NEW p \in Prompts, FateMoves(p),
           orders \in [Prompts -> Nat], orders' \in [Prompts -> Nat],
           \A q \in Prompts \ {p} : FateOf(q)' = FateOf(q) /\ orders'[q] = orders[q]
    PROVE  [Fate!Next]_Fate!vars
<1>. DEFINE fate == [q \in Prompts |-> FateOf(q)]
<1>1. /\ fate[p] = FateOf(p)
      /\ fate' = [fate EXCEPT ![p] = FateOf(p)']
      /\ orders' = [orders EXCEPT ![p] = orders'[p]]
  OBVIOUS
<1>2. CASE FateOf(p)' = FateOf(p) /\ orders'[p] = orders[p]
  BY <1>1, <1>2 DEF Fate!vars
<1>3. CASE FateOf(p)' = "error" /\ orders'[p] = orders[p]
  BY <1>1, <1>3 DEF Fate!Next, Fate!Err
<1>4. CASE FateOf(p) = "waiting" /\ FateOf(p)' = "open" /\ orders'[p] = orders[p]
  BY <1>1, <1>4 DEF Fate!Next, Fate!Take
<1>5. CASE /\ FateOf(p) = "open" /\ FateOf(p)' \in {"open", "error"}
           /\ orders[p] = 0 /\ orders'[p] = 1
  BY <1>1, <1>5 DEF Fate!Next, Fate!Kill
<1>6. CASE /\ FateOf(p) = "open" /\ FateOf(p)' \in Verdicts \cup {"skipped"}
           /\ orders[p] = 1 => FateOf(p)' = "malicious"
           /\ orders'[p] = orders[p]
  BY <1>1, <1>6 DEF Fate!Next, Fate!Settle
<1>. QED
  BY <1>2, <1>3, <1>4, <1>5, <1>6 DEF FateMoves

-----------------------------------------------------------------------------
(* The steps of a copy, and the fate of its prompt.                            *)

LEMMA OthersKeepTheirFate ==
    ASSUME NEW c \in Copies, Framed(c), pc \in [Copies -> PCs],
           NEW q \in Prompts \ {Of[c]}
    PROVE  FateOf(q)' = FateOf(q) /\ orders'[q] = orders[q]
<1>1. \A d \in Copies : Of[d] = q => pc'[d] = pc[d]
  BY DEF Framed, Frame
<1>. QED
  BY <1>1 DEF Framed, Frame, FateOf

\* A copy that takes up no prompt and records nothing but an error.
LEMMA QuietMove ==
    ASSUME IInv, NEW c \in Copies, Framed(c),
           pc'[c] \in Working => pc[c] \in Working,
           orders'[Of[c]] = orders[Of[c]],
           history'[Of[c]].status \in {history[Of[c]].status, "error"}
    PROVE  FateMoves(Of[c])
<1>. DEFINE p == Of[c]
<1>1. /\ \A d \in Copies \ {c} : pc'[d] = pc[d]
      /\ \A d \in Copies : Of[d] = p /\ pc[d] \in Working => history[p].status \in {"ingested", "error"}
  BY DEF Framed, Frame, IInv, Shapes, HolderIsOnTime
<1>2. Busy(p)' => Busy(p)
  BY <1>1 DEF Busy
<1>3. Busy(p) => history[p].status \in {"ingested", "error"}
  BY <1>1 DEF Busy
<1>4. /\ FateOf(p) = IF Busy(p) THEN "open" ELSE IF history[p].status = "absent" THEN "waiting"
                     ELSE IF history[p].status = "ingested" THEN "open" ELSE history[p].status
      /\ FateOf(p)' = IF Busy(p)' THEN "open"
                      ELSE IF history'[p].status = "absent" THEN "waiting"
                      ELSE IF history'[p].status = "ingested" THEN "open" ELSE history'[p].status
  BY DEF FateOf, Busy
<1>. QED
  BY <1>2, <1>3, <1>4 DEF FateMoves

LEMMA IngestMove ==
    ASSUME IInv, NEW c \in Copies, Framed(c), NEW mode, Ingest(c, mode)
    PROVE  FateMoves(Of[c])
<1>1. Of[c] \in Prompts
  BY DeliveryAssumption
<1>2. CASE Untaken(Of[c])
  <2>1. FateOf(Of[c]) = "waiting"
    BY <1>1, <1>2 DEF FateOf, Untaken, IInv, AbsentIsUntouched
  <2>2. pc'[c] \in Working
    BY <1>2, OpeningFacts DEF Ingest, IInv, Shapes
  <2>. QED
    BY <1>2, <2>1, <2>2 DEF FateOf, FateMoves, Ingest
<1>3. CASE ~Untaken(Of[c])
  BY <1>3, QuietMove DEF Ingest, IInv, Shapes
<1>. QED
  BY <1>2, <1>3

LEMMA IngestUnansweredMove ==
    ASSUME IInv, NEW c \in Copies, Framed(c), IngestUnanswered(c)
    PROVE  FateMoves(Of[c])
<1>1. Of[c] \in Prompts /\ history[Of[c]].status = "absent"
  BY DeliveryAssumption DEF IngestUnanswered, Untaken
<1>2. history'[Of[c]].status = "ingested"
  BY <1>1, PutFacts DEF IngestUnanswered, IInv
<1>3. FateOf(Of[c]) = "waiting"
  BY <1>1 DEF FateOf, IInv, AbsentIsUntouched
<1>. QED
  BY <1>2, <1>3 DEF IngestUnanswered, FateOf, FateMoves

\* The order of a kill, heard of or not.
LEMMA OrderMove ==
    ASSUME IInv, NEW c \in Copies, Framed(c), Order(c) \/ OrderUnanswered(c)
    PROVE  FateMoves(Of[c])
<1>1. /\ Of[c] \in Prompts /\ pc[c] = "order" /\ Ordered(c)
      /\ history' = history /\ orders[Of[c]] = 0
      /\ history[Of[c]].status \in {"ingested", "error"}
  BY DeliveryAssumption DEF Order, OrderUnanswered, IInv, HolderIsOnTime
<1>2. FateOf(Of[c]) = "open" /\ FateOf(Of[c])' \in {"open", "error"}
  BY <1>1 DEF FateOf
<1>. QED
  BY <1>1, <1>2 DEF FateMoves, Ordered, IInv, Shapes

LEMMA RecordMove ==
    ASSUME IInv, NEW c \in Copies, Framed(c), Record(c)
    PROVE  FateMoves(Of[c])
<1>1. /\ Of[c] \in Prompts /\ pc[c] = "record" /\ orders' = orders
      /\ history'[Of[c]].status = judged[c].verdict
  BY DeliveryAssumption, JudgedRowFacts DEF Record, IInv, Shapes
<1>2. /\ judged[c].verdict \in Verdicts \cup {"skipped"}
      /\ orders[Of[c]] > 0 => judged[c].verdict = "malicious"
  BY <1>1 DEF IInv, HolderIsConsistent
<1>3. \A d \in Copies : Of[d] = Of[c] => pc'[d] \notin Working
  BY <1>1 DEF Record, IInv, Shapes, HeldOnce
<1>4. FateOf(Of[c]) = "open" /\ FateOf(Of[c])' = judged[c].verdict
  BY <1>1, <1>2, <1>3 DEF FateOf, Verdicts
<1>. QED
  BY <1>1, <1>2, <1>4 DEF FateMoves

LEMMA CopyMove ==
    ASSUME IInv, NEW c \in Copies, Step(c) \/ Failure(c)
    PROVE  FateMoves(Of[c])
<1>. Framed(c) /\ Of[c] \in Prompts
  BY CopyStep, DeliveryAssumption
<1>1. CASE \/ Reject(c) \/ Classify(c) \/ ClassifyBlind(c) \/ ClassifyMisread(c)
           \/ Assess(c) \/ AssessBlind(c) \/ OrderRefused(c)
  BY <1>1, QuietMove DEF Reject, Classify, ClassifyBlind, ClassifyMisread, Assess, AssessBlind,
     Decide, OrderRefused, IInv, Shapes
<1>2. CASE \/ Raise(c) \/ RaiseUndated(c) \/ RaiseUnanswered(c) \/ WriteEvent(c)
           \/ RecordLost(c) \/ Book(c) \/ BookLost(c) \/ Raises(c)
  BY <1>2, QuietMove DEF Raise, RaiseUndated, RaiseUnanswered, WriteEvent, RecordLost, Book,
     BookLost, Raises, Ends, IInv, Shapes
<1>3. CASE Fail(c) \/ FailLost(c) \/ FailRaises(c) \/ Crash(c)
  BY <1>3, QuietMove, ErrorRowFacts DEF Fail, FailLost, FailRaises, Crash, Ends, IInv, Shapes
<1>4. CASE (\E mode \in Modes : Ingest(c, mode)) \/ IngestUnanswered(c)
  BY <1>4, IngestMove, IngestUnansweredMove
<1>5. CASE Order(c) \/ OrderUnanswered(c) \/ Record(c)
  BY <1>5, OrderMove, RecordMove
<1>. QED
  BY <1>1, <1>2, <1>3, <1>4, <1>5 DEF Step, Failure

LEMMA NextMaps ==
    ASSUME IInv, [Next]_vars
    PROVE  [Fate!Next]_Fate!vars
<1>1. ASSUME NEW c \in Copies, Step(c) \/ Failure(c)
      PROVE  [Fate!Next]_Fate!vars
  <2>1. Of[c] \in Prompts /\ Framed(c) /\ FateMoves(Of[c])
    BY <1>1, CopyMove, CopyStep, DeliveryAssumption
  <2>2. \A q \in Prompts \ {Of[c]} : FateOf(q)' = FateOf(q) /\ orders'[q] = orders[q]
    BY <2>1, OthersKeepTheirFate DEF IInv, Shapes
  <2>3. orders \in [Prompts -> Nat] /\ orders' \in [Prompts -> Nat]
    BY <1>1, CopyStep DEF IInv, Shapes
  <2>. QED
    BY <2>1, <2>2, <2>3, MoveMaps
<1>2. CASE Tick \/ UNCHANGED vars
  BY <1>2 DEF Tick, vars, FateOf, Fate!vars
<1>. QED
  BY <1>1, <1>2 DEF Next

(* The invocations, however many there are of a prompt, however they fail and    *)
(* whatever they overwrite, keep what Tier 2 promises: one judgement, one kill   *)
(* at most and only while it is open, and none but an error over a verdict.      *)
THEOREM PipelineKeepsItsPromise == Spec => KeepsItsPromise
<1>1. IInv /\ [Next]_vars => [Fate!Next]_Fate!vars
  BY NextMaps
<1>. QED
  BY InitMaps, SpecIInv, <1>1, PTL DEF Spec, KeepsItsPromise, Fate!Spec
=============================================================================
