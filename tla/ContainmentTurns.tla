---------------------------- MODULE ContainmentTurns ----------------------------
(***************************************************************************)
(* The turns of a session: how prompts_seen and the status of a registry   *)
(* row relate to the prompts that were judged, although every write of the *)
(* row is blind and rests on a read made several calls before.             *)
(***************************************************************************)
EXTENDS ContainmentSafety, FiniteSetTheorems

\* The prompts whose evaluation is in the registry.
Recorded(s) == {i \in Requests : Session(i) = s /\ inv[i].recorded}

\* Between the read of the row and the write that rests on it.
Judging(i) == inv[i].pc \in {"ensure", "evaluate", "record"}

RowsKept == \A s \in Sessions : /\ registry'[s].seen = registry[s].seen
                                /\ registry'[s].status = registry[s].status

\* What a step of invocation i is to the turns of its session.
Opens(i) ==
    /\ Judging(i)' /\ ~InFlight(i)
    /\ inv'[i].seen = registry[Session(i)].seen
    /\ registry[Session(i)].status # "terminated"
    /\ Serialized => \A j \in Requests : Session(j) = Session(i) => ~InFlight(j)
    /\ inv'[i].recorded = inv[i].recorded /\ inv'[i].verdict = inv[i].verdict
    /\ RowsKept

GoesOn(i) ==
    /\ Judging(i) /\ Judging(i)'
    /\ inv'[i].seen = inv[i].seen /\ inv'[i].recorded = inv[i].recorded
    /\ RowsKept

Lands(i) ==
    /\ At(i, "record") /\ ~Judging(i)'
    /\ inv'[i].recorded /\ inv'[i].verdict = inv[i].verdict
    /\ registry'[Session(i)].seen = inv[i].seen + 1
    /\ registry'[Session(i)].status = StatusAfter(inv[i].verdict)
    /\ \A t \in Sessions \ {Session(i)} : registry'[t] = registry[t]

Rests(i) ==
    /\ ~Judging(i)' /\ (InFlight(i)' => InFlight(i))
    /\ inv'[i].recorded = inv[i].recorded /\ inv'[i].verdict = inv[i].verdict
    /\ RowsKept
-----------------------------------------------------------------------------
\* Every step of an invocation is one of the four.
LEMMA TurnsOfDispatch ==
    ASSUME IInv, NEW i \in Requests, DispatchStep(i)
    PROVE  Opens(i) \/ GoesOn(i) \/ Lands(i) \/ Rests(i)
<1> USE DEF Judging, InFlight
<1>0. /\ Session(i) \in Sessions
      /\ registry \in [Sessions -> Row] /\ runtime \in [Sessions -> {"live", "stopped"}]
      /\ inv \in [Requests -> Invocation] /\ inv[i] \in Invocation
      /\ degraded \in [Requests -> SUBSET Components]
      /\ alert \in [Requests -> AlertMessage]
      BY RequestFacts DEF IInv, TypeOK
<1>1. ASSUME NEW response \in {"passed", "refused", "error"}, Answer(i, response),
             UNCHANGED registry, inv[i].pc = "idle" \/ InFlight(i)
      PROVE  Rests(i)
      BY <1>0, <1>1, AnswerEffect DEF Rests, RowsKept
<1>2. ASSUME DetectionFailed(i), UNCHANGED registry
      PROVE  Rests(i)
      BY <1>0, <1>2, FailureEffect DEF Rests, RowsKept
<1>3. CASE Screen(i)
      BY <1>1, <1>2, <1>3 DEF Screen, RejectStray, FailToParse, PassWithoutText,
         RefuseUnscopable, At
<1>4. CASE ReadSession(i)
  <2>1. CASE Reads(i, registry[Session(i)].risk, registry[Session(i)].seen)
             /\ registry[Session(i)].status # "terminated"
    <3>1. registry[Session(i)].risk \in 0..SessionCap /\ registry[Session(i)].seen \in Nat
          BY <1>0 DEF Row
    <3>2. /\ inv'[i].pc = "ensure" /\ inv'[i].seen = registry[Session(i)].seen
          /\ inv'[i].recorded = inv[i].recorded /\ inv'[i].verdict = inv[i].verdict
          BY <1>0, <2>1, <3>1, ReadEffect
    <3>3. QED
          BY <1>4, <2>1, <3>2 DEF ReadSession, At, Opens, RowsKept
  <2>2. QED
        BY <1>1, <1>2, <1>4, <2>1 DEF ReadSession, Reads, At
<1>5. CASE Ensure(i)
  <2>1. CASE EnsureSession(Session(i)) /\ Goto(i, "evaluate")
    <3>1. /\ inv'[i].pc = "evaluate" /\ inv'[i].seen = inv[i].seen
          /\ inv'[i].recorded = inv[i].recorded
          BY <1>0, <2>1, GotoEffect DEF Stages
    <3>2. RowsKept
          BY <1>0, <2>1, EnsureEffect DEF RowsKept
    <3>3. QED
          BY <1>5, <3>1, <3>2 DEF Ensure, At, GoesOn
  <2>2. QED
        BY <1>2, <1>5, <2>1 DEF Ensure
<1>6. CASE Evaluate(i)
  <2>1. ASSUME NEW risk \in SessionRisks(i), NEW verdict \in Verdicts(i, risk),
               Judges(i, risk, verdict)
        PROVE  GoesOn(i)
    <3>1. risk \in 0..SessionCap /\ verdict \in {"allow", "block"}
          BY <1>0, <2>1, SessionRisksBounded DEF Verdicts
    <3>2. /\ inv'[i].pc = "record" /\ inv'[i].seen = inv[i].seen
          /\ inv'[i].recorded = inv[i].recorded
          BY <1>0, <2>1, <3>1, EvaluateEffect
    <3>3. QED
          BY <1>6, <3>2 DEF Evaluate, At, GoesOn, RowsKept
  <2>2. QED
        BY <1>2, <1>6, <2>1 DEF Evaluate, Judges
<1>7. CASE Record(i)
  <2>1. PICK write \in RegistryWrites :
          /\ IF "landed" \in write
             THEN RecordSessionEvaluation(Session(i), inv[i].risk, inv[i].seen + 1,
                                          inv[i].verdict)
             ELSE UNCHANGED registry
          /\ IF "acked" \in write
             THEN Acknowledged(i, "landed" \in write)
             ELSE Unacknowledged(i, "landed" \in write)
        BY <1>7 DEF Record
  <2>2. CASE "landed" \in write
    <3>1. inv[i].risk \in 0..SessionCap /\ inv[i].seen + 1 \in Nat
          BY <1>0 DEF Invocation
    <3>2. /\ registry'[Session(i)].seen = inv[i].seen + 1
          /\ registry'[Session(i)].status = StatusAfter(inv[i].verdict)
          /\ \A t \in Sessions \ {Session(i)} : registry'[t] = registry[t]
          BY <1>0, <2>1, <2>2, <3>1, EvaluationEffect
    <3>3. /\ inv'[i].recorded /\ inv'[i].verdict = inv[i].verdict
          /\ inv'[i].pc \in {"report", "done"}
      <4>1. CASE "acked" \in write
            BY <1>0, <2>1, <4>1, AckedWriteLanded, RecordedEffect
      <4>2. CASE "acked" \notin write
        <5>1. Unacknowledged(i, TRUE)
              BY <2>1, <2>2, <4>2, ("landed" \in write) = TRUE
        <5>2. QED
              BY <1>0, <5>1, UnrecordedEffect
      <4>3. QED
            BY <4>1, <4>2
    <3>4. QED
          BY <1>7, <3>2, <3>3 DEF Record, Lands
  <2>3. CASE "landed" \notin write
    <3>1. Unacknowledged(i, FALSE)
      <4>1. "acked" \notin write
            BY <2>1, <2>3 DEF RegistryWrites
      <4>2. QED
            BY <2>1, <2>3, <4>1, ("landed" \in write) = FALSE
    <3>2. /\ ~inv'[i].recorded /\ inv'[i].verdict = inv[i].verdict /\ inv'[i].pc = "done"
          BY <1>0, <3>1, UnrecordedEffect
    <3>3. inv[i].recorded = FALSE /\ inv'[i].recorded = FALSE
      <4>1. ~inv[i].recorded
            BY <1>7 DEF IInv, RequestInv, StageFacts, Record, At
      <4>2. inv[i].recorded \in BOOLEAN
            BY <1>0 DEF Invocation
      <4>3. QED
            BY <1>0, <3>1, <4>1, <4>2, UnrecordedEffect
    <3>4. QED
          BY <2>1, <2>3, <3>2, <3>3 DEF Rests, RowsKept
  <2>4. QED
        BY <2>2, <2>3
<1>8. CASE Report(i)
  <2>1. ASSUME NEW outcome \in TransportOutcomes, AfterTelemetry(i, outcome)
        PROVE  /\ inv'[i].pc \in {"done", "kill", "note"}
               /\ inv'[i].recorded = inv[i].recorded /\ inv'[i].verdict = inv[i].verdict
    <3>1. outcome \in {"none", "sent", "degraded", "fail_closed"}
          BY DEF TransportOutcomes
    <3>2. QED
          BY <1>0, <2>1, <3>1, TelemetryEffect
  <2>2. QED
        BY <1>2, <1>8, <2>1 DEF Report, At, Rests, RowsKept
<1>9. CASE InlineKill(i)
  <2>1. PICK r \in StopResults(Session(i)) :
           inv' = [inv EXCEPT ![i].pc = "note", ![i].kill = r[1]]
        BY <1>9 DEF InlineKill
  <2>2. r[1] \in KillOutcomes
        BY <1>0, StopResultsFacts DEF KillOutcomes
  <2>3. /\ inv'[i].pc = "note"
        /\ inv'[i].recorded = inv[i].recorded /\ inv'[i].verdict = inv[i].verdict
        BY <1>0, <2>1, <2>2, KillEffect
  <2>4. QED
        BY <1>9, <2>3 DEF InlineKill, At, Rests, RowsKept
<1>10. CASE NoteKill(i)
  <2>1. /\ inv'[i].pc = "publish"
        /\ inv'[i].recorded = inv[i].recorded /\ inv'[i].verdict = inv[i].verdict
        BY <1>0, <1>10, GotoEffect DEF NoteKill, Stages
  <2>2. inv[i].kill \in KillOutcomes \cup {"none"}
        BY <1>0 DEF Invocation
  <2>3. RowsKept
        BY <1>0, <1>10, <2>2, OutcomeEffect DEF NoteKill, RowsKept
  <2>4. QED
        BY <1>10, <2>1, <2>3 DEF NoteKill, At, Rests
<1>11. CASE PublishAlert(i)
  <2>1. BlockAnswer \in {"passed", "refused", "error"}
        BY DEF BlockAnswer
  <2>2. ASSUME Goto(i, "fallback")
        PROVE  /\ inv'[i].pc = "fallback"
               /\ inv'[i].recorded = inv[i].recorded /\ inv'[i].verdict = inv[i].verdict
        BY <1>0, <2>2, GotoEffect DEF Stages
  <2>3. QED
        BY <1>1, <1>11, <2>1, <2>2 DEF PublishAlert, At, Rests, RowsKept
<1>12. CASE FallbackKill(i)
  <2>1. PICK r \in StopResults(Session(i)) : AnswerKilled(i, r[1])
        BY <1>12 DEF FallbackKill
  <2>2. r[1] \in KillOutcomes
        BY <1>0, StopResultsFacts DEF KillOutcomes
  <2>3. /\ inv'[i].pc = "done"
        /\ inv'[i].recorded = inv[i].recorded /\ inv'[i].verdict = inv[i].verdict
        BY <1>0, <2>1, <2>2, FallbackEffect
  <2>4. QED
        BY <1>12, <2>3 DEF FallbackKill, Rests, RowsKept
<1>13. CASE Crash(i)
      BY <1>1, <1>13 DEF Crash
<1>14. QED
      BY <1>3, <1>4, <1>5, <1>6, <1>7, <1>8, <1>9, <1>10, <1>11, <1>12, <1>13
      DEF DispatchStep, Dispatch, Judge, Contain

\* No other step moves an invocation or a count; it may only end a session.
MarksOnly == \A s \in Sessions :
    /\ registry'[s].seen = registry[s].seen
    /\ registry'[s].status \in {registry[s].status, "terminated"}

LEMMA TurnsOfAlert ==
    ASSUME IInv, NEW m \in Requests, AlertStep(m)
    PROVE  inv' = inv /\ RowsKept
<1>0. /\ TypeOK /\ Session(m) \in Sessions /\ registry \in [Sessions -> Row]
      /\ alert[m].outcome \in KillOutcomes \cup {"none"}
      BY RequestFacts DEF IInv, TypeOK, AlertMessage
<1>1. RowsKept
      BY <1>0, OutcomeEffect
      DEF AlertStep, Deliver, AlertKill, AlertReport, AlertFault, RowsKept
<1>2. QED
      BY <1>0, <1>1, AlertIsLocal

LEMMA TurnsOfEnforce ==
    ASSUME IInv, NEW o \in Orders, EnforceStep(o)
    PROVE  inv' = inv /\ MarksOnly
<1>0. OrderSession[o] \in Sessions /\ registry \in [Sessions -> Row]
      BY OrderAssumption DEF IInv, TypeOK
<1>1. inv' = inv
      BY DEF EnforceStep, SendOrder, Enforce, EnforceKill, EnforceMark, EnforceFault
<1>2. ASSUME MarkSessionDecision(OrderSession[o], "block") PROVE MarksOnly
      BY <1>0, <1>2, MarkEffect DEF MarksOnly, StatusAfter
<1>3. MarksOnly
      BY <1>2 DEF EnforceStep, SendOrder, Enforce, EnforceKill, EnforceMark, EnforceFault, MarksOnly
<1>4. QED
      BY <1>1, <1>3
-----------------------------------------------------------------------------
(* The number of recorded evaluations: a step adds at most one. *)

FiniteTurns == \A s \in Sessions : IsFiniteSet(Recorded(s))

LEMMA NothingRecorded ==
    ASSUME \A j \in Requests : inv'[j].recorded = inv[j].recorded
    PROVE  \A s \in Sessions : Recorded(s)' = Recorded(s)
BY DEF Recorded

LEMMA OneRecorded ==
    ASSUME FiniteTurns, NEW i \in Requests, OthersKept(i),
           ~inv[i].recorded, inv'[i].recorded
    PROVE  /\ \A s \in Sessions : IsFiniteSet(Recorded(s)')
           /\ Cardinality(Recorded(Session(i))') = Cardinality(Recorded(Session(i))) + 1
           /\ \A s \in Sessions \ {Session(i)} : Recorded(s)' = Recorded(s)
<1>1. \A s \in Sessions \ {Session(i)} : Recorded(s)' = Recorded(s)
      BY DEF Recorded, OthersKept
<1>2. /\ Recorded(Session(i))' = Recorded(Session(i)) \cup {i}
      /\ i \notin Recorded(Session(i))
      BY DEF Recorded, OthersKept
<1>3. Session(i) \in Sessions /\ IsFiniteSet(Recorded(Session(i)))
      BY RequestFacts DEF FiniteTurns
<1>4. /\ IsFiniteSet(Recorded(Session(i)) \cup {i})
      /\ Cardinality(Recorded(Session(i)) \cup {i}) = Cardinality(Recorded(Session(i))) + 1
      BY <1>2, <1>3, FS_AddElement
<1>5. QED
      BY <1>1, <1>2, <1>4 DEF FiniteTurns
-----------------------------------------------------------------------------
(***************************************************************************)
(* Neither a row nor a read of one ever counts more turns than were        *)
(* recorded: what overlaps reads the same count and adds one to it.        *)
(***************************************************************************)
CountInv ==
    /\ FiniteTurns
    /\ \A s \in Sessions : registry[s].seen <= Cardinality(Recorded(s))
    /\ \A i \in Requests : Judging(i) => inv[i].seen <= Cardinality(Recorded(Session(i)))

LEMMA CountInit == Init => CountInv
<1> SUFFICES ASSUME Init PROVE CountInv
    OBVIOUS
<1>1. \A s \in Sessions : Recorded(s) = {} /\ registry[s].seen = 0
      BY DEF Init, DispatcherInit, RegistryInit, NewInvocation, NoRow, Recorded
<1>2. \A i \in Requests : ~Judging(i)
      BY DEF Init, DispatcherInit, NewInvocation, Judging
<1>3. QED
      BY <1>1, <1>2, FS_EmptySet DEF CountInv, FiniteTurns

LEMMA CountTypes ==
    ASSUME TypeOK, FiniteTurns, NEW s \in Sessions
    PROVE  registry[s].seen \in Nat /\ Cardinality(Recorded(s)) \in Nat
BY FS_CardinalityType DEF TypeOK, Row, FiniteTurns

LEMMA CountNext ==
    ASSUME IInv, IInv', CountInv, [Next]_vars
    PROVE  CountInv'
<1>0. /\ TypeOK /\ TypeOK' /\ FiniteTurns
      /\ \A i \in Requests : Session(i) \in Sessions
      /\ \A i \in Requests : inv[i].seen \in Nat /\ inv'[i].seen \in Nat
      BY RequestFacts DEF IInv, CountInv, TypeOK, Invocation
<1>1. ASSUME \A j \in Requests : inv'[j].recorded = inv[j].recorded,
             \A s \in Sessions : registry'[s].seen = registry[s].seen,
             \A j \in Requests :
                \/ Judging(j)' => Judging(j) /\ inv'[j].seen = inv[j].seen
                \/ inv'[j].seen = registry[Session(j)].seen
      PROVE  CountInv'
      BY <1>0, <1>1, NothingRecorded DEF CountInv, FiniteTurns
<1>2. ASSUME NEW i \in Requests, DispatchStep(i), Lands(i)
      PROVE  CountInv'
  <2>1. ~inv[i].recorded /\ inv'[i].recorded /\ OthersKept(i) /\ Judging(i)
        BY <1>2, DispatchIsLocal DEF IInv, RequestInv, StageFacts, Lands, At, Judging
  <2>2. /\ FiniteTurns'
        /\ Cardinality(Recorded(Session(i))') = Cardinality(Recorded(Session(i))) + 1
        /\ \A s \in Sessions \ {Session(i)} : Recorded(s)' = Recorded(s)
        BY <1>0, <2>1, OneRecorded DEF FiniteTurns
  <2>3. \A s \in Sessions : Cardinality(Recorded(s)) \in Nat
        BY <1>0, CountTypes
  <2>4. ASSUME NEW s \in Sessions PROVE registry'[s].seen <= Cardinality(Recorded(s)')
    <3>1. CASE s = Session(i)
          BY <1>0, <1>2, <2>1, <2>2, <2>3, <3>1 DEF CountInv, Lands
    <3>2. CASE s # Session(i)
          BY <1>2, <2>2, <3>2 DEF CountInv, Lands
    <3>3. QED
          BY <3>1, <3>2
  <2>5. ASSUME NEW j \in Requests, Judging(j)'
        PROVE  inv'[j].seen <= Cardinality(Recorded(Session(j))')
    <3>1. j # i /\ inv'[j] = inv[j] /\ Judging(j)
          BY <1>2, <2>1, <2>5 DEF Lands, OthersKept, Judging
    <3>2. inv[j].seen <= Cardinality(Recorded(Session(j)))
          BY <3>1 DEF CountInv
    <3>3. CASE Session(j) = Session(i)
          BY <1>0, <2>2, <2>3, <3>1, <3>2, <3>3
    <3>4. CASE Session(j) # Session(i)
          BY <1>0, <2>2, <3>1, <3>2, <3>4
    <3>5. QED
          BY <3>3, <3>4
  <2>6. QED
        BY <2>2, <2>4, <2>5 DEF CountInv
<1>3. ASSUME NEW i \in Requests, DispatchStep(i), ~Lands(i)
      PROVE  CountInv'
  <2>1. OthersKept(i) /\ (Opens(i) \/ GoesOn(i) \/ Rests(i))
        BY <1>0, <1>3, DispatchIsLocal, TurnsOfDispatch
  <2>2. QED
        BY <1>1, <2>1 DEF Opens, GoesOn, Rests, RowsKept, OthersKept, Judging
<1>4. ASSUME NEW m \in Requests, AlertStep(m)
      PROVE  CountInv'
      BY <1>1, <1>4, TurnsOfAlert DEF RowsKept, Judging
<1>5. ASSUME NEW o \in Orders, EnforceStep(o)
      PROVE  CountInv'
      BY <1>1, <1>5, TurnsOfEnforce DEF MarksOnly, Judging
<1>6. ASSUME NEW s \in Sessions, Expire(s)
      PROVE  CountInv'
  <2>1. inv' = inv /\ \A t \in Sessions : registry'[t].seen \in {registry[t].seen, 0}
        BY <1>6 DEF Expire, ExpireSession, NoRow, IInv, TypeOK
  <2>2. \A t \in Sessions : Recorded(t)' = Recorded(t)
        BY <2>1, NothingRecorded
  <2>3. \A t \in Sessions : Cardinality(Recorded(t)) \in Nat
        BY <1>0, CountTypes
  <2>4. ASSUME NEW t \in Sessions PROVE registry'[t].seen <= Cardinality(Recorded(t)')
    <3>1. registry[t].seen <= Cardinality(Recorded(t))
          BY DEF CountInv
    <3>2. QED
          BY <2>1, <2>2, <2>3, <3>1
  <2>5. QED
        BY <1>0, <2>1, <2>2, <2>4 DEF CountInv, FiniteTurns, Judging
<1>7. CASE UNCHANGED vars
      BY <1>1, <1>7 DEF vars, Judging
<1>8. QED
      BY <1>2, <1>3, <1>4, <1>5, <1>6, <1>7 DEF Next

LEMMA CountCorrect == Spec => []CountInv
BY CountInit, CountNext, InvCorrect, PTL DEF Spec

(***************************************************************************)
(* Overlapping prompts may lose a turn of a session but never invent one:  *)
(* prompts_seen is at most the number of recorded evaluations, whatever    *)
(* overlaps, times out, expires or dies (dispatcher.py's read of the row   *)
(* and its later write of seen + 1).                                       *)
(***************************************************************************)
THEOREM NoTurnIsInvented == Spec => []SeenIsNotOvercounted
<1>1. CountInv => SeenIsNotOvercounted
      BY DEF CountInv, SeenIsNotOvercounted, Recorded
<1>2. QED
      BY <1>1, CountCorrect, PTL
-----------------------------------------------------------------------------
(***************************************************************************)
(* A client that waits for its answer, and rows that do not expire: one    *)
(* prompt of a session is in flight, the row counts every turn, what an    *)
(* invocation read still stands when it writes, and a recorded block is    *)
(* neither overwritten nor overtaken by a prompt that is still judged.     *)
(***************************************************************************)
Alone == \A i, j \in Requests :
    Session(i) = Session(j) /\ InFlight(i) /\ InFlight(j) => i = j

ExactCount ==
    /\ \A s \in Sessions : registry[s].seen = Cardinality(Recorded(s))
    /\ \A i \in Requests : Judging(i) => inv[i].seen = Cardinality(Recorded(Session(i)))

DoorClosed == \A j \in Requests : Blocked(j) =>
    /\ registry[Session(j)].status = "terminated"
    /\ \A i \in Requests : Session(i) = Session(j) => ~Judging(i)

SerialInv == Alone /\ FiniteTurns /\ ExactCount /\ DoorClosed

LEMMA SerialInit == Init => SerialInv
<1> SUFFICES ASSUME Init PROVE SerialInv
    OBVIOUS
<1>1. \A s \in Sessions : Recorded(s) = {} /\ registry[s].seen = 0
      BY DEF Init, DispatcherInit, RegistryInit, NewInvocation, NoRow, Recorded
<1>2. \A i \in Requests : ~Judging(i) /\ ~InFlight(i) /\ ~Blocked(i)
      BY DEF Init, DispatcherInit, NewInvocation, Judging, InFlight, Blocked
<1>3. QED
      BY <1>1, <1>2, FS_EmptySet DEF SerialInv, Alone, ExactCount, DoorClosed, FiniteTurns

\* A step that records nothing, keeps the counts and never reopens a session.
LEMMA SerialQuiet ==
    ASSUME IInv, SerialInv, MarksOnly,
           \A j \in Requests : inv'[j].recorded = inv[j].recorded,
           \A j \in Requests : Blocked(j)' => Blocked(j),
           \A j \in Requests : InFlight(j)' => InFlight(j),
           \A j \in Requests : Judging(j)' => Judging(j) /\ inv'[j].seen = inv[j].seen
    PROVE  SerialInv'
<1>0. \A i \in Requests : Session(i) \in Sessions
      BY RequestFacts
<1>1. \A s \in Sessions : Recorded(s)' = Recorded(s)
      BY NothingRecorded
<1>2. Alone' /\ FiniteTurns'
      BY <1>1 DEF SerialInv, Alone, FiniteTurns
<1>3. ExactCount'
      BY <1>0, <1>1 DEF SerialInv, ExactCount, MarksOnly
<1>4. DoorClosed'
      BY <1>0 DEF SerialInv, DoorClosed, MarksOnly
<1>5. QED
      BY <1>2, <1>3, <1>4 DEF SerialInv

LEMMA SerialOpens ==
    ASSUME Serialized, IInv, SerialInv, NEW i \in Requests, OthersKept(i), Opens(i)
    PROVE  SerialInv'
<1>0. \A j \in Requests : Session(j) \in Sessions
      BY RequestFacts
<1>1. \A j \in Requests : inv'[j].recorded = inv[j].recorded /\ inv'[j].verdict = inv[j].verdict
      BY DEF OthersKept, Opens
<1>2. \A s \in Sessions : Recorded(s)' = Recorded(s)
      BY <1>1, NothingRecorded
<1>3. \A j \in Requests \ {i} : /\ InFlight(j)' <=> InFlight(j)
                                /\ Judging(j)' <=> Judging(j)
                                /\ Session(j) = Session(i) => ~InFlight(j)
      BY DEF OthersKept, Opens, InFlight, Judging
<1>4. Alone' /\ FiniteTurns'
      BY <1>2, <1>3 DEF SerialInv, Alone, FiniteTurns
<1>5. ExactCount'
  <2>1. \A s \in Sessions : registry'[s].seen = Cardinality(Recorded(s)')
        BY <1>2 DEF SerialInv, ExactCount, Opens, RowsKept
  <2>2. inv'[i].seen = Cardinality(Recorded(Session(i))')
        BY <1>0, <1>2 DEF SerialInv, ExactCount, Opens
  <2>3. \A j \in Requests \ {i} : Judging(j)' => inv'[j].seen = Cardinality(Recorded(Session(j))')
        BY <1>0, <1>2, <1>3 DEF SerialInv, ExactCount, OthersKept
  <2>4. QED
        BY <2>1, <2>2, <2>3 DEF ExactCount
<1>6. DoorClosed'
  <2>1. \A j \in Requests : Blocked(j)' <=> Blocked(j)
        BY <1>1 DEF Blocked
  <2>2. \A j \in Requests : Blocked(j) => Session(j) # Session(i)
        BY DEF SerialInv, DoorClosed, Opens
  <2>3. QED
        BY <1>0, <1>3, <2>1, <2>2 DEF SerialInv, DoorClosed, Opens, RowsKept
<1>7. QED
      BY <1>4, <1>5, <1>6 DEF SerialInv

LEMMA SerialLands ==
    ASSUME IInv, SerialInv, NEW i \in Requests, OthersKept(i), Lands(i)
    PROVE  SerialInv'
<1>0. /\ \A j \in Requests : Session(j) \in Sessions
      /\ \A j \in Requests : inv[j].seen \in Nat
      BY RequestFacts DEF IInv, TypeOK, Invocation
<1>1. ~inv[i].recorded /\ inv'[i].recorded /\ Judging(i) /\ InFlight(i)
      BY DEF IInv, RequestInv, StageFacts, Lands, At, Judging, InFlight
<1>2. /\ \A s \in Sessions : IsFiniteSet(Recorded(s)')
      /\ Cardinality(Recorded(Session(i))') = Cardinality(Recorded(Session(i))) + 1
      /\ \A s \in Sessions \ {Session(i)} : Recorded(s)' = Recorded(s)
      BY <1>1, OneRecorded DEF SerialInv
<1>3. \A j \in Requests \ {i} : /\ InFlight(j)' <=> InFlight(j)
                                /\ Judging(j)' <=> Judging(j)
                                /\ Blocked(j)' <=> Blocked(j)
                                /\ Session(j) = Session(i) => ~InFlight(j) /\ ~Judging(j)
      BY <1>1 DEF OthersKept, SerialInv, Alone, InFlight, Judging, Blocked
<1>4. Alone' /\ FiniteTurns'
      BY <1>1, <1>2, <1>3 DEF SerialInv, Alone, FiniteTurns
<1>5. ExactCount'
  <2>1. \A s \in Sessions : registry'[s].seen = Cardinality(Recorded(s)')
        BY <1>0, <1>1, <1>2 DEF SerialInv, ExactCount, Lands
  <2>2. \A j \in Requests : Judging(j)' => j # i /\ Session(j) # Session(i)
        BY <1>3 DEF Lands
  <2>3. QED
        BY <1>0, <1>2, <1>3, <2>1, <2>2 DEF SerialInv, ExactCount, OthersKept
<1>6. DoorClosed'
  <2>1. \A j \in Requests \ {i} : Blocked(j) => Session(j) # Session(i)
        BY <1>1 DEF SerialInv, DoorClosed
  <2>2. Blocked(i)' => registry'[Session(i)].status = "terminated"
        BY DEF Lands, Blocked, StatusAfter
  <2>3. \A j \in Requests : Session(j) = Session(i) => ~Judging(j)'
        BY <1>3 DEF Lands
  <2>4. QED
        BY <1>0, <1>3, <2>1, <2>2, <2>3 DEF SerialInv, DoorClosed, Lands
<1>7. QED
      BY <1>4, <1>5, <1>6 DEF SerialInv

LEMMA SerialNext ==
    ASSUME Serialized, ~RowsExpire, IInv, SerialInv, [Next]_vars
    PROVE  SerialInv'
<1>0. TypeOK
      BY DEF IInv
<1>1. ASSUME NEW i \in Requests, DispatchStep(i)
      PROVE  SerialInv'
  <2>1. OthersKept(i)
        BY <1>0, <1>1, DispatchIsLocal
  <2>2. CASE GoesOn(i)
    <3>1. ~inv[i].recorded
          BY <2>2 DEF GoesOn, Judging, IInv, RequestInv, StageFacts
    <3>2. QED
          BY <2>1, <2>2, <3>1, SerialQuiet
          DEF GoesOn, RowsKept, MarksOnly, OthersKept, Judging, InFlight, Blocked
  <2>3. CASE Rests(i)
        BY <2>1, <2>3, SerialQuiet
        DEF Rests, RowsKept, MarksOnly, OthersKept, Judging, InFlight, Blocked
  <2>4. QED
        BY <1>1, <2>1, <2>2, <2>3, TurnsOfDispatch, SerialOpens, SerialLands
<1>2. ASSUME inv' = inv, MarksOnly
      PROVE  SerialInv'
      BY <1>2, SerialQuiet DEF Blocked, InFlight, Judging
<1>3. ASSUME NEW m \in Requests, AlertStep(m)
      PROVE  SerialInv'
      BY <1>2, <1>3, TurnsOfAlert DEF RowsKept, MarksOnly
<1>4. ASSUME NEW o \in Orders, EnforceStep(o)
      PROVE  SerialInv'
      BY <1>2, <1>4, TurnsOfEnforce
<1>5. ASSUME NEW s \in Sessions, Expire(s)
      PROVE  FALSE
      BY <1>5 DEF Expire
<1>6. CASE UNCHANGED vars
      BY <1>2, <1>6 DEF vars, MarksOnly
<1>7. QED
      BY <1>1, <1>3, <1>4, <1>5, <1>6 DEF Next

LEMMA SerialCorrect ==
    ASSUME Serialized, ~RowsExpire
    PROVE  Spec => []SerialInv
BY SerialInit, SerialNext, InvCorrect, PTL DEF Spec

(***************************************************************************)
(* Where a client waits for its answers, no turn is lost: prompts_seen,    *)
(* from which the dispatcher tells a first prompt from a later one, is the *)
(* number of evaluations recorded, until the row expires.                  *)
(***************************************************************************)
THEOREM TurnsAreCounted == ~RowsExpire => (Spec => []EveryTurnIsCounted)
<1>1. CASE Serialized /\ ~RowsExpire
  <2>1. SerialInv => EveryTurnIsCounted
        BY DEF SerialInv, ExactCount, EveryTurnIsCounted, Recorded
  <2>2. QED
        BY <1>1, <2>1, SerialCorrect, PTL
<1>2. CASE ~Serialized
  <2>1. EveryTurnIsCounted
        BY <1>2 DEF EveryTurnIsCounted
  <2>2. QED
        BY <2>1, PTL
<1>3. QED
      BY <1>1, <1>2

(***************************************************************************)
(* The door stays closed: once a block is recorded on a session, the read  *)
(* of its row (dispatcher.py:435 writes it, the next invocation reads it)  *)
(* lets no later prompt of it past, provided the client sends one prompt   *)
(* at a time and the row lives.  v_revived shows that the first proviso is *)
(* needed.                                                                 *)
(***************************************************************************)
THEOREM DoorStaysClosed ==
    Serialized /\ ~RowsExpire => (Spec => RefusedOnceTerminated)
<1> SUFFICES ASSUME Serialized, ~RowsExpire PROVE Spec => RefusedOnceTerminated
    OBVIOUS
<1>1. ASSUME IInv, SerialInv, [Next]_vars,
             NEW i \in Requests, NEW j \in Requests, Begins(i), Session(i) = Session(j)
      PROVE  ~Blocked(j)
  <2>0. TypeOK /\ inv[i].pc = "idle" /\ inv'[i].pc = "ensure" /\ inv' # inv
        BY <1>1 DEF IInv, Begins, At
  <2>1. PICK k \in Requests : DispatchStep(k)
        BY <1>1, <2>0, TurnsOfAlert, TurnsOfEnforce DEF Next, vars, Expire
  <2>2. k = i
        BY <2>0, <2>1, DispatchIsLocal DEF OthersKept
  <2>3. Opens(i)
        BY <1>1, <2>0, <2>1, <2>2, TurnsOfDispatch DEF GoesOn, Lands, Rests, Judging, At
  <2>4. QED
        BY <1>1, <2>3 DEF Opens, SerialInv, DoorClosed
<1>2. IInv /\ SerialInv /\ [Next]_vars =>
        [\A i, j \in Requests : Begins(i) /\ Session(i) = Session(j) => ~Blocked(j)]_vars
      BY <1>1
<1>3. QED
      BY <1>2, SerialCorrect, InvCorrect, PTL DEF Spec, RefusedOnceTerminated
=============================================================================
