--------------------------- MODULE Tier3Correlation ---------------------------
(* The Tier 3 Lambda (src/vardoger/tier3/handler.py) on its schedule: it      *)
(* reads the last window of the prompt history while Tier 2 writes it, finds  *)
(* the attacks that many sessions share, records them, and orders the         *)
(* sessions killed.                                                           *)
(*                                                                            *)
(* A run is one event of the schedule.  A run that dies is invoked again, as  *)
(* asynchronous invocations are, at once or later; the schedule may also      *)
(* deliver one event as two runs.                                             *)
EXTENDS Tier3Rules, Bags

CONSTANTS
    Prompts,          \* 1..n, in the order in which they may be ingested
    Sessions,         \* numbers, in the order of their names
    Session,          \* [Prompts -> Sessions]
    Scenarios,        \* [said: [Prompts -> row fields], risks: [Sessions -> risk]]
    Runs,
    Due,              \* [Runs -> tick]: when the schedule fires it
    TIER3_ENABLED,
    KillGuards,       \* the global, the Tier 3 and the function guard all stand open
    Policies,         \* what the scope's policy may be when it is read
    COOLDOWN,         \* ticks
    LastPrompt,       \* bound on the tick at which a prompt is ingested
    MaxClock,         \* bound on the ticks that pass
    MaxFaults         \* bound on failing calls and dying runs

\* The history numbers its prompts in their order; a policy's threshold, the risks,
\* the counts and the ticks are whole numbers, and a burst is of one session at least.
ASSUME HistoryAssumption ==
    /\ Prompts \subseteq Nat /\ IsFiniteSet(Prompts) /\ Session \in [Prompts -> Sessions]
    /\ \A sc \in Scenarios :
          /\ \A p \in Prompts : sc.said[p].risk \in Nat /\ sc.said[p].repeated \in Nat
          /\ \A s \in Sessions : sc.risks[s].score \in Nat /\ sc.risks[s].repeated \in Nat

ASSUME ScheduleAssumption ==
    /\ \A policy \in Policies : policy.mode # "off" => policy.killThreshold \in Int
    /\ MIN_SESSIONS \in Nat \ {0} /\ WINDOW \in Nat /\ Due \in [Runs -> Nat \ {0}]
    /\ CATEGORY_BURST_MIN_SESSIONS \in Nat \ {0} /\ SESSION_RISK_BURST_MIN_SESSIONS \in Nat \ {0}
    /\ MaxClock \in Nat \ {0} /\ MaxFaults \in Nat

VARIABLES
    scene,      \* what is said, and the session risk table
    ingested,   \* [Prompts -> tick, 0 before]
    judged,     \* prompts beside which Tier 2 wrote its result
    run,        \* [Runs -> what it is doing]
    table,      \* the findings among the detection events
    orders,     \* bag of <<burst, session>>: the kills ordered
    clock,
    faults

history == <<scene, ingested, judged>>
vars == <<history, run, table, orders, clock, faults>>

Idle == [pc |-> "due", tries |-> 0, now |-> 0, rows |-> {}, todo |-> {}, finding |-> {},
         left |-> {}, policy |-> [mode |-> "off"], clean |-> TRUE]

Init ==
    /\ scene \in Scenarios
    /\ ingested = [p \in Prompts |-> 0]
    /\ judged = {}
    /\ run = [n \in Runs |-> Idle]
    /\ table = {}
    /\ orders = EmptyBag
    /\ clock = 1
    /\ faults = 0

-----------------------------------------------------------------------------
(* The environment: prompts arrive, Tier 2 judges them, time passes.         *)

Ingest(p) ==
    /\ ingested[p] = 0 /\ clock <= LastPrompt
    /\ \A q \in Prompts : q < p => ingested[q] # 0
    /\ ingested' = [ingested EXCEPT ![p] = clock]
    /\ UNCHANGED <<scene, judged, run, table, orders, clock, faults>>

Judge(p) ==
    /\ ingested[p] # 0 /\ p \notin judged /\ scene.said[p].category # ""
    /\ judged' = judged \cup {p}
    /\ UNCHANGED <<scene, ingested, run, table, orders, clock, faults>>

\* The schedule is kept: a run that is due starts before the tick is over.
Tick ==
    /\ clock < MaxClock
    /\ \A n \in Runs : Due[n] <= clock => run[n].tries > 0
    /\ clock' = clock + 1
    /\ UNCHANGED <<history, run, table, orders, faults>>

-----------------------------------------------------------------------------
(* The steps of a run.                                                       *)

At(n, pc) == run[n].pc = pc

Well == UNCHANGED <<history, clock, faults>>

Fault == /\ faults < MaxFaults
         /\ faults' = faults + 1
         /\ UNCHANGED <<history, clock>>

RowOf(p) ==
    [id |-> p, session |-> Session[p], at |-> ingested[p], text |-> scene.said[p].text,
     shape |-> scene.said[p].shape, signatures |-> scene.said[p].signatures,
     category |-> IF p \in judged THEN scene.said[p].category ELSE "",
     risk |-> IF p \in judged THEN scene.said[p].risk ELSE 0,
     repeated |-> IF p \in judged THEN scene.said[p].repeated ELSE 0]

\* Mutant: a prompt on the edge of the window is left to the run before.
OpenWindow(now) == {p \in Prompts : ingested[p] # 0 /\ ingested[p] > now - WINDOW}

InWindow(now) == {p \in Prompts : ingested[p] # 0 /\ ingested[p] >= now - WINDOW}

\* The time is read, then the history is scanned.
Scan(n) ==
    /\ At(n, "due") /\ Due[n] <= clock
    /\ run' = [run EXCEPT ![n] =
                  [Idle EXCEPT !.pc = IF TIER3_ENABLED THEN "analyse" ELSE "done",
                               !.tries = run[n].tries + 1, !.now = clock,
                               !.rows = IF TIER3_ENABLED
                                        THEN {RowOf(p) : p \in InWindow(clock)} ELSE {}]]
    /\ UNCHANGED <<table, orders>> /\ Well

\* The policy is read, then the session risks; the rest is worked out from the
\* rows that were scanned.
Analyse(n, policy) ==
    LET rows == run[n].rows
        quiet == policy.mode = "off" \/ Cardinality(SessionsOf(rows)) < MIN_SESSIONS
    IN  /\ At(n, "analyse")
        /\ IF quiet
           THEN run' = [run EXCEPT ![n].pc = "done", ![n].policy = policy, ![n].rows = {}]
           ELSE \E kept \in Deduplicated(Findings(rows, scene.risks)) :
                    run' = [run EXCEPT ![n].pc = "check", ![n].policy = policy,
                                       ![n].rows = {}, ![n].todo = kept]
        /\ UNCHANGED <<table, orders>> /\ Well

\* The findings are worked off by the rank of their methods.
Foremost(n) ==
    {f \in run[n].todo : \A g \in run[n].todo : Rank[f.method] <= Rank[g.method]}

Cooling(n, f) ==
    \E g \in table : /\ g.category = f.category /\ g.sessions = f.sessions
                     /\ g.at >= run[n].now - COOLDOWN

Next1(n, f) == [run[n] EXCEPT !.pc = "check", !.todo = @ \ {f}, !.finding = {}]

\* The cooldown scan reads ten events before it filters them, so it finds what it
\* looks for only when that is among them.
Check(n) ==
    /\ At(n, "check")
    /\ \/ /\ run[n].todo = {}
          /\ run' = [run EXCEPT ![n].pc = "done"]
       \/ \E f \in Foremost(n) :
              \/ /\ Cooling(n, f)
                 /\ run' = [run EXCEPT ![n] = Next1(n, f)]
              \/ run' = [run EXCEPT ![n].pc = "put", ![n].finding = {f}]
    /\ UNCHANGED <<table, orders>> /\ Well

Current(n) == CHOOSE f \in run[n].finding : TRUE

Fatal(n) == Kills(Current(n), run[n].policy, KillGuards)

\* Mutant: the put is not conditional.
Overwrites(f) == FALSE

Recorded(f) == \E g \in table : g.burst = f.burst

Entry(n) ==
    LET f == Current(n)
    IN  [burst |-> f.burst, category |-> f.category, sessions |-> f.sessions,
         score |-> f.score, kill |-> Fatal(n), at |-> run[n].now, by |-> n,
         try |-> run[n].tries, policy |-> run[n].policy]

\* Mutant: the kill is ordered whoever put the finding.
PutRegardless(n) ==
    LET f == Current(n)
    IN  /\ At(n, "put")
        /\ table' = IF Recorded(f) THEN table ELSE table \cup {Entry(n)}
        /\ run' = [run EXCEPT ![n] = IF Fatal(n)
                                     THEN [@ EXCEPT !.pc = "order", !.left = f.sessions]
                                     ELSE Next1(n, f)]
        /\ UNCHANGED orders /\ Well

\* The finding is put on condition that its burst is not there yet; the kill is
\* ordered only by the run that put it.  The outcome row is best effort.
Put(n) ==
    LET f == Current(n)
    IN  /\ At(n, "put")
        /\ IF Recorded(f)
           THEN run' = [run EXCEPT ![n] = Next1(n, f)] /\ UNCHANGED table
           ELSE /\ table' = table \cup {Entry(n)}
                /\ run' = [run EXCEPT ![n] = IF Fatal(n)
                                             THEN [@ EXCEPT !.pc = "order", !.left = f.sessions]
                                             ELSE Next1(n, f)]
        /\ UNCHANGED orders /\ Well

\* The answer to the put is lost, and the client, sending it again, is told that
\* the burst is there.
PutAgain(n) ==
    LET f == Current(n)
    IN  /\ At(n, "put") /\ ~Recorded(f) /\ Fault
        /\ table' = table \cup {Entry(n)}
        /\ run' = [run EXCEPT ![n] = [Next1(n, f) EXCEPT !.clean = FALSE]]
        /\ UNCHANGED orders

First(n, s) == s \in run[n].left /\ \A t \in run[n].left : s <= t

\* Mutant: the loop over the sessions ends with the first order.
OrdersOne(n, s, clean) == run' = [run EXCEPT ![n] = [Next1(n, Current(n)) EXCEPT !.left = {}]]

\* The sessions are ordered killed in the order of their names.
Ordered(n, s, clean) ==
    LET left == run[n].left \ {s}
        after == IF left = {} THEN Next1(n, Current(n)) ELSE run[n]
    IN  run' = [run EXCEPT ![n] = [after EXCEPT !.left = left, !.clean = @ /\ clean]]

Order(n) ==
    /\ At(n, "order")
    /\ \E s \in Sessions : /\ First(n, s) /\ Ordered(n, s, TRUE)
                          /\ orders' = orders (+) SetToBag({<<Current(n).burst, s>>})
    /\ UNCHANGED table /\ Well

\* Refused for one session: logged, and on to the next.
OrderRefused(n) ==
    /\ At(n, "order") /\ Fault
    /\ \E s \in Sessions : First(n, s) /\ Ordered(n, s, FALSE)
    /\ UNCHANGED <<table, orders>>

\* The run dies, or a call raises through the handler: the invocation is retried.
Die(n) ==
    /\ run[n].pc \notin {"due", "done"} /\ Fault
    /\ run' = [run EXCEPT ![n] = [Idle EXCEPT !.tries = run[n].tries]]
    /\ UNCHANGED <<table, orders>>

Step(n) ==
    \/ Scan(n) \/ \E policy \in Policies : Analyse(n, policy)
    \/ Check(n) \/ Put(n) \/ Order(n)

Failure(n) == PutAgain(n) \/ Die(n) \/ OrderRefused(n)

Next ==
    \/ Tick
    \/ \E p \in Prompts : Ingest(p) \/ Judge(p)
    \/ \E n \in Runs : Step(n) \/ Failure(n)

Spec == Init /\ [][Next]_vars

-----------------------------------------------------------------------------
(* Properties.                                                               *)

TypeOK ==
    /\ scene \in Scenarios
    /\ ingested \in [Prompts -> 0..clock]
    /\ \A p \in judged : ingested[p] # 0
    /\ \A n \in Runs : /\ run[n].pc \in {"due", "analyse", "check", "put", "order", "done"}
                       /\ run[n].left \subseteq Sessions
                       /\ At(n, "put") \/ At(n, "order") <=> run[n].finding # {}
                       /\ At(n, "order") <=> run[n].left # {}
    /\ \A f \in table : f.sessions \subseteq Sessions /\ f.score \in 0..Percent(100)
    /\ IsABag(orders)
    /\ clock \in 1..MaxClock /\ faults \in 0..MaxFaults

\* However runs overlap, are delivered twice or are retried, a burst is on record
\* once, and no session of it is ordered killed a second time.
BurstIsActedOnOnce ==
    /\ \A f, g \in table : f.burst = g.burst => f = g
    /\ \A x \in BagToSet(orders) : orders[x] = 1

Book == {[burst |-> f.burst, sessions |-> f.sessions, kill |-> f.kill] : f \in table}

KillsOf(n) == IF At(n, "order") THEN {Current(n).burst} \X run[n].left ELSE {}

Promise == INSTANCE BurstPromise WITH
               book <- Book, owed <- UNION {KillsOf(n) : n \in Runs}, given <- orders

\* What the runs do to the table and to the enforcement function keeps the promise
\* of BurstPromise: no run changes an entry or takes it back, a kill is ordered only
\* by the run that put the entry that calls for it, after it did, and one that was
\* refused, or was left by a run that died, is ordered by no retry and no other run
\* (handler.py:942-949, 993-1035, 1065-1067).
KillsKeepThePromise == Promise!Spec

Says(p, hints, categories) ==
    \/ scene.said[p].signatures \cap hints # {}
    \/ p \in judged /\ scene.said[p].category \in categories

\* Many users asking the same ordinary question are never killed for it, however
\* alike the prompts and however risky the sessions: some prompt of a killed group
\* had a critical category or matched a critical signature.
OrdinaryTrafficIsSpared ==
    \A x \in BagToSet(orders) :
        \E f \in table, p \in Prompts :
            /\ f.burst = x[1] /\ x[2] \in f.sessions
            /\ Session[p] \in f.sessions
            /\ Says(p, CRITICAL_SIGNATURE_HINTS \cup {"prompt", "jailbreak"}, CRITICAL_CATEGORIES)

Sent(s, text) == \E p \in Prompts :
                     Session[p] = s /\ ingested[p] # 0 /\ scene.said[p].text = text

\* At the default threshold only a replay kills: the very same prompt, in every
\* session that is ordered killed and in at least as many as the policy asks for.
\* Near-duplicates, shapes and clusters fall short of it.
OnlyReplaysKillByDefault ==
    \A x \in BagToSet(orders), f \in table :
        (f.burst = x[1] /\ f.policy.killThreshold >= 95) =>
            /\ Cardinality(f.sessions) >= f.policy.minSessions
            /\ \E p \in Prompts : \A s \in f.sessions : Sent(s, scene.said[p].text)

\* A finding that says its sessions were killed was followed by an order for each
\* of them, if the run that wrote it had no call fail and did not die.
RecordedKillIsOrdered ==
    \A f \in table :
        LET r == run[f.by]
        IN  (f.kill /\ r.tries = f.try /\ r.clean /\ r.pc = "done") =>
                \A s \in f.sessions : BagIn(<<f.burst, s>>, orders)

Spoken(tick, text) == {Session[p] : p \in {q \in Prompts : /\ ingested[q] = tick
                                                          /\ scene.said[q].text = text}}

\* f keeps the sessions of a group on record, or it is why they are not: it has the
\* name that their burst would have, of a text that all of them sent.
Covers(f, group) ==
    \/ group \subseteq f.sessions
    \/ \E p \in Prompts : /\ f.burst.key.texts = {scene.said[p].text}
                          /\ \A s \in group : Sent(s, scene.said[p].text)

\* No replay slips through between two windows: when the schedule was kept and
\* nothing failed, one prompt sent at one time in enough sessions is on record,
\* unless a burst of their text already is.
NoReplaySlipsBy ==
    (faults = 0 /\ \A n \in Runs : At(n, "done") /\ run[n].policy.mode # "off") =>
        \A tick \in 1..(Max({Due[n] : n \in Runs}) - 1) : \A p \in Prompts :
            LET group == Spoken(tick, scene.said[p].text)
            IN  Cardinality(group) >= MIN_SESSIONS => \E f \in table : Covers(f, group)
=============================================================================
