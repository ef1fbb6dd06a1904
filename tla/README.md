# A TLA+ model of Agent Vardøger

Agent Vardøger watches the prompts that reach an AI agent through an AWS AgentCore gateway, and
stops the sessions that attack it. These modules model how it decides, how it kills, and what it
tells an operator, and check and prove what a reader of its documentation relies on. Paths below
are relative to the repository (`adapters/agentcore/dispatcher.py` is under `src/`).

## The system

### Components, state, operations

| Component | Keeps | Operations | What makes it correct |
|---|---|---|---|
| **Tier 1 dispatcher** `adapters/agentcore/dispatcher.py` | nothing between events but a warm engine | `lambda_handler`: parse, read the session, judge, record, copy to Tier 2, kill or hand over the kill, answer | nothing reaches the agent unaccounted for; a block always carries a kill; the mark precedes the kill |
| **Session registry** `session_registry.py` | one DynamoDB item per session: status, accumulated risk, prompts seen, kill outcome, TTL | `get_session`, `ensure_session`, `record_session_evaluation`, `mark_session_decision`, `record_kill_outcome` | a terminated session stays refused; risk stays bounded; turns are counted |
| **Enforcement** `enforcement.py` | nothing | `terminate_session_detailed`, around AgentCore's `StopRuntimeSession` | "confirmed" is never said of a session that runs |
| **Alert Lambda** `alerting.py` | the alert queue and its dead-letter queue | kill, note the outcome, mail, Security Hub | a kill order is never lost silently; mails are true |
| **Enforcement Lambda** `enforcement_handler.py` | asynchronous invocations | validate, kill, mark | an order of Tier 2 or 3 ends in a kill or fails loudly |
| **Event parser** `event_parser.py` | nothing | envelope, identity, harvested text | identity is never the caller's choice; everything forwarded is inspected |
| **Detection engine** `vardoger/detection/` | the scanner of a warm container, refreshed | normalise, signatures, hashes, policy rules, prompt and session risk | coverage never shrinks unnoticed; session risk is monotone in what it should be |
| **Tier 2** `vardoger/tier2/handler.py` | prompt history, session risk, detection events, outcome ledger | per prompt: build the context, call the model, accumulate, decide on a kill, order it | each prompt judged once, each kill eligible, what is reported as a kill was ordered |
| **Tier 3** `vardoger/tier3/handler.py` | findings | every 5 minutes: group prompts by six detectors, score, decide, write, order kills | a kill needs every guard; a burst is acted on once |
| **Scope policy** `vardoger/policy.py`, `control_plane/services/policy_service.py` | one record per scope, also holding custom signatures; a 60 s cache per container | load, put, add a custom signature | the version only grows; one writer never wipes what another stores |
| **Control plane** `control_plane/` | a 15 s query cache | dashboard queries, settings, chat console, role checks | a role sees only its routes; a cached answer is of the right scope |
| **Infrastructure** `infra/` | queues, tables, schedules, event sources | redrive, retry, expiry | the queue settings the handlers count on |

### How they interact

```
 client --> gateway --> DISPATCHER --answer--> gateway --> agent runtime
                          |   |  \                            ^   ^
        reads and writes  |   |   \--copy--> intake queue     |   | StopRuntimeSession
                          v   |                  |            |   |
                 SESSION REGISTRY                v            |   |
                          ^   |               TIER 2 --Event--+-> ENFORCEMENT LAMBDA
                          |   v                  |            |        ^
                          | alert queue      history          |        |
                          |   |                  v            |        |
                          +-- ALERT LAMBDA    TIER 3 ---------|--Event-+
                                 \-- SNS mail                 |
                                  \---------------------------+
```

Every box is a Lambda, and Lambda runs as many copies of each as there are events: nothing
serialises two prompts of one session, a prompt and a kill, or two deliveries of one message. The
registry is read whole and written blind, with no condition on the write. Queues deliver at least
once; asynchronous invocations are retried and then dropped; every call can fail, or time out and
have worked. Those are the hard behaviours, and `PROJECT.json` lists each hazard at the line where
it bites.

## The modules

| Module | Models | Extends |
|---|---|---|
| `SessionRegistry` | the registry table; one operator per `update_item` call, DynamoDB expiry | `Naturals` |
| `Enforcement` | `StopRuntimeSession` and the runtime it acts on, per kind of runtime | `SessionRegistry` |
| `Dispatcher` | the REQUEST interceptor, cut at its AWS calls | `Enforcement` |
| `Alerting` | the alert queue, its redrive, the alert Lambda | `Dispatcher` |
| `EnforcementHandler` | kill orders of Tier 2 and 3, their retries, the enforcement Lambda | `Alerting` |
| `Containment` | all of them together; the specification and its properties | `EnforcementHandler` |
| `StopPromise` | what is promised of stopping sessions, abstractly; `Containment` implements it | `Naturals` |
| `ScopeRecord` | the scope's item in `TENANTS_TABLE` and its writers in the control plane | `Integers`, `Sequences` |
| `PolicyCache` | `policy.load` in a container of Tier 2 or 3 | `ScopeRecord` |
| `ScannerRefresh` | the scanner of a warm interceptor: sources, build, refresh | `ScopeRecord` |
| `ScopeConfig` | the three together; the specification and its properties | `PolicyCache`, `ScannerRefresh` |
| `Tier2Rules` | scoring, verdicts, session risk and kill rules of Tier 2, as operators | `FiniteSetsExt`, `Functions` |
| `Tier2Pipeline` | the Tier 2 Lambda on its queue; the specification and its properties | `Tier2Rules` |
| `PromptFate` | the abstract life of a prompt in Tier 2, which `Tier2Pipeline` implements | `Integers` |
| `Tier3Rules` | the six detectors, scores and kill rules of Tier 3, as operators | `FiniteSetsExt` |
| `Tier3Correlation` | the Tier 3 Lambda on its schedule; the specification and its properties | `Tier3Rules`, `Bags` |
| `BurstPromise` | what is promised of an attack that was found, abstractly; `Tier3Correlation` implements it | `Naturals` |
| `MCContainment`, `MCScopeConfig`, `MCTier2`, `MCTier3` | the small instances TLC runs | each its specification |
| `ContainmentProofs` | what each update does to a record; type correctness | `Containment`, `TLAPS` |
| `ContainmentSafety` | what is promised of answers, kills, marks and reports; `Containment` implements `StopPromise` | `ContainmentProofs` |
| `ContainmentTurns` | turns are counted, and the door stays closed | `ContainmentSafety` |
| `ScopeConfigProofs` | freshness of enforcement, the bundled floor, screening, types | `ScopeConfig`, `TLAPS` |
| `SetFacts` | lemmas: minimal sets, least and greatest numbers, images, sums | `FiniteSetsExt`, `Functions`, `TLAPS` |
| `Tier2Proofs` | a prompt is acted on once; the pipeline implements `PromptFate` | `Tier2Pipeline`, `TLAPS` |
| `Tier2Safety` | prompts are accounted for; what kills rest on; scores; shadow mode | `Tier2Proofs`, `SetFacts` |
| `Tier3Proofs` | bursts are acted on once, kills ordered, only attacks killed, no replay missed; `Tier3Correlation` implements `BurstPromise` | `Tier3Correlation`, `SetFacts` |

### Correspondence

**A request** is an element of `Requests`; `Req[i]` says what the parser makes of it: has it an
envelope, does it parse, is there text, was the text cut, is there a source, is its mcp body a
JSON object, does some rule block it alone, and what it adds to the risk of its session. Text,
signatures, scores of individual groups and identities are data and stay out.

**An invocation** `inv[i]` is the local state of `lambda_handler`: `pc` names the next AWS call,
`risk` and `seen` are what it read and later what it judged, and so on. Each action is the code
from one call to the next, with every outcome of the call:

| Action | Code (`dispatcher.py`) | Next |
|---|---|---|
| `RejectStray`, `FailToParse`, `PassWithoutText`, `RefuseUnscopable` | 265-317, in the order of the code | answered |
| `ReadSession` | 323-337: refuse a terminated session, keep what was read | `ensure` |
| `Ensure` | 339: the upsert | `evaluate` |
| `Evaluate` | 348-355 with `risk_scoring.score_session_risk` | `record` |
| `Record` | 360: one blind write of risk, count and status | `report` |
| `Report` | 381-391: build the message, copy it to the intake queue | `kill`, `note`, or answered |
| `InlineKill` | 442-450: gate mode | `note` |
| `NoteKill` | 456: outcome to the registry, best effort | `publish` |
| `PublishAlert` | 482-497 | `fallback`, or answered |
| `FallbackKill` | 498-515 | answered |
| `DetectionFailed`, in each of them | 520-534 | answered by `DETECTION_FAILURE_POLICY` |
| `Crash` | the Lambda dies; the gateway reports an error | answered |

**The registry** keeps `status`, `risk`, `seen`, `kill` and whether a TTL is set. A call that
fails may have taken effect (`RegistryWrites`, `NoteKill`, `PublishAlert`, `StopResults`).

**The alert message** of request `m` is `alert[m]`: queued, killed (the stop was attempted, the
outcome is in the Lambda's copy), done (deleted), dead (dead-lettered), with its receive count.
`AlertKill`, `AlertReport` and `AlertFault` are one receive; a receive that does not end in the
deletion puts the message back.

**Kill orders** are sent for any session at any time: what Tier 2 and Tier 3 decide is not part
of this model, so everything proved here holds whatever they decide.

**Degraded metrics** are kept per request (`degraded[i]`): the alarm an operator gets. The one the
enforcement Lambda raises belongs to no request and is left out.

**Scope configuration.** `record` is the item as last written, `replica` as a lagging replica has it;
a `get_item` may return either. `client[c]` is a control-plane request between its read and the end
of its write, which the SDK sends up to `Attempts` times. `cache[h]`, `load[h]` and `used[h]` are a tier
handler's `_cache` entry, its load in progress and the policy it last acted on. Times are ages: an
age counts from the `now` that `load` samples before it reads, and stops at `TTL`, past which nothing
depends on it. `scanner[c]` is a container's `signature_scanner` with the age of
`_signature_scanner_loaded_at`.

| TLA+ | Code |
|---|---|
| `PutPolicy`, `PolicySaved`, `PolicyUnanswered` | `put_policy`: `get_policy` and the version; one try of `put_item` |
| `AddCustomSignature`, `SignatureStored`, `SignatureUnanswered` | `add_custom_signature`; one try of `update_item` |
| `LoadCached`, `AskTable`, `TableServes`, `LoadReturns`, `LoadFails` | `policy.load`, cut at `get_item` |
| `Built`, `AppendOnly`, `CustomLoaded` | `build_scanner`, `_append_only`, `load_custom_signatures` |
| `Refresh`, `RefreshRaises`, `ColdStart` | `_refresh_signature_scanner_if_needed`, `DetectionEngine.__init__` |

**Tier 2.** A *turn* is what the handler's patterns find in a prompt, with what Tier 1 and the model
say of it. Patterns are matched on several turns joined together, so a turn says which patterns may
open in it and which may close: one that opens in one turn and closes in the next is found in
neither alone. `Tier2Rules` then computes what the code computes, in hundredths where it uses
fractions. A *copy* is one delivery of a prompt; `judged[c]` is the local state of its invocation and
`pc[c]` its next call. `history`, `risk`, `events` and `ledger` are the four tables; `orders`, `raises`
and `earned` count what was done on a prompt's account, `reported` the degraded components.

| Action | Code (`vardoger/tier2/handler.py`) | Next |
|---|---|---|
| `Ingest`, `IngestUnanswered`, `Reject` | `_build_record_context` with the conditional put; its answer lost; a body that cannot be read | `Route`: one of the four paths of `_process_record` |
| `Classify`, `ClassifyBlind`, `ClassifyMisread` | the history query, the model, overrides, category and `_score_prompt` | `assess` |
| `Assess`, `AssessBlind` | the read of the session's risk, accumulation, `evaluate_tier2_kill_eligibility` | `order` or `raise` |
| `Order`, `OrderRefused`, `OrderUnanswered` | `_trigger_enforcement` | `raise` |
| `Raise`, `RaiseUndated`, `RaiseUnanswered` | `_update_session_risk`: two writes | `event` |
| `WriteEvent`, `Record`, `RecordLost` | `_write_detection_event`, `_record_tier2_result` | `book` |
| `Book`, `BookLost` | `_write_tier2_outcome`, which reports what it swallows | done |
| `Raises`, then `Fail`, `FailLost`, `FailRaises` | `lambda_handler`'s except and `_handle_record_error` | done, or back to the queue |
| `Crash` | the Lambda dies; the queue delivers again | queued |

**Tier 3.** A run is one event of the schedule. `Scan` fixes its time and its rows; `Analyse` reads the
policy and the session risks and works out every finding; `Check` is the cooldown, `Put` the
conditional write, `Order` one kill order. Prompts arrive (`Ingest`) and Tier 2 judges them (`Judge`)
at any time, so that a row may be scanned before it is judged. `Die` gives the run back to be tried
again. Which texts are near-duplicates and which are alike to the embedding model is a constant: a
relation, not transitive, as distances are. Where the order of a Python set decides, the model leaves
the choice open (`Majority`, `Deduplicated`).

**What connects the models.** `Containment` takes a kill order for any session at any time, so what is
proved of it holds for the orders that `Tier2Pipeline` and `Tier3Correlation` send. Both read the policy
that `ScopeConfig` models, as a mode chosen afresh at each read. `Tier3Correlation` reads the rows that
`Tier2Pipeline` writes: `Ingest` and `Judge` are its first and last write.

### What is abstracted, and why it is safe

- In `ScopeConfig` the tiers' modes are stored, saved and parsed by the same code: `mode` is one of
  them. Thresholds and counts of the policy are data no property there distinguishes; they are
  constants of `Tier2Pipeline` and a choice in `Tier3Correlation`.
- A custom signature is an id and a pattern; `BadSignature` stands for whatever the compile and
  backtracking checks refuse. The premium package is a fixed list that loads or does not.
- A replica lags by less than a tick, so by much less than the 60 s and 300 s intervals. A try of a
  write that lands does so before the caller gives up on it.

- Risk is a small natural number. Decay multiplies it by a factor between a quarter and one
  (`_DECAY_FLOOR`), and the sum is rounded before it is stored; `Decayed` allows every whole
  number that may result. The code compares the threshold before it rounds, so a stored risk
  equal to the threshold can be an allowed prompt: `BelowThreshold`.
- Time does not appear. `Expire` removes an item whenever its TTL is set and no invocation of that
  session is in flight: the TTL is 30 minutes, an invocation lives 30 seconds.
- Detection events, encrypted evidence, Security Hub findings and the log are written and never
  read by the modelled code, and each failure there is swallowed.
- `Serialized` is a client that waits for its answer before it sends the next prompt of a session.
- Tier 2's clock counts quarters of an hour, the grain of its decay, and stands still while an
  invocation runs. Scores decay to hundredths, as the code rounds them.
- The keep-alive invocation, the metadata of rows that nothing decides on, and the wording of reasons
  are left out. A kill order that the client sends twice counts as one: stopping is idempotent.
- Tier 3 handles the scopes of one run one after the other and they share nothing: one scope stands
  for all. The scan is of the whole window; the code stops at 2000 rows.

## The runs

On `MCContainment`. `CHECK_DEADLOCK FALSE`: a system that has answered every prompt stops.

| Run | Instance | Checks | Shows |
|---|---|---|---|
| `gate` | 2 sessions, one with a session id the runtime does not know and one with no ARN; 7 events, one prompt of a session at a time: two attacks, one of them in a body that is not an object, a suspicious prompt beside an attack, and four that stop at the screening; gate, fail_closed | `DeliveryIsAccountedFor`, `SurvivorsAreHeard`, `EveryTurnIsCounted`, `KillReportsAreTrue`, `RefusedOnceTerminated` | every answer is one the configuration gives; where nothing can be stopped, somebody hears of it; without overlap the registry's blind writes lose nothing and the door stays closed |
| `sidecar` | 1 session, an attack and a suspicious prompt in any overlap, 1 kill order, expiry, 2 receives, telemetry disabled; sidecar, fail_open | `TypeOK`, `DeliveryIsAccountedFor`, `EveryBlockCarriesAKill`, `KillOnlyAfterMark`, `KillReportsAreTrue`, `SurvivorsAreHeard`, `SeenIsNotOvercounted`, `StopsKeepThePromise` | the default deployment keeps what the docs say of kills and reports, and implements `StopPromise` |
| `time_to_kill` | as `sidecar`, on a harness runtime, with fairness, no orders | `BlockLeadsToKill` | a block ends in a kill attempt or somewhere visible |

On `MCScopeConfig`:

| Run | Instance | Checks | Shows |
|---|---|---|---|
| `policy` | 1 administrator, 1 handler, 2 writes or hand edits, 2 faults, cache of 2 ticks | `TypeOK`, `FreshInv`, `EnforceIsFresh`, `EditTakesEffect` | enforcement turned off stops within the cache's lifetime; every edit takes effect |
| `signatures` | 2 authors, 1 interceptor, a premium package, authors with two ids of their own (one with two patterns) and a premium one, 2 writes or hand edits, 2 faults, at most 2 entries loaded; no policy saved | `CommunityFloor`, `OnlyScreened`, `AckedEnforced`, `ShippedReturns` | what an author is told is stored comes to be enforced and stays so, unless its id was taken before or the limit leaves it out; what ships comes back after failures, and the bundled floor stands throughout; nothing unscreened is run |

On `MCTier2` and `MCTier3`. `CHECK_DEADLOCK FALSE`: an empty queue, and a schedule at its end, stop.

| Run | Instance | Checks | Shows |
|---|---|---|---|
| `tier2` | 2 prompts of a session, one delivered twice, all at once, 2 faults of any kind, enforce mode; five pairs of turns: two that each could kill, a Tier 1 block and its sequel, a pattern split over two turns, a mild one beside the model's surest word, an unreadable body | `TypeOK`, `AtMostOnce`, `KillIsCorroborated`, `ModelAloneNeverKills`, `Accounted`, `KeepsItsPromise`, `EveryPromptIsSettled` | the pipeline holds under interleaving, redelivery and failure, and implements `PromptFate` |
| `tier2_turns` | 3 turns one after the other, time between them, enforce or off at each, no faults; all 3375 conversations of fifteen kinds of turn, and one that counts upwards | `KillIsCorroborated`, `ModelAloneNeverKills`, `SafeIntentVetoes`, `ShadowTellsTheTruth` | the rules as a whole, over every conversation of that length |
| `tier3` | 3 sessions with a prompt each, 2 runs, 1 fault; five kinds of traffic: a signed replay, one that Tier 2 judges meanwhile, variants of one attack, one ordinary question asked by all, one shape; three policies | `TypeOK`, `BurstIsActedOnOnce`, `OrdinaryTrafficIsSpared`, `OnlyReplaysKillByDefault`, `RecordedKillIsOrdered`, `NoReplaySlipsBy`, `KillsKeepThePromise` | the correlation acts on attacks, once, and on nothing else, and implements `BurstPromise` |

Each `v_` run takes one sentence of the repository and shows a behaviour of the code that
contradicts it:

| Run | The sentence | What happens |
|---|---|---|
| `v_revived` | "the very next prompt on that session is refused by the dispatcher" (docs/capabilities.md:73) | an overlapping allowed prompt writes `active` over `terminated` |
| `v_wiped` | "Stored and validated. Enforced by the inline interceptor" (signatures_service.py:192) | the next policy save replaces the item the signature is in |
| `v_dropped` | "Record a Tier 2 failure so a dropped prompt is visible, not silent" (tier2/handler.py:2514) | the client retries a conditional put that had worked, and the prompt is dropped as a duplicate of itself |
| `v_fraction` | "Apply risk decay for long sessions" (tier2/handler.py:1136), a safe prompt adding 0.0 (1096) | a score that decayed below one point is read as a fraction and multiplied by 100 |

Other differences, met while modelling and read in the code rather than run:

- `put_policy` "keeps the counter monotonic" (policy_service.py:113): its read and its write are two
  steps, so a slow save writes an old number; a failed read counts as version 1.
- After a failed save "the previous policy is still in effect" (policy_service.py:141): a write that
  timed out may have been applied.
- A policy read failure returns "shadow mode — never `enforce`" (vardoger/policy.py:188): it returns the
  handler's default mode, which the environment may set to enforce. `EnforceIsFresh` therefore
  assumes another default.
- "The control plane and the handlers agree" (policy_service.py:6): they differ on a record without a
  mode whose legacy flag is off, or when the handlers' default is not shadow.
- "New/updated signatures take effect" (signatures_service.py:187), and the answer says `enforced=True`:
  an entry whose id is already in the list, or is bundled or premium, is dropped at load
  (signature_scanner.py:274), so an update never takes effect; and what comes after the first 200 entries
  is not loaded. An id the author leaves out is made from the current second (137), so two in one second share it.
- "A smaller count means an additive source failed to load" (engine.py:76): or the next policy save took
  the custom signatures out of the record (`v_wiped`).
- A body whose `mcp` body is no JSON object raises (dispatcher.py:389) after the session was marked
  terminated and before its kill: under either failure policy none follows.
- A row still on `deferred` "means the deferred kill never ran" (session_registry.py:241): the fallback
  kill of a failed publish runs and does not note it (dispatcher.py:498).
- "A Tier 1 engine failure passes the prompt and alarms, and Tier 2 still sees it"
  (docs/capabilities.md:116): the copy for Tier 2 comes after the engine in the same `try`.
- "Too deeply nested to inspect: always refused" (docs/capabilities.md:305): the harvest finds no text
  below its depth limit, and a body without text is passed before truncation is looked at.
- "Never let a transient premium/custom load blip DOWNGRADE a container" (engine.py:74): only counts
  are compared, so custom signatures added since hide lost premium ones.
- One point more for an unverified session is "enough that a weight-7 tool_injection [...] reaches the
  block line" (risk_scoring.py:144-146): it is added to the score after the recommendation was made from
  it (engine.py:138-141), so only the session's accumulated score can block on it.
- Gate mode: "a detected prompt never reaches the agent" (vardoger/config.py:91): if recording the
  verdict fails under fail_open, the prompt passes.
- An unparseable body is "always refused" (vardoger/config.py:112): the failure policy answers it.

Tier 2 (`vardoger/tier2/handler.py`):

- "The enforcement invoke failed. Record that honestly rather than reporting a kill that never
  happened" (2356): `_trigger_enforcement` swallows the error and returns its time (1442-1444), so that
  branch never runs and the kill is reported.
- "Without erasing confirmed hostile evidence" (1136): `confirmed_malicious` is overwritten by each
  prompt's own verdict (1509).
- "Sufficient evidence: either repeated malicious verdicts or a single verdict at extreme confidence"
  (1268): for the categories called obvious, repetition is never enough (1339-1374).
- `_regex_component_score` (734) reads severity, bucket and signatures that the history row does not
  keep: for a prompt that Tier 1 let pass the component is 0.
- The 0.99 escape from the safe-intent gate (1296) is dead: such a prompt's score is capped at 19.
- "A Tier 2 failure sends the record to a dead-letter queue" (docs/capabilities.md:318): the intake queue
  has none (infra/self-hosted.yaml:436), and a failure is swallowed before the queue would see it.
- A redelivered duplicate whose put raises writes an error over a recorded verdict (2513-2545).
- A prompt's own row is among those its escalation is judged against, from the first turn on.

Tier 3 (`vardoger/tier3/handler.py`):

- Tier 2's category comes first (182) also when it says `tier2_no_endpoint` or `error`: without a model
  endpoint it masks what the signatures say, which "applying hints" (docs/capabilities.md:46) rests on.
- An exact burst is identified without its sessions (509, 538): sessions that send its text after a run
  has put it, in a window of the same name, are neither recorded nor killed. `NoReplaySlipsBy` says so: a
  replay is on record, or a burst of its text is.
- `_dedupe_findings` (761) keeps, per set of sessions, the finding of the strongest method: a benign
  exact repetition hides a critical finding about the same sessions.
- A finding stays without its kills when its run dies before it has ordered them (993), or when the client
  sends the put again after a lost answer and takes its own record for another run's (946).
- A shadow finding within the cooldown (874) suppresses a kill after the policy was turned to enforce.
- A generic shape can reach 88.5 of the 90 points a kill needs: the check for it (805) never decides.

**Bounds.** One session suffices for what happens within a session: nothing in the code relates two
sessions, and two are used in `gate`, where kinds of runtime are mixed. Two prompts give every overlap of
a read and a write; a third is the one that comes after (`v_revived`). `SessionCap`
and the threshold are 2, with prompts of score 1 and 2: one prompt that blocks alone, one that blocks
on what came before. `MaxReceive` 2 is a first receive and a redelivery; `MaxAttempts` likewise.
`BonusCap` is 1 in `sidecar`. Nothing else is bounded: counters grow with requests and receives.
In `ScopeConfig` one handler and one interceptor suffice, as they never touch each other's state; the
writers are the ones that interleave. In `policy`, `MaxWrites` 2 turns enforcement on and off again
while one load runs; in `signatures`, 2 is two appends that overlap, or one beside a hand edit.
`TTL` and `Reinit` 2 leave a tick between the start of an interval and its end. `MaxFaults` ends the
failures, which the liveness properties need and the safety properties do not. The load limit is 2
(200 in the code), so that a repeated append can push the other author's entry beyond it.

`AckedEnforced` is about every signature, and says when one that was acknowledged may stay out: while it is
stored, and another is enforced under its id that ships or was stored before it, or all of its entries lie
beyond the limit. The instance has authors who reuse an id with another pattern and who take a premium id;
both are acknowledged and dropped, which the differences above record. No other way out is
permitted: not a failed source, not a rebuild that was turned down, not an append that overwrote another.

In `tier2`, three deliveries are the fewest with both a redelivery and another prompt, and two faults
let one invocation fail while another, or its own failure handler, fails too; `tier2_turns` has
three turns because that is what it takes for a verdict, a repetition of it and a kill, with
`MaxClock` 3 for each grade of decay; `v_fraction` needs five. Context is 2 or 3 rows, so that a row
falls out of it. In `tier3` windows are two ticks and the runs two ticks apart, so that a prompt may
fall on the edge; the cooldown is longer than a window; two sessions make a burst and three let a group
of two meet a group of three. One fault lets a run die or a call fail at any point of it.

**Fairness.** `FairSpec` assumes weak fairness of the next step of a running invocation and of the
alert Lambda. Lambda runs a started invocation to its end or kills it (`Crash` is a step), and the
event source mapping polls the queue as long as it holds messages. Nothing is assumed of clients,
of Tier 2 and 3, or of DynamoDB's expiry. A fault is always possible, so `BlockLeadsToKill` has the
dead-letter queue, the gateway error and the reported failure among its ends.
`ScopeConfig` assumes that time passes, that replicas catch up, that a handler keeps loading its
policy (Tier 3 runs every 5 minutes, `infra/self-hosted.yaml`) and that an interceptor whose refresh
is due is given a prompt. Nothing is assumed of administrators, authors or cold starts.
`Tier2Pipeline!FairSpec` assumes that the queue delivers what it holds and that a started invocation
takes a next step, be it a failure: weak fairness of the movement of `pc[c]` as a whole, not of any
outcome. Faults are bounded by `MaxFaults`, without which a message may fail for ever. Tier 3 has no liveness
property; that its schedule is kept is in `Tick`, and only `NoReplaySlipsBy` rests on it.

## What is proved

For every set of sessions, requests and orders, every kind of runtime and every configuration that
meets the named assumptions (`RuntimeKindAssumption`, `DispatcherAssumption`,
`MaxReceiveAssumption`, `OrderAssumption`: the constants have their types, and at least one receive
and one attempt):

| Theorem | Property |
|---|---|
| `TypeCorrect` | `TypeOK`; with it, risk never leaves 0..`SessionCap` |
| `DeliveryCorrect` | `DeliveryIsAccountedFor` |
| `KillCarried` | `EveryBlockCarriesAKill` |
| `MarkedBeforeKill` | `KillOnlyAfterMark` |
| `ReportsAreTrue` | `KillReportsAreTrue` |
| `NobodyIsToldNothing` | `SurvivorsAreHeard` |
| `ContainmentKeepsThePromise` | `StopsKeepThePromise`: the refinement of `StopPromise` |
| `NoTurnIsInvented` | `SeenIsNotOvercounted` |
| `TurnsAreCounted` | `EveryTurnIsCounted`, where rows do not expire (they count from nought again when they do) |
| `DoorStaysClosed` | `RefusedOnceTerminated`, for a client that waits for its answers and rows that do not expire |

The properties are not inductive: they speak of answers and mails, and say nothing of the
invocations on the way there. `IInv` adds to `TypeOK`, for each request,

- `StageFacts`: what holds at each stage of the handler. From `report` on the verdict is recorded;
  from `kill` on it is a block; before that no kill and no message exists;
- `Delivered`, `Carried`, `MarkedFirst`: the three properties, for this request.

`ReportInv` follows the outcome of a kill through its four places, the invocation, the message, the
row and the mail (`OutcomeFacts`, `RowTrue`): "confirmed" stands only where the session has stopped,
and a message whose kill was attempted holds an outcome other than `deferred`. It is preserved because
a stopped session stays stopped (`RuntimeStays`) and because every writer copies from a place that
has the property. Each step of the system changes only its own request (`DispatchIsLocal`,
`AlertIsLocal`); degraded metrics are never withdrawn.

`StopPromise` knows calls for a stop, how often each was tried, which sessions have stopped and what was
said of a call. Its calls are, in `Containment`, the recorded blocks and the kill orders; a block is tried
in every receive of its alert and at most once inline. That no call is tried too often follows from
`TriesInv`: an invocation short of its fallback has published nothing, one short of its kill has not
killed, a message on the queue has a receive left and a sent order an attempt. Each action is then one of
making a call, trying it, telling of it, or none of these (`CallMoves`), and every other call is left
alone; `MarkedFirst` gives that a try has a recorded block behind it, `OutcomeFacts` that "terminated" is
said of a stopped session.

`CountInv` relates `prompts_seen` to the set of recorded evaluations, and to what an invocation has read
and not yet written: a read is at most the count of those recorded without it, so that writing it plus
one adds its own and no other. `SerialInv`, with one invocation of a session at a time, makes that an
equation and holds the status together with it. Neither proviso of `DoorStaysClosed` can go: `v_revived`
breaks it with two prompts at once.

For the scope configuration (`ScopeAssumption`, `DefaultModeAssumption`: a positive lifetime, a
default that is a mode):

| Theorem | Property |
|---|---|
| `FreshInvariant` | `FreshInv`, the inductive invariant |
| `EnforcementIsFresh` | `EnforceIsFresh` |
| `FloorHolds` | `CommunityFloor` |
| `OnlyScreenedIsEnforced` | `OnlyScreened` |
| `ConfigTypeCorrect` | `TypeOK` |

`EnforceIsFresh` looks only at what a handler acted on. It is inductive with `HeldIsFresh`: what a cache
or a load holds is no older than its age, because the age is counted from before the read. The
counter `sinceEnforce` and the ages grow in the same step, and a write only sets the counter back.

`FloorHolds` and `OnlyScreenedIsEnforced` rest on `ScannerInvariant`: what every source adds is screened and has an id of its own
(`ShippedAssumption`: the bundled ids are distinct, and nothing that ships is what the screening
refuses). Keeping the old scanner keeps the invariant, whatever the counts say. `ConfigTypeCorrect`
strengthens the types by `AuthorsSubmit`, that an author's request in progress carries one of its own
signatures: without it what is acknowledged could be the entry no author can store.

For Tier 2 (`DeliveryAssumption`, `PolicyAssumption`, `TurnAssumption`, `BoundsAssumption`: deliveries are
of prompts, what is found in a text is in the handler's tables, thresholds are whole numbers), for any
prompts, deliveries, sessions, turns, modes and number of faults:

| Theorem | Property |
|---|---|
| `PromptIsActedOnOnce` | `AtMostOnce` |
| `PipelineKeepsItsPromise` | `KeepsItsPromise`: the refinement of `PromptFate` |
| `PromptsAreAccountedFor` | `Accounted` |
| `KillsAreCorroborated` | `KillIsCorroborated`, if the policy asks for two malicious verdicts or more |
| `ModelAloneKillsNobody` | `ModelAloneNeverKills` |
| `Tier2TypeCorrect` | `TypeOK`, with the bounds of both scores |
| `SafeIntentIsSpared` | `SafeIntentVetoes` |
| `ShadowIsTrue` | `ShadowTellsTheTruth` |

`AtMostOnce` counts effects; inductive is that only one invocation of a prompt *holds* it at a time
(between the put and the end), that none holds it before its row exists, and what has been counted at
each step. The refinement maps a prompt to "open" while an invocation holds it, else to what its row
says, and shows for each action which step of `PromptFate` it is, if any. `KillsAreCorroborated` follows
evidence backwards: a row that says "malicious" and a score above 0 were earned (`EarnedInv`), a prior
verdict that was counted belongs to another prompt or to this one's earlier row, and with a minimum of
two one of them is another's. With a minimum of 1, which a policy may set, the prompt at hand is enough,
as the code means it.

The other theorems look into the scoring. `ModelAloneKillsNobody` shows of each term of `ScorePrompt` but
the model's what in the text or the tables it needs to be above nought (no pattern opens in one turn and
closes in another, no number grows, where no turn holds either), so that without any of it the score
stays under the cap for the model alone, which is below "suspicious". `ScoreInv` bounds the scores and
carries, for each invocation, that what is benign is not "malicious", and that evidence is.
`SafeIntentIsSpared` therefore does not rest on the gate of `evaluate_tier2_kill_eligibility`, but on the
cap before it; and `ShadowIsTrue` on evidence never coming without the verdict.

For Tier 3 (`HistoryAssumption`: finitely many prompts with whole numbers; `ScheduleAssumption`: a burst
is of one session at least, thresholds and ticks are whole numbers), for any history, schedule, policies,
retries and number of faults:

| Theorem | Property |
|---|---|
| `BurstsAreActedOnOnce` | `BurstIsActedOnOnce` |
| `RecordedKillsAreOrdered` | `RecordedKillIsOrdered` |
| `RunsKeepThePromise` | `KillsKeepThePromise`: the refinement of `BurstPromise` |
| `TypeCorrect` | `TypeOK`, with the bound of the group score |
| `OrdinaryTrafficSpared` | `OrdinaryTrafficIsSpared` |
| `ReplaysOnlyKill` | `OnlyReplaysKillByDefault` |
| `ReplaysAreRecorded` | `NoReplaySlipsBy`, if every tick is in the window of some run (`WindowsMeet`) |

For the first three the invariant says that a run at its orders works on a burst on record that is no
other run's, and that what it has left is not ordered yet; and that what a finding claims is ordered or
still in its run's hands. `BurstPromise` has a book of bursts, the kills that are owed and those given.
The kills owed are what the runs at their orders have left. Every step of a run is one of three: it
records nothing and gives up what it had left (`Quiet`), it puts an entry that is new (`Writes`), or it
orders one kill or is refused it (`Works`). They map to `GiveUp`, `Record`, and `Give` or `GiveUp`; that no
two runs owe one kill (`WorkIsItsOwn`) makes a kill that is dealt with leave the set. So a kill comes at
most once: what a dying run left is never ordered, by its retry or another run. `GuiltInv`, for the next three, follows a kill from its order to the finding, and
from the finding to the rows: `FindingsAreFit` shows of all six detectors that a group fit to be killed has
a prompt with a critical category or signature, and that only a group of one text reaches a confidence of
95. The rows are what the history held when they were scanned, and it only grows.

`ReplayInv`, for the last, says at each stage of a run what it owes a group that shares a text: the rows it
scanned show the group; the findings it kept hold one about those sessions and a text of theirs
(`ReplayIsKept`: whatever other finding is preferred for the same sessions is of an exact text too); and
it goes on from a finding only when that is on record, its burst is, or its sessions are (the cooldown).
One run that looks back far enough is thus sufficient, whatever the others do. The hypothesis is on the
schedule: the stack runs Tier 3 as often as its window is long, and in `tier3` a run every two ticks
looks back two.

Induction over data. The library's induction theorems take an operator as a parameter, which the installed
provers cannot instantiate. `SetFacts` gets by without: the subsets of a finite set are well founded under
inclusion, so a set of counterexamples, if it is not empty, has a minimal member (`MinimalSet`), and a
proof that removes one element from it is a step of an induction. From this come greatest and least
numbers, the finiteness of images and the bounds of sums.

Only model-checked:

- liveness under fairness, which the prover cannot express: `BlockLeadsToKill`, `EditTakesEffect`,
  `AckedEnforced`, `ShippedReturns`, `EveryPromptIsSettled`;
- that the operators compute what the code computes on a concrete conversation: `tier2_turns` and `tier3`
  evaluate them on every one of their inputs.

## Not modelled

- **Text matching** (normaliser, signatures, hashes, policy rules, SimHash, embeddings) enters as its
  verdict; it is a function of fixed tables and belongs to unit tests. The score of a single prompt in
  Tier 1 (`risk_scoring.py`) is an input of `Dispatcher`.
- **The control plane** beyond its writes to the scope record: roles are decided per request from a
  token and a route, the dashboard reads and formats rows behind a 15 s memo, the chat console makes
  one request. None keeps state that another part acts on.
- **Sinks**: encrypted evidence, logging, Security Hub. They are written and never read.
- **Frontend, deployment scripts, demo agent**: none of the logic above.
- The keep-alive of the Tier 2 Lambda, several scopes in one run of Tier 3, a batch of kill requests to
  the enforcement Lambda (nothing sends one).

`PROJECT.json` lists each part with its state, and each hazard with the properties that would catch it.
