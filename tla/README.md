# SupportV8 in TLA+

This directory models the protocols of SupportV8, checks them with TLC on small
instances, and proves the safety of each of them with TLAPS. SupportV8 is a
TypeScript program (Next.js, PostgreSQL, Temporal, Redis). Paths below are
relative to the repository, whose application code lives in `src/lib` and
`src/app` and whose SQL functions live in `migrations`.

Contents: the system and its parts; the modules and how they correspond to the
code; the runs; fairness; the proofs; what is only model-checked; what is not
modelled; the plan.

## 1. The system

SupportV8 is the support desk of a family of services. Most of its code serves
requests on tenant data. The part that is hard to get right is what happens
between services: each of the protocols below records an intention in
PostgreSQL, works it off from a Temporal worker or a relay process under a
lease, and has to stay correct when the worker stalls, the answer is lost, or
the authority changes under way.

| Component | State | Operations | Interacts with | Hard behaviours | What makes it correct |
|---|---|---|---|---|---|
| Operational fact capture (`migrations/011_operational_outbox.sql`, `signals/operational-source.ts`) | `issues`, `operational_qualifications`, `operational_outbox` | issue INSERT/UPDATE with the capture trigger; qualification of a source | registration (owner state), Registry (certificate) | NOWAIT lock on the owner, one write that is two transitions, a qualification that comes late or twice | every transition is captured once, under the one qualification its owner ever had |
| Operational outbox delivery (`signals/operational-outbox.ts`, `operational-transport.ts`) | outbox leases, generations, tokens | claim, verify, send, receipt, finish | capture, Registry, Runtime intake, SQL budget | overlapping attempts, late answers, unknown commits, revocation between read and send | delivered only what Runtime recorded; held facts never leave; only the lease holder completes |
| Managed support registration (`migrations/005, 008, 009`, `service-app/managed-support-*.ts`, `workspace-reservation.ts`) | workspace, job with lease and desired state, gateway connection | acquire, claim, observe, connect / readiness / disable, finish | action gateway, Temporal, capture | a timed-out activity beside its retry under the same owner, a tombstone during a connect | revoked means disabled, ready means connected, a revocation is final |
| TasksV8 task work (`migrations/013_task_work_lifecycle.sql`, `tasksv8/*.ts`) | `task_work_outbox`, `task_work_outcomes` | request, claim, issue a credential, deliver, finish, receive an outcome | Tasks, Identity, Registry, tickets | the ticket changes during a delivery, a lost receipt, concurrent outcomes | gapless settled revisions, one stable work link, one outcome per intake |
| Chat live session (`chat/relay.ts`, `realtime.ts`, `use-chat-realtime.ts`, `app/api/chat/{events,session}`) | messages, `chat_outbox`, Redis stream and channel, the hook's cursor | commit, relay, subscribe, replay, heartbeat, refresh | PostgreSQL, Redis, EventSource | subscription racing the replay, frames that merge until a heartbeat, bounded stream and replay, reconnects, single-flight refresh | no hole in the view, no event lost but by a stated bound, a wake-up after every commit |
| Operational SQL budget (`db/operational-sql-budget.ts`, `db/pg-client.ts`) | pool clients, queue, scheduled pulses, budgets | acquire, transaction, release or destroy | pg-pool, native sessions | late checkouts, aborts at every await, the pool queue | nobody inherits a transaction; a budgeted call never waits for another's release |
| Temporal workflows and worker (`temporal/*.ts`) | workflow loops | drain every five seconds, retries | all of the above | retries beside timed-out tries | (they are the fairness of the modules above) |
| Chat relay runner and Runtime relay (`chat/relay-runner.ts`, `relay-worker.ts`, `relay.ts`, `runtime-*.ts`) | one loop per source, the batch in hand, drain deadline, outbox leases | run, claim, publish, complete, fail, stop, drain, close | PostgreSQL and Redis of two systems, signals | a call that never returns, a deadline racing a batch, a batch that outlives its leases, restarts | a signal always ends the process; a source without faults repeats nothing; a stuck source does not hold up the other |
| Interaction ingress and derivation (`db/support-intelligence-repository.ts`, `connectors/interaction-outbox-relay.ts`, `temporal/interaction-workflow.ts`, `app/api/private/interaction-events`) | `interaction_events`, `interaction_outbox`, the issue's messages, workflow executions | record, dispatch, derive (read, append, complete), claim, deliver | Temporal, connectors, issues, retention | timed-out attempts beside retries and relays, a lost dispatch, a relay that dies in `processing` | a completed event stands in its issue; no event in two batches; every event settles |
| Retention (`retention/retention-service.ts`) | `interaction_events.text` | redact what has expired | ingress | redaction while a derivation has read and not written | no derived message loses its text |
| Action gateway (`runtime/action-gateway-*.ts`, `app/api/issues/[id]/source-action`) | `action_receipts`, the issue's source status | write back from the route, `requestAction` | gateway, tenant policy, source connection | identical requests that race, late and lost calls, results that are not final | the issue follows the gateway; one receipt per key and the same answer to all |
| Order handoffs; Runtime handoff and session | handoffs, single-use assertions | accept, use | Runtime | retries, replays | used once, accepted once |
| Ticket, problem and domain services; accounts, OTP, invitations; voice, portal, platform; knowledge, RAG, marketplace; the web application | rows of their own | request-scoped reads and writes | | few | |

`PROJECT.json` lists every component with its sources, and the hazards of this
code, each at its line with the properties that cover it.

How the modelled parts hang together: the registration job reaching `ready` is
what the capture trigger reads as "the owner is current"; the qualification the
registration activity stores is what facts are pinned to; the outbox worker
reads the same owner and the same certificate again before it sends; its SQL
runs under the SQL budget. Task work reads the same owner rows through its own
functions. Retention writes the rows that the ingress derives from, so both are one
module. `ChatLive` and `RelayRunner` are two views of the relay: the first follows one
event through it to the browser, the second the process with both of its sources.

## 2. The modules

### OperationalCapture

One *account* is one permanent Support tuple; a *pin* is a provenance (only the
two certificate digests vary in it); a *fact* is the random id of an outbox row.
An issue is its existence, whether its priority is urgent, and its status group.
`WriteIssue` is the whole transaction: the issue row, the trigger's transitions
(`Transitions`, lines 60-64 of the migration), the NOWAIT lock (`busy`), the
qualification and the declared kinds (`CapturedPin`), and one outbox row per
transition. `ObserveQualification` and `PersistQualification` are apart because
the certificate is read over the network before SQL stores it.
`OwnerChange` and `CertificateChange` move the owner and the Registry at any
time, at most `MaxMoves` times.

### OperationalOutbox, FactDelivery

`OperationalOutbox` extends the capture with delivery. A claim raises the row's
generation, so an attempt is named by row and generation `(f, g)`; attempts of
several generations of one row run side by side after a lease ran out. An
attempt's `pc` is the await at which `drainOperationalOutbox` stands:

    claimed -> observed -> confirmed -> admitted -> cleared -> posted -> replied -> acking
                 (any of them) -> failing -> done

`wire` holds requests that Runtime has not handled; an abort does not recall
them, so they may be accepted late. `Fenced` and `Settle` are the guard and the
UPDATE of `finish_operational_outbox`. `FinishUnknown` is a completion whose SQL
budget ended around the commit.

`FactDelivery` is the abstract promise, without leases, workers or messages: a
fact is recorded once as owed or held; only an owed fact reaches the receiver;
it is acknowledged only after it did; held, acknowledged and quarantined are
final. `OperationalOutbox!Promise` and `TaskWork!Promise` are its two
refinements, with the row's state and the receiver's records as the mapping.

Reduction of atomicity: `Observe` and `ObserveAgain` merge each local owner
check with the certificate read that follows it; the check that closes the
bracket is part of `Admit`, and the check after the token was minted is
`Recheck`, each an action of its own.

### SupportRegistration

One installation has its workspace, its job and its connection at the gateway
(external: it creates a connection once and never enables a disabled one). A
claim gives the lease to a fresh owner; the activity of that claim may be tried
`MaxTries` times *under the same owner*, and a try that timed out goes on
running. Owners are numbered in the order they claim. The fence compares the lease with `now()`, which is the start of the
transaction, so a completion that waited for the row lock may find a lease that
has run out: `MayFind` and `MayMiss` overlap on purpose. `Finished` is the
UPDATE, in which a permanently revoked job takes no state but
`revocation_pending` and `revoked`. `FallBack` is the catch branch of
`activities.ts:66`, which finishes with the state the job had when it was
claimed.

### TaskWork

One workspace. A *ref* is an idempotency key and the row it names; refs, works and
outcome events are numbered in the order they first appear, which stands for their
random ids. A ticket's
version stands for `updated_at` and the snapshot digest. `Request` is
`request_task_work` under the ticket's row lock; `CheckSource`, `IssueToken`,
`CheckBeforePost`, `Post`, `CheckReceipt`, `FinishDelivered` and `FinishFailed`
are the awaits of the worker, of which `IssueToken` includes the issuance policy
that loads the fact again. `Fact` is `task_work_fact`, read again by `Admitted`
under the locks of the completion. `ReceiveOutcome` and `RecordOutcome` are the
two halves of the receiver: what was linked before may be stale when it is
recorded.

### ChatLive

One session with one browser, which mounts when the session has its opening
message. Messages are numbered in the order they are paged in, stream entries in
XADD order. `outbox` follows each event through the relay (`pending`, `leased`,
`streamed`, `announced`, `completed`). `AddToStream` may trim the stream
(`MAXLEN ~`): `oldest` is the first entry it still holds, and at least `StreamMax`
entries remain.

`conn` is where the events route's handler stands. `Replay` comes after
`Subscribe`, so what is announced in between is sent twice; it reads at most
`ReplayMax` entries, the oldest first, from the Last-Event-ID or from the
beginning of the stream (`FirstReplayed`, `LastReplayed`).

`sseFrame` filters the empty line that would end a frame out
(`events/route.ts:16`). An EventSource dispatches at an empty line only, so what
the route writes is one event until the next heartbeat, which brings two newlines:
an event of the last type and the last id in it. `block` is what was written since the last
heartbeat, `due` what a heartbeat on its way will dispatch. `Replay` ends its
block with `ready`; `Dispatch` refreshes for `chat`, and nobody listens to
`ready`, so a chat frame that merges with a later `ready` wakes nobody. A
`degraded` frame is never dispatched, because the route closes the stream behind it.
`Opens` is onopen: headers come with the first chunk, or before it
(`EarlyHeaders`, which depends on the server). A response that is not an event stream
(`Refused`) ends the EventSource for good, and the fallback timer takes over.

The hook's `refresh()` is single-flight: `RefreshBy` drops the wake-up when a
fetch is in flight. The session route never returns `hasMoreMessages`, so the
hook's page loop ends after one page. `Newest` is `slice(-500)` of
`mergeChatSession`: the view keeps `Keep` messages. A fetch is aborted after
ten seconds and heartbeats are fifteen apart, so `Dispatch` finds no fetch that a
frame or an opening began; one begun by the window's `online` event may be there
(`fetch.online`).

Not part of the repository, and modelled from its use: the SQL behind the chat
outbox functions. Assumed: pages follow commit order, and a block travels in less than
five seconds. The cursor of a page cuts `created_at` to milliseconds
(`message-cursor.ts:15-19`), so a page may begin with messages that are shown already;
merging them again changes nothing, and the model leaves it out. Left out too: several
listeners sharing one subscriber, the overlap of several relays on one event, and the
message that the POST of the user's own message returns.

### SqlBudget

Budgeted calls and native sessions on one pool of one Node process. pg-pool is
external: `Connect`, `PulseQueue`, `GiveBack` and `Destroy` say what its
`connect`, `_pulseQueue`, `release(false)` and `release(true)` do to the counts
the code reads. Promise continuations may run at any time; timers, sockets and
`setImmediate` only when the pulses scheduled with `process.nextTick` have run
(`ticks = 0`). `Fire` is the abort of whichever stage is listening: the
reservation, the checkout (what resolves later is owned by `Late`), or the
borrowed client. Between `Take` and `Start` nothing listens, as in the code.
Several removed clients that have not ended yet are one flag, `closing`.

### InteractionIngress

Events of one tenant. A derivation has three transactions, `Read`, `Upsert` and
`Complete`, and runs either in attempt `<<e, k>>` of the workflow of event `e`, which
claims nothing, or in a relay for the events of its claimed batch. `copies[e][t]` counts
the messages of `e` with text `t` in its issue, because the upsert appends
(`interaction-workflow.ts:93`): a retried or repeated derivation appends again.
`Latest` is the attempt Temporal waits for; `AfterTimeout` starts the next attempt
and leaves the old one running. `Due` is the selection of `claim_interaction_events`:
pending rows, and failed ones that are due, of which there are none (the activity fails
an event only if it is missing or malformed, and the route's envelope excludes
both). `Purge` redacts expired rows in any state.

### RelayRunner

The process of `relay-worker.ts` with one loop per source. `loop[s]` is the await at
which a batch stands and what is left of it; the sleep between two rounds is the wait in
`ready`. The two batch functions differ in two places, which `Guarded` tells
apart: the Runtime completion is bound to the lease, and a Runtime `fail` that throws
is caught, whereas a support `fail` that throws leaves the loop over the batch
(`relay.ts:38`). A `fail` that throws belongs to the fault that made the event fail. `Hang` is a call that never returns. `Stop` is the first signal and arms the deadline; the same signal again finds no handler
(`process.once`) and ends the process, which is a `Crash`. `Close` and
`Closed` follow the end of each loop; `Exit` is the race of the drain with
`forceClose` and `process.exit`, which follow at once. `hurt` is a history variable:
the sources that met a fault, or that the deadline cut off.

### WriteBack

A write is an idempotency key. The route derives it from action and payload, so
equal mutations are one write; a client's header key is looked up as well. Each await
of the route and of `requestAction` is an action. The gateway is external and
idempotent by key: it may accept a write and finish it later, and it may try a failed one
again. `Record` is `INSERT ... ON CONFLICT DO NOTHING` and answers with the row that is
there. Three conversions of the code change what a status says, and the model makes them:

- the HTTP client takes a 2xx answer without a status for `completed`
  (`action-gateway-http-client.ts:261`): `Understood`. The gateway may answer any
  execution without a status, and `presumed` remembers the writes for which that was not
  true. The route's "verified terminal completion" (`source-action/route.ts:273`) does not
  hold for these;
- `requestAction` answers a repeated operation from its receipt with `executed`, unless
  that failed (`action-gateway-client.ts:106-108`), so an operation that was answered
  "awaiting approval" is answered "executed" the second time: `ClientSays`;
- `requestAction` records `executed` whatever the gateway answered, and also without a
  connection: `RecordExecuted`.

`IssueFollowsGateway` and `AnswersAgree` say what is true in spite of them: a write moves
the issue only if the gateway completed it or its answer was presumed to say so, and all
answers about a key are made from the one receipt stored first.

## 3. The runs

| Run | Instance | Shows |
|---|---|---|
| `capture` | one owner, one issue, four rows, two certificates of which one declares two kinds only, three moves | `FactsMatchIssue`, `FactsAreNews`: transitions are captured once and repeats not at all; `PinIsTheQualification`: a late or different qualification never relabels history |
| `outbox` | one owner, one issue, one row, two certificates, two moves, three generations, two faults | `DeliveredWasAccepted`, `HeldNeverLeaves`, `SentUnderObservedPin`, `RevocationClosesWindow`, `NewestAttemptHoldsRow` (no late completion touches the row under a newer attempt), and `ImplementsFactDelivery`, with up to three attempts of one row side by side |
| `outbox_live` | two issues (one whose facts are malformed), two rows, one certificate, no moves, two generations, one fault | `EveryPendingFactSettles` |
| `registration` | one installation, two lease owners, two tries each, two faults | `RevokedIsDisabled`, `ReadyIsConnected` with tries of two claims overlapping; `TombstoneIsApplied`, `PendingBecomesReady` under fairness |
| `task_work` | one ticket with two versions, two requests, two works, two outcome events, two claims per row, one move, one fault | revisions, work link, outcomes, staleness, the same abstract promise, and `RequestSettles` |
| `chat` | an opening message and two more in at most two commits, pages of one, a view of two, a replay of one, a stream trimmed to two, early headers, one fault | `ShownWithoutHoles`, `LiveGetsEveryEvent`, `EveryMessageWakes` |
| `chat_shown` | an opening message and one more, page, view, replay and stream that hold both, headers with the first frame, no fault | finds `EveryMessageShown` violated: see below |
| `sql_budget` | two budgeted callers, one native session, two clients, a queue of three | `NeverBehindRelease`, `TransactionsStayPrivate`, `CallNeedsNobody` |
| `ingress` | one event that may expire, two relays, two attempts per workflow, three faults | `CompletedIsDerived`, `OneRelayPerEvent`, `EveryEventSettles`, with up to four derivations of the event side by side |
| `ingress_recovery` | two events in one batch, one relay, one attempt, two faults | finds `EveryEventRecovered` violated: see below |
| `write_back` | two writes of the route (one a note), a client write with the same payload, one held for approval, three requests, one move, one fault | `IssueFollowsGateway`, `AnswersAgree` |
| `relay_runner` | two support events and one Runtime event, batches of two, one restart, one fault | `UnhurtRepeatsNothing`, `StopResolves`, `EveryEventDelivered` |

Each property of a passing run is paired in `PROJECT.json` with a mutant of a
modelled definition (a dropped guard, a missing comparison, an early completion)
under which TLC finds the property violated. The mutants are operators marked
`Mutant:` next to the definition they stand in for; no specification uses them.

**The bounds and why they are enough.** Rows, tickets and installations do not
interact except through an owner, a ticket's revisions, or a claim's limits, so
one or two of each show every interaction; two row ids are needed for a ticket's
revisions, four for created, escalated, resolved and resolved again. Two
generations are needed for a stale attempt beside the holder, three for an
attempt that is stale twice over. A fault is one timeout, crash, lost answer or
misanswer. `outbox`, `registration` and `ingress` allow two or more, so a fault may hit
the recovery from a fault. `task_work`, `chat`, `relay_runner` and `write_back` allow one:
with a second their state spaces exceed what a run should take; larger instances
were checked for safety only. In `chat`, a replay of one entry beside a stream of two and
a view of two beside three messages make every limit bind. In `ingress`, three faults are a timed-out attempt, a lost
dispatch and a failing relay. `write_back` needs three requests so that a third can be
answered from the receipt of two that raced; `relay_runner` needs two support events
so that a batch can break off in the middle. Names that do not matter (owners,
requests of task work, events of the relay) are numbered in the order of their use, and
the requests of `write_back` are symmetric.
Every bound is a named constant and appears in a guard: `MaxMoves`, `MaxGen`,
`MaxFaults`, `MaxTries`, `MaxOwners`, `MaxVer`, `MaxRefs`, `MaxWorks`, `MaxEvents`, `MaxRuns`,
`Limit`, `MaxMsg`, `MaxCommits`, `Page`, `Keep`, `ReplayMax`, `StreamMax`, `MaxQueue`.
Deadlock checking is off, but for `sql_budget`, because a bounded instance really stops: every row is
settled or every bound is used up.

**The finding of `chat_shown`.** `realtime.ts:79` says that recovery by the PostgreSQL
cursor stays authoritative when an event is lost. While a refresh is in flight,
`refresh()` returns at once and nothing remembers the call
(`use-chat-realtime.ts:141`); the five-second timer is off while the stream is open.
The trace: the first refresh has read its page; a message commits, and its `chat` frame
reaches the route, which has subscribed, before `ready`; the stream opens, and its refresh is
dropped because the first is still in flight; that one ends without the message. The
`chat` frame, the replayed one and `ready` are one block, which the first heartbeat dispatches
as `ready`: nobody listens, and on a stream that stays live the message is not fetched until
some other event arrives. The run has no fault, and its fairness is that of `chat`. What does
hold is `EveryMessageWakes`: the hook is told to refresh after every commit, unless the
subscriber missed the event or the commit fell between the opening of a response and its
`ready`. There the refresh at the opening covers what committed before it, when it is not
dropped.

**The finding of `ingress_recovery`.** `interaction-outbox-relay.ts:34-36` says that the
relay processes events that were persisted but not dispatched or completed, and
"guarantees complete ingress recovery". Its claim (`claim_interaction_events`,
`migrations/011_mvp_intelligence.sql:247-272`) takes pending rows to `processing`,
and no claim selects `processing` again: `locked_at` is written and never read, and
the relay's catch leaves the row as it is. The run records an event, loses its dispatch,
claims it and ends the relay; the event stays in `processing` for ever unless the
provider delivers it again. What does hold is `EveryEventSettles`: an event is
completed unless both its dispatch or workflow and its relay failed.

## 4. Fairness

Fairness is stated only for what the code or its platform schedules:

- claims: the workflows loop for ever with a five-second sleep
  (`temporal/workflows.ts`), in due order, so a row that stays claimable is
  claimed; a relay loops likewise;
- the steps of an attempt, a try or a handler: the process goes on unless it
  crashes, which is a fault;
- external services answer what reaches them; a refusal or silence is a fault;
- Temporal retries a try that threw;
- time passes: leases run out and backoffs end;
- in `InteractionIngress`, a request that recorded goes on to dispatch, and the drain is
  scheduled every minute (`temporal/schedules.ts:50-56`);
- in `RelayRunner`, calls return unless they hang, which is a fault; the deadline's timer
  fires; the worker is started again. No signal is forced;
- the EventSource reconnects by itself after a lost or closed stream, heartbeats are sent
  and arrive while the connection lasts, and the fallback timer fires;
- in `SqlBudget`, strong fairness for sockets and `setImmediate` turns: the event
  loop comes round to them although pulses keep being scheduled. No deadline is
  forced, and no native session is forced to give its client back: `CallNeedsNobody`
  holds without either.

Nothing forces an owner to move, a tombstone, a request, an issue write or a
fault. Faults are finitely many, so liveness says that the system recovers once
they stop. Because generations are bounded too, a liveness instance has more
generations than faults.

## 5. The proofs

Eight modules prove every invariant and every action property that
a passing run checks, and both refinements of `FactDelivery`, for every value of the
constants: all sets of accounts, facts, events, requests and callers, all limits, and all
bounds. Each proof uses the named assumption of its modules and nothing else. Each follows
one pattern: an invariant `IInv` that `Init` implies and every action keeps, with one lemma
per action and, under it, one step per conjunct the action can disturb; the other theorems
follow from it. TLC checked each `IInv`, and the properties below that no run lists, on the
instances of section 3 before they were proved.

### OperationalOutboxProofs

From `CaptureAssumption` and `OutboxAssumption`:

| Theorem | States |
|---|---|
| `CaptureInvariantHolds` | `CaptureSpec => []CaptureInv` |
| `FactsFollowIssues` | `CaptureSpec => []FactsMatchIssue` |
| `PinNeverRelabelled` | `CaptureSpec => []PinIsTheQualification` |
| `NothingIsCapturedTwice` | `CaptureSpec => FactsAreNews` |
| `InductiveInvariant` | `Spec => []IInv` |
| `TypeCorrect` | `Spec => []TypeOK` |
| `DeliveryIsTrue` | `Spec => []DeliveredWasAccepted` |
| `HeldForever` | `Spec => []HeldNeverLeaves` |
| `SentUnderItsPin` | `Spec => []SentUnderObservedPin` |
| `OutboxKeepsPromise` | `Spec => ImplementsFactDelivery` |
| `OnlyPendingLeased` | `Spec => []LeasedIsPending` |
| `NewestKeepsItsRow` | `Spec => []NewestAttemptHoldsRow` |
| `EvidenceStays` | `Spec => EvidenceImmutable` |
| `CaptureHoldsInDelivery` | `FactsMatchIssue` and `PinIsTheQualification` in the composed system |
| `RevocationHolds` | `Spec => RevocationClosesWindow` |

*Capture.* `FactsMatchIssue` counts facts and does not say what an issue is that does
not exist yet, so it is not inductive. `CaptureInv` states it with sets (`FactsKeepUp`: the
created facts of an issue are a singleton from the moment it exists) and adds that an issue
is blank until then, and that only captured rows name an issue (`RowsNamed`), so that a fresh
row belongs to no issue before the write. The kinds a write captures are in bijection
with its transitions, which gives both `FactsKeepUp` and `FactsAreNews`.

*Delivery.* `DeliveredWasAccepted` is not inductive: a row may be about to become delivered
because of an attempt's receipt. `IInv` adds

- `ReceiptsAreReal`: an attempt holds a receipt only if the intake recorded its
  fact, and stands before the delivered completion only with a receipt, so that
  `FinishDelivered` and `FinishUnknown` preserve `DeliveredWasAccepted`, whatever
  the fence does;
- `HeldNeverLeaves`: for a row that is absent or held no attempt is running and
  no request is under way. It is inductive with `TypeOK` because a claim takes
  pending rows only and a row leaves `absent` only in the capture step;
- `SentUnderObservedPin`, which the row's immutable pin and issue preserve;
- `RowsNamed`: a captured row names an issue, so its owner is defined.

The proof has one lemma for each kind of step (an attempt moves, a row is
settled, an answer arrives, a claim, a capture, time passes), each stating its
effect on one row or one attempt; the invariant, the refinement and the action properties
use only those effects. `EvidenceImmutable` needs `LeasedIsPending`, which is inductive
beside `IInv`: without it the end of a lease could touch a settled row. With it every step
of delivery leaves what `CaptureInv` speaks about alone, so the capture's invariants hold in
the composed system. `NewestAttemptHoldsRow` is inductive beside both: an attempt changes a row only under the
fence, which names its own generation, and then it works no more (`AttemptUnderFence`), and
a claim that raises the generation leases the row. The refinement maps a capture to `Record`, an acceptance to
`Reach`, a delivered completion to `Acknowledge`, a quarantine to `GiveUp`, and
every other step to a stutter; `Acknowledge` needs `IInv` for "the fact was
received", and `Reach` needs `HeldNeverLeaves` for "not held".

### SupportRegistrationProofs

From `RegistrationAssumption`:

| Theorem | States |
|---|---|
| `InductiveInvariant` | `Spec => []IInv` |
| `TypeCorrect` | `Spec => []TypeOK` |
| `RevokedDisabled` | `Spec => []RevokedIsDisabled` |
| `ReadyConnected` | `Spec => []ReadyIsConnected` |
| `RevocationIsFinal` | a tombstone, a closing job and a disabled connection stay so; a revoked job is never leased or rewritten |

Neither promise is inductive, because a try finishes with what an answer told it several
steps before, and the catch branch with what the job was when it was claimed. `IInv` adds
what each of them stands on: `ClaimGrounded` (a claim that found `ready` found a
connection), `TryGrounded` (a try about to write `revoked` has a disabled connection behind
it, one about to write `ready` a connection), `CallGrounded` and `JobGrounded`. They survive
the steps of all other claims because what they stand on is never undone (`Advance`): a
revoked lifecycle, an existing connection, a disabled one. `RevocationIsFinal` adds that a
revoked job has no lease owner, so that no late try finds it.

### TaskWorkProofs

From `TaskWorkAssumption`:

| Theorem | States |
|---|---|
| `InductiveInvariant` | `Spec => []IInv` |
| `TypeCorrect` | `Spec => []TypeOK` |
| `RevisionsSettled` | `Spec => []RevisionsAreSettled` |
| `LinkStable` | `Spec => []WorkLinkIsStable` |
| `OneOutcome` | `Spec => []OneOutcomePerIntake` |
| `StaleStaysDenied` | `Spec => StaleRequestStaysDenied` |
| `ReceiptsAreImmutable` | a delivery with its work, what Tasks recorded, and an outcome stay for ever |
| `TaskWorkKeepsPromise` | `Spec => ImplementsFactDelivery` |

`WorkLinkIsStable` is about delivered rows and needs to know what a pending one may become:
`SourceIsLink` says that a revision was requested when all earlier ones of its ticket were
delivered, and took their common work as its source; a receipt is accepted under that
source only. `AttemptsAreReal` says that a work an attempt holds is the one Tasks recorded,
and that attempts and requests exist of captured rows only. The action properties and the
refinement share one classification of the steps (`StepKind`): a request, a delivery of a
current and recorded row, a record of Tasks, or no change of any state.

### ChatLiveProofs

From `ChatAssumption`:

| Theorem | States |
|---|---|
| `InductiveInvariant` | `Spec => []IInv` |
| `TypeCorrect` | `Spec => []TypeOK` |
| `NoHoles` | `Spec => []ShownWithoutHoles` |
| `EveryEventReachesLive` | `Spec => []LiveGetsEveryEvent` |
| `ViewMovesOn` | the cursor never goes back, only committed messages are shown, and a message leaves the view only when `Keep` newer ones are kept |

`PageFits` adds to the view that a page in flight begins at the cursor: the single-flight
refresh is what keeps it so. `StreamSound` bounds the stream by a counting argument (an entry
is paid for by the first publication of an event or by a fault), which the type of `log`
needs, and says that every entry the hook, the frames or the route know of is in the stream.
`Told` extends `LiveGetsEveryEvent` from completed to announced events. Both except, by name,
what the bounds cut off: an entry the stream has trimmed, and one behind a replay that was full
(`LeftBehind`), which a fresh connection to a session with more than a hundred retained entries
really misses.

### SqlBudgetProofs

From `BudgetAssumption`:

| Theorem | States |
|---|---|
| `InductiveInvariant` | `Spec => []IInv` |
| `TypeCorrect` | `Spec => []TypeOK` |
| `NotBehindRelease` | `Spec => []NeverBehindRelease` |
| `PrivateTransactions` | `Spec => []TransactionsStayPrivate` |

`OneSeat` says that a budgeted caller has at most one place in the queue or at a client, and
that its `pc` tells which: so the client a call destroys or gives back is its own and carries no
transaction of anybody else. `PulsesDue` says that while a client is idle everyone in the
queue has a pulse, because a client becomes idle only when nobody waits; with `Busy`, which
refuses a caller that would be behind the idle clients, it gives `NeverBehindRelease`.

### RelayRunnerProofs

From `RelayAssumption`:

| Theorem | States |
|---|---|
| `InductiveInvariant` | `Spec => []IInv` |
| `TypeCorrect` | `Spec => []TypeOK` |
| `UnhurtIsExact` | `Spec => []UnhurtRepeatsNothing` |

`Stage` gives the exact place of every event of an unhurt source: untouched, leased in the
batch, published and being completed, or delivered. `BatchShape` and `CloseOrder` say that a
loop works on its own source and that a source is closed only after its loop ended, so that
an orderly drain cuts nothing off.

### InteractionIngressProofs

From `IngressAssumption`:

| Theorem | States |
|---|---|
| `InductiveInvariant` | `Spec => []IInv` |
| `TypeCorrect` | `Spec => []TypeOK` |
| `CompletionIsTrue` | `Spec => []CompletedIsDerived` |
| `BatchesAreDisjoint` | `Spec => []OneRelayPerEvent` |
| `CompletedForever` | a completed event and a delivered outbox row stay so |

`CompletedIsDerived` is not inductive: a derivation about to complete must have
written. `StepsAreKept` adds what every derivation has behind it: one that has read
redacted text read a redacted row, one past the upsert has a copy in the issue, one
that completed has completed the row; a redacted copy exists only of a redacted row, and a
redacted row has its own text in an issue or is in `lost`; what is in a relay's batch is in
`processing` or `completed`, so that a claim, which takes pending rows, takes none from
another relay. The proof has one lemma per action.

### WriteBackProofs

From `WriteBackAssumption`:

| Theorem | States |
|---|---|
| `InductiveInvariant` | `Spec => []IInv` |
| `IssueIsTrue` | `Spec => []IssueFollowsGateway` |
| `AnswersAreTrue` | `Spec => []AnswersAgree` |
| `ReceiptsAreFinal` | a receipt and a completion of the gateway stay for ever |

A request that updates the issue relies on a completion it was told of, or presumed, several
steps before. `RequestsGood` says for each place of a request what it relies on, `WireIsSent`
that a call under way is of a request that has sent it, for the write it waits for, which
is not held. The argument is monotonicity: every step extends the receipts, the
gateway's record and what was presumed (`Extends`), so what one request relies on survives the steps of all
others, and each action's lemma looks at the request that moves (`Frame`).

## 6. Only model-checked

What must eventually happen, under fairness, is out of the prover's reach:
`EveryPendingFactSettles`, `TombstoneIsApplied`, `PendingBecomesReady`, `RequestSettles`,
`EveryMessageWakes`, `CallNeedsNobody`, `EveryEventSettles`, `StopResolves` and
`EveryEventDelivered` are checked by TLC on the instances of section 3 only, and so are the
two violations. No module declares a recursive operator, so no theorem is out of reach for
that reason.

## 7. Not modelled, and why

- Formatting and validation of payloads, digests and signatures: a payload is
  right or malformed, a certificate is a pin.
- Redis, Temporal, pg-pool, Runtime, Tasks, Identity, the Registry and the
  gateway: external, each modelled from how the code uses it.
- Of the write-back: what follows from the code's own divergences is modelled and not
  stated as correct. A process that dies between the receipt and the issue's update leaves
  the issue behind for good; a replayed failed receipt is answered with success;
  two different writes may reach provider and issue in different orders; a repeated
  update A, B, A is answered from the first receipt. Token acquisition, the audit history
  and operations that call no provider are left out.
- Of the relay: the health counters; a malformed Runtime row, which makes a whole
  claimed batch throw (`ClaimThrows` with its leases taken).
- Of the ingress: the failed state of an event, which is not reachable (see above).
- Of chat: a message whose `created_at` precedes one that was fetched before it
  committed. The table and its default are not in the repository.
- Request-scoped services, demonstration stores, pages and
  components: no protocol of their own. See the components in `PROJECT.json`.

## 8. Plan

Done, in this order: `OperationalCapture`, `FactDelivery`, `OperationalOutbox`,
`SupportRegistration`, `TaskWork`, `ChatLive`, `SqlBudget`, `InteractionIngress`,
`RelayRunner` and `WriteBack`, each with its proofs.

Next modules: `RuntimeHandoff`, the single use of a signed handoff with replays, and
the acceptance of order handoffs (`runtime/order-handoff-store.ts`); then the rate
limits and stores behind accounts, OTP and invitations.

Next proofs:

1. The safety half of the liveness properties: that a row, a job or an event that is not
   settled always has a step of its owner ahead of it.
2. `RelayRunner`: what the deadline and a forced exit leave of a hurt source (at most one
   event published again per restart).
3. `InteractionIngress`: bounds on the repeated copies of a message in terms of its
   attempts and relays.
