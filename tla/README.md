# Agent Desk (CRM-system): a TLA+ model of its durable work

The repository is a multi-tenant CRM in TypeScript (Next.js, Prisma over Postgres, BullMQ
over Redis) whose agents write to customers, publish posts and run missions. What is
difficult in it is not a screen or a prompt but the durable work in the background: rows
that several worker processes, HTTP requests, webhooks and people read, decide upon and
update, with external providers that accept things and do not always say so. This
directory models that work.

Contents: the inventory (1), the modules and how they correspond to the code (2), the
runs (3), the bounds (4), fairness and liveness (5), the proofs (6), what the models show
that the code or its comments do not say (7), what is not modelled (8), the plan (9).

All paths below are under `src/src/` (the repository's own `src` directory); `services/`
is `src/src/services/`.

## 1. Inventory

Nothing in the code holds a lock across an await: mutual exclusion is always a conditional
`UPDATE`, a unique index, or a status that is read and later overwritten. Every timer
(`setInterval` in `workers/index.ts`) fires without waiting for its previous run, and
several worker processes may run. So any two of the operations below overlap, at the
granularity of one database call.

| Component | State it keeps | Operations | Interacts with |
|---|---|---|---|
| Domain-event outbox (`services/domain-events`) | `DomainEvent` status, lock, attempts, availableAt; `DomainEventConsumption` | append, stale recovery, claim, process, mark, operator retry and cancel | written inside the transactions of missions, opportunities, publishing; consumers write domain tables |
| Outbound messaging (`services/messaging/outbound.ts`) | `OutboundDispatch.externalOutcome`, `ConversationSendLease`, `Conversation.activityVersion`, opt-out and suppression | dispatch, opt-out and its sweep, clearing, invalidation by a human send | called by the inbox, the inbound pipeline, automations, follow-ups, approvals |
| Mission runtime (`services/mission-runtime.ts`, `mission-state.ts`) | mission status and deadline; task status, attempt, external outcome, approval; dependencies | claim, outcome, complete, fail, wait, approve, reject, resume, crash recovery, cancel, budget stop | queue jobs, domain events, approvals |
| Social publishing (`services/publishing`, `workers/publishing-sweep.ts`) | job status, external outcome, post id; approval request | request, approve, reject, cancel, sweep, dispatch, reconcile, webhook | provider adapters, content pieces, approvals |
| Follow-ups (`services/followups.ts`, `workers/followups.ts`) | follow-up status, scheduledAt | schedule, cancel on reply or booking, sweep | outbound messaging |
| Approval requests (`services/automation-os.ts`) | request status | request, decide, execute | outbound messaging, publishing, missions |
| Agent runs (`services/agent-runs.ts`, `agents/supervisor/execute.ts`) | run status | accept, enqueue, run locally, reclaim, claim, finish | queue, Redis circuit |
| Redis circuit and queues (`jobs/`) | circuit state, paused workers, jobs | open, probe, recover, pause, resume | every worker |
| Mission queue recovery (`services/domain-events/mission-queue-recovery.ts`) | none of its own | enqueue READY tasks whose job is lost | missions, queue |
| Inbound pipeline (`services/inbound-pipeline.ts`) | webhook events, messages, conversation | deduplicate, store, analyse, reply | outbound messaging, opt-out, follow-ups |
| Booking webhook (`services/booking-webhook.ts`) | bookings | create, reschedule, cancel | follow-ups |
| Opportunities (`services/opportunities`) | lifecycle status | detect, transition, accept, expire | missions, domain events |
| Spend gate (`services/ai-spend-gate.ts`) | usage totals | check, charge | agent runs |
| Others | see `PROJECT.json` | research, scoring, twins, retention, organisations, adapters, pages | not state protocols |

What makes each of the modelled components correct, in the order in which it matters:

* Outbox: an event counts as processed only after all its consumers ran; no success of a
  consumer is replayed; one sweep works on an event; attempts are bounded; PROCESSED is
  final; nothing that was appended is stranded.
* Outbound: the provider gets a message at most once; the recorded outcome is final, and where
  it claims to know whether the message was delivered it is right; nothing is sent to somebody
  who opted out before the call.
* Missions: no task before its dependencies; an attempt goes to one worker; crashes and
  recoveries do not repeat external work that is under way, confirmed or uncertain; the mission
  ends exactly when its tasks have; ends are final; a rejected task does not run.
* Publishing: the post is made at most once; the job's status is true of the post, as far as
  the provider's answers are; a withdrawn job is never sent; a confirmation is final.
* Agent runs: a run that was put to PENDING is claimed for one search; COMPLETED means that the
  work was done; the verdict of a run stays once nobody is at work on it; a run nobody has begun
  is not left lying.
* Follow-ups and approvals: SENT means sent, and once; without automatic sending a person
  decides what goes out; what was cancelled in time is never sent.
* Inbound: nothing is marked PROCESSED and forgotten; a message is answered once; an opt-out
  and a person's takeover hold against deliveries that began before them.

The behaviours that make them hard are listed line by line as hazards in `PROJECT.json`, and
those that are left at the end of section 9:
overlapping sweeps, stale reads, crashes between two writes, answers that are lost or late,
locks that expire under their holder, updates by id over a row that has moved on.

## 2. The modules

| Module | Models | MC module | Proofs |
|---|---|---|---|
| `TrackedDelivery` | what the author of an event may rely on (abstract) | | |
| `DomainEventOutbox` | the outbox; implements `TrackedDelivery` | `MCOutbox` | `DomainEventOutboxProofs` |
| `SingleEffect` | what a caller may rely on (abstract) | | |
| `OutboundDispatch` | the messages of one conversation; implements `SingleEffect` | `MCOutbound` | `OutboundDispatchProofs`, `OutboundRefinementProofs` |
| `Workflow` | what the author of a mission may rely on (abstract) | | |
| `MissionRuntime` | one mission; implements `Workflow` | `MCMission` | `MissionRuntimeProofs` |
| `PublishingDispatch` | one publishing job | `MCPublishing` | `PublishingDispatchProofs` |
| `AgentRuns` | one agent run, its queue and its rescuers | `MCAgentRuns` | `AgentRunsProofs` |
| `FollowUps` | follow-ups and approval requests, on top of `OutboundDispatch` | `MCFollowUps` | `FollowUpsProofs` |
| `InboundPipeline` | inbound messages, on top of `OutboundDispatch` | `MCInboundPipeline` | `InboundPipelineProofs` |

`FollowUps` and `InboundPipeline` compose two components: they EXTEND `OutboundDispatch`, start
its calls, wait for their answers and supply what it takes from its environment (approvals,
activity, opt-outs). With their own variables hidden, their behaviours are behaviours of
`OutboundDispatch`, which is proved, so its theorems hold inside them. The proof modules
EXTEND the module they are about and TLAPS; those of the compositions also EXTEND
`OutboundDispatchProofs`.

Conventions. A variable is a column (a function from row ids to values) or the local state
of an overlapping execution (a function from executions to values, `pc` among them). One
action is the code between two awaits, that is one database or provider call together with
what is computed from its result. A conditional update (`updateMany ... where`) tests and
writes in one action; an update by id after a read is two actions, and the second does not
look. Crashes drop an execution's locals and leave the rows. Ghost variables count what no
column records (handles that returned, posts that were accepted); no guard reads them, but
for two cases in the environment which are named below. Operators whose name starts with
`Mutant` are plausible bugs of the operator they precede; no specification uses them, they
are there to show that each property notices a change of the code.

### DomainEventOutbox and TrackedDelivery

`RecoverStale`, `ClaimBatch`, then per event `Refresh`/`RefreshSkips`, per consumer
`Lookup`, `CreateConsumption`/`UpdateConsumption`, `Handle`, `Record`, and finally `Finish`
follow `dispatcher.ts` and `consumers.ts` statement by statement. `Claimable` is the WHERE
clause of the raw SQL; `FOR UPDATE SKIP LOCKED` makes the batch any subset of the claimable
rows, empty only when there is none. Time is two flags per row: `due` (availableAt has
passed) and `stale` (lockedAt is older than STALE_LOCK_MS). `LockExpires` ages an abandoned
lock; `LockOverrun`, bounded by `MaxOverruns`, ages the lock of a sweep that still works,
which nothing in the code prevents because no statement extends lockedAt. `RecordFails`,
`MarkProcessedFails` and `Crash` are the failing database calls, and an error that leaves
the sweep. `OperatorRead` and `OperatorWrite` are the two halves of the administrator's
retry and cancel. A consumer's effect is abstracted into its outcome: a result, a skip, a
transient or a permanent error.

`TrackedDelivery` says what the author of an event may rely on: a consumer gets the event
(`Deliver`) as often as it takes until somebody has recorded that it did (`Acknowledge`), and
never again after that; the event is delivered only when all consumers have acknowledged it
(`Succeed`), or it is given up or called off; nobody gets an event that is over. The outbox
maps to it by

    deliveries <- delivered (handles that returned)
    acked      <- the consumers whose row says PROCESSED or SKIPPED
    state      <- absent before the append; delivered, abandoned or withdrawn for PROCESSED,
                  DEAD_LETTER and CANCELLED, once no sweep has the event in hand; pending before

The last clause is again the interesting one: an administrator cancels a row that a sweep works
on, the sweep goes on with its consumers and writes its verdict over the cancellation. The
event is over only when the sweep is done with it. `OutboxIsTracked` is this mapping as a
property; it needs that no lock expires under a running sweep and no administrator retries.

### OutboundDispatch and SingleEffect

One call of `dispatchOutboundMessage` is a walk through 18 program counters in the order
of the function: approval gate, lookup of the row by idempotency key, first contactability
gate, read of the conversation, row creation, invalidation by a human, lease (look, then
update or create), recheck of `activityVersion`, second gate, credential check, DISPATCHING,
adapter, confirming transaction or failure, and the `finally` block that releases the lease.
`Throw` goes to the `finally` block if the lease was taken, `Crash` does not. The provider
(`Send`) accepts the message or not, and answers. Only "ok" says something of the message: an
uncertain answer and a failed one come with or without an acceptance, since the adapters return
a plain `ok: false` for every response that is not a success, 500 and 504 included
(`adapters/messaging/index.ts:59`). The dispatch writes RECONCILIATION_REQUIRED for the first and
FAILED/PROVIDER_SEND_FAILED for the second (`outbound.ts:549`); the model keeps that FAILED apart
from the one the dispatch decides by itself before it calls the adapter. Around the calls:
`Approve` and `Overrule` of requests, `Activity` (inbound message or handoff), `SetMode` (the
automation is paused or resumed), `Revoke` (the connection), `OptOut` with the sweep that follows its transaction (`OptOutSweep`),
`ClearOptOut`, `LeaseExpires`. `auto` is AI_AUTO_SOCIAL_SEND, fixed per behaviour. `Answer` is what a call tells its caller when it returns.

`RetriesWait` is an assumption about the callers, not about this function: TRUE says that
two calls with one key do not overlap (a caller retries after its call has ended or died).
The unconditional results are checked with it FALSE. Message windows, prior-inbound checks
and texts are part of the outcome of a gate.

`SingleEffect` says in four actions (`Perform`, `Confirm`, `GiveUp`, `Refuse`) what a caller
may rely on when it repeats a request: one effect at most, one verdict, true of the effect
or "unknown", and nothing after the verdict. `OutboundDispatch` maps to it by

    effects <- sends
    verdict <- CONFIRMED is "done"; RECONCILIATION_REQUIRED and PROVIDER_SEND_FAILED are
               "unknown"; FAILED by the dispatch's own decision is "refused", once no call
               is left that began before the failure

The last clause is the interesting one: FAILED may be overwritten by a call that read the
row earlier, so FAILED is a verdict only for those who come later. `DispatchIsSingleEffect`
is this mapping as a property; it needs callers that wait, and no opt-out, whose sweep fails
messages that are being sent.

### MissionRuntime and Workflow

Every operation is one interactive transaction at Postgres' default isolation, so it sees
what others commit between its statements. An operation is therefore two steps: `Read`
takes the view of the first statements and checks what they check (`Accepted`); the second
step (`Claim`, `Complete`, ...) commits. A later read inside the transaction may return the
earlier view, when nobody changed the locked rows since, or the current rows (`Later`).
Writes are by id, except the compare-and-swap of the claim (`StillReady`). `RollBack` stands
for every failure, since a transaction leaves nothing behind.

External work is reported by `SetOutcome` (`setTaskExternalOutcome`, which only tests call at
this commit; what it reports is the constant `Reported`). The ghost `released` holds the tasks
that somebody let repeat their external work: a retry or a resume that made the task ready
(`GiveBack`) while its work was under way, confirmed or uncertain (`Engaged`); a report that came
when a recovery had already given the task back; a report that the work is uncertain. A claim
takes the task out again. `transitionMissionStatus` is exported and has no caller in the
repository; it is left out.

`Delivered` is "once" when a task has one worker at a time and "twice" when the queue
delivers a job to two. `Accepted` is part of the first step's guard: a call that its first
reads refuse changes nothing. Budgets are the operation `stop`; the amounts are not modelled.

`Workflow` says in three actions what the author of a mission may rely on: `HandOut` gives the
next attempt of a task to one worker, while the mission is open and all dependencies are done;
`Report` adds finished tasks, and the report that leaves nothing to do completes the mission
in the same step; `GiveUp` ends it without that. Every end is final. The mission maps to it by
its status (`Phase`), the COMPLETED tasks and the ghost `claims`. `MissionIsWorkflow` is this
mapping as a property; it needs transactions that do not overlap.

### PublishingDispatch

One job from `requestPublish` on, on a native or a Zernio connection. `Look`, `Claim` (the
conditional update), `Check`, `Call`, `Answer`/`Timeout`, `Recheck`, and one of `Record`,
`MarkFailed`, `MarkReconciliation` follow `dispatchPublishingJob`. The provider decides
(`Decide`) independently of whether anybody still waits: `racePublish` abandons the promise
but does not cancel the call. An answer may be true, missing, uncertain (429, 502, 503,
timeout: what the pattern of `dispatch.ts:589` matches), or another error, which comes before the
decision, after a refusal or after an acceptance (a plain 500 or 504, an adapter's fallback text
as in `adapters/social/instagram.ts:168`). The dispatch takes the last kind for a refusal
(`dispatch.ts:604`); the ghost `misled` records that it came although nothing was refused. People approve, reject (the
job, or the request through the approvals route), cancel, confirm by hand and reconcile,
each in a read and a write. `Webhook` finds the job by its stored post id.

Two guards read ghosts, both in the environment: a person confirms by hand only a post that
was accepted (`posts > 0`), and an event of the platform tells the truth about `live`.

### AgentRuns

One run from `createAndEnqueueAgentRun` on. `CreateRun` decides where it executes: at once
inside the request, locally after it, or through the queue. `WebStep` is the request's own
waiting: it looks at the run three times and reclaims what looks like an orphan; `WebDies` and
`DispatchRefused` are its failures. `Work` is the BullMQ worker taking a job (an attempt of
it), `LoseJob` and a redelivery are the queue's faults. Each execution of `executeAgentRun`
is a process of `Calls`: the read of the run, the count of its steps, the claim of the quick
path or the general claim to PLANNING, the planner, the loop over the steps, the finish, and
the paths that errors take (`note`, `salvage`, `giveUp`). People (`UserReads`, `UserStep`)
answer a clarification or confirm an image prompt: a read, a write to PENDING, an enqueue.
Every claim is conditional, every later write goes by id; that is what the properties are
about. The catch around the whole of `createAndEnqueueAgentRun` (`agent-runs.ts:726`) is left out:
the heartbeat read and the enqueue inside it catch their own errors, so that only Next's `after`
could throw into it.

### FollowUps

Rows by status, each with the key of its message. A sweep reads the due rows once and works
them off one by one: `check`, then either a call of the dispatch (automatic sending) and the
write of its result, or an approval request and the write of CANCELLED. A person's decision is a
read of the request, the write of the decision and, after an approval, a dispatch and the
write of SENT. Replies, bookings and opt-outs cancel what is SCHEDULED, `scheduleFollowUps`
included. Sweeps, people and dispatches interleave at every database call; exceptions skip
to the next row or leave the route, crashes leave everything.

The ghosts name what the properties have to tell apart: rows two dispatches of which ran at
a time (`crowded`), rows cancelled before any sweep had read them (`intime`), calls whose
request was rejected before they began (`vetoed`).

### InboundPipeline

A delivery of a message walks through `processInboundMessage`: find or create the webhook
event (the unique key decides), claim it, the storing transaction (duplicate check, message
row, activityVersion, opt-out), the cancelling of follow-ups, the rules, the AI's analysis and
verdict (`draft`), then an approval request or a dispatch (`reply`, `wait`), the follow-ups and
PROCESSED. An opt-out message takes its own way: apply, sweep, quiet, finish, after. A
delivery decides on what its transaction saw (`saw`), seconds before it acts; people take
the conversation over and give it back meanwhile (`TakeOver`, `Resume`).

Abstracted: contact, conversation and lead exist already; of the automation rules only the
pause is modelled; the follow-ups of one message are one element; what people do with the
requests is the subject of `FollowUps`; the DUPLICATE status, which the Zernio route writes to
a row of its own, and `clearOptOut` do not occur.

## 3. The runs

States are distinct states (under symmetry where the run has one).

| Run | States | What it asks | Result |
|---|---|---|---|
| `outbox_exclusive` | 183 844 | Two sweeps, two events (one of a newer version), a fault, a cancelling administrator, no lock that expires under its holder: one sweep per event, the outbox implements `TrackedDelivery` (no success is replayed), PROCESSED is final | holds |
| `outbox_settles` | 177 117 | Overlaps allowed, retry and cancel, a fault: PROCESSED implies that the consumers ran; every appended event settles | holds |
| `outbound_serial` | 909 702 | A human and an automated message, calls of one message do not overlap, two faults, activity, with and without automatic sending: the dispatch implements `SingleEffect` | holds |
| `outbound_concurrent` | 1 437 951 | Calls of one message overlap, leases expire, opt-out: CONFIRMED means sent, late calls never send | holds |
| `outbound_double_send` | (stops early) | Sent at most once, when calls of one message overlap? | violated, section 7 |
| `mission_serial` | 1 289 684 | All twelve operations, one transaction at a time, three tasks of which the third joins the others: the mission implements `Workflow` (ends are final), mission and tasks agree, external work is repeated only where somebody let it be | holds |
| `mission_workers` | 253 258 | Two overlapping transactions, jobs delivered twice, without retries: dependencies first, one worker per attempt | holds |
| `publishing_dispatch` | 180 362 | Two sweeps, two people, faults, events, both paths: posted once, PUBLISHED means posted, FAILED means not posted unless an error misled, withdrawn jobs not sent, confirmations stay | holds |
| `agent_overlap` | 2 014 814 | Two executions at a time, two answers, an error, a death, a doubled or refused job, every kind of request: between two writes of PENDING one quick search, COMPLETED means worked, a settled verdict stays | holds |
| `agent_watched` | 603 560 | Jobs lost or delivered twice, under fairness: a run nobody has begun ends or asks its person while its request watches it | holds |
| `followups_approvals` | 1 112 022 | Two sweeps, two people, one follow-up, two requests for it, with and without automatic sending, a cancellation, an exception or a crash: SENT means sent, approval decides, sent once, cancelled in time is never sent, SENT stays | holds |
| `inbound` | 2 444 895 | Two messages and an opt-out in three deliveries by two processes, a takeover, an exception or a crash: handled before PROCESSED, answered once, opt-out and pause hold, PROCESSED stays | holds |

Properties that are stated under a condition say so in their comment, and the condition is
one that the code needs: `FailedMeansNotPosted` excludes the Zernio path, whose error branch
takes every error for a refusal, and attempts that were misled by an error which came before the
provider had decided or after it had accepted;
`ConfirmedStays` excludes `stampNote`, which writes by id; `ProcessedIsFinal` leaves out an
administrator whose read came before; `SentOnce` and `AnsweredOnce` leave out rows and messages
two dispatches or deliveries of which overlap (section 7 says what happens to them);
`OptOutSticks` and `PauseStands` leave out the deliveries that were past their transaction;
`VerdictStays` leaves out runs with a call or an answer on its way to a write by id;
`OneSearchPerOpening` counts from each write of PENDING, and two overlapping answers write it twice.
None of the conditions is enforced by a guard of the model.

Deadlock is checked for the outbox, where a sweep can always start again. The other modules
end when every bound is used up and every row has reached a status nobody moves any more, so
there it is switched off.

## 4. Bounds, and why they are enough

* Two executions (sweeps, calls, transactions, deliveries) overlap: every race in the code is
  between one reader that decides and one writer that comes in between; a third participant is
  the administrator, the person, the webhook or the provider, which are separate. The proofs
  hold for any number.
* Two attempts distinguish the first, the last, and one too many. Two consumers let one of
  them be recorded while the other fails. Three tasks give a join. A human and an automated
  message are the least with which a human preempts a lease; three calls let the automated one
  be tried again after that. Two requests about one follow-up are what a crash between the request and the
  CANCELLED write leaves. Two inbound messages and an opt-out let one reply become stale by the
  other message, and the opt-out arrive before, between and after them; three deliveries are
  the three messages once, or one of them again.
* `MaxFaults`, `MaxBreaks`, `MaxOverruns`, `MaxExpiries`, `MaxRequests`, `MaxCalls`,
  `MaxActivity`, `MaxAnswers`, `MaxPeople`, `MaxDeliveries` and `MaxEvents` cap how often a bounded
  thing happens in a behaviour, never when. One crash anywhere, together with a retry, reaches
  each half-done state. In `FollowUps` `MaxEvents` bounds replies, bookings and handoffs
  together, `MaxActivity` the overruled approvals; in `InboundPipeline` `MaxActivity` bounds what
  raises activityVersion: stored messages, verdicts and pauses, and 4 of them are two stored
  messages with two of the others. The counters of `PublishingDispatch` are large enough for a
  job to be approved, reconciled, cancelled and confirmed in one behaviour.
* `outbound_serial` has no opt-out, because the refinement it checks does not hold with one;
  `outbound_concurrent` has it. `agent_watched` has two steps and lost and doubled jobs but no
  errors, `agent_overlap` errors and deaths but one step; each fault concerns one question.
* `Reported` is {DISPATCHING, CONFIRMED} in `mission_serial`, the two that recovery treats apart;
  RECONCILIATION_REQUIRED arises there by recoveries of work in DISPATCHING, and a worker that
  reports it itself is left to the theorem. FAILED and NOT_STARTED are treated alike everywhere,
  and `mission_workers` has FAILED too.
* Symmetry is used for sweeps, calls, people, requests, administrators, events of one release
  and inbound messages, which no property tells apart; the two liveness runs have none.

## 5. Fairness

`FairSpec` of the outbox assumes weak fairness of a sweep's own steps (the interval fires
again; an issued query returns), of `BecomeDue` and of `LockExpires` (time passes). It
assumes nothing of appends, administrators, faults and overruns. Under it a crash delays an
event and does not strand it: the stale lock is recovered by the next sweep, whichever
process runs it. Attempts are bounded, so a consumer that keeps failing ends in
DEAD_LETTER, except that an administrator's retry or a recovery grants further attempts;
those are bounded by `MaxRequests` and by faults and overruns.

`FairSpec` of the agent runs assumes weak fairness of `WebStep` (the timers of a request that
lives fire), `Work` (some worker takes waiting jobs), each call's steps (a query or an agent
returns; the agents have timeouts) and of a person's request that has begun. It assumes nothing
of faults, of `WebDies` and of people. `WatchedRunEnds` starts from a PENDING run without
steps whose request still watches. Without the watcher nothing brings a run back whose
job is lost: there is no sweep for agent runs.

No liveness is claimed for the other modules. The code has no sweep that brings a crashed
DISPATCHING job or message back (a person reconciles it), a mission can be stuck for ever
(section 7), a follow-up that failed stays so, and the inbound route of Meta answers 200 after
an error, so that a FAILED message is never delivered again unless an administrator asks.

## 6. The proofs

All proofs are checked by TLAPS without further assumptions than the named ASSUMEs of the
modules, which type the constants (and say of the compositions which calls belong to whom).
A theorem that needs more about its instance says so in its ASSUME: `RetriesWait` and no
opt-out for the refinement of `SingleEffect`, `Exclusive` (no lock expires under a running
sweep, no administrator retries) for the outbox, `Serial` (no two transactions overlap) and at
least one task for the missions. These are the conditions of the runs, made explicit.
`ClaimsCannotRace`, the condition of `ClaimsCorrect`, is weaker than any run's: transactions do
not overlap, or none of them hands a task back (retry, resume, recover) and either at most two
overlap or no task depends on another.

| Theorem | For every value of the constants | Inductive invariant |
|---|---|---|
| `TypeCorrect`, `OutboundTypeCorrect`, `MissionTypeCorrect`, `PublishingTypeCorrect`, `AgentTypeCorrect`, `FollowUpTypeCorrect`, `InboundTypeCorrect` | each module keeps its types | the type invariant, with the types of the locals per program counter |
| `DeliveryCorrect` | PROCESSED implies that every consumer's handle returned | `DeliveryInv` |
| `OneSweep`, `SuccessKept`, `ProcessedKept` | one sweep per event, no success replayed, PROCESSED final, when exclusive | `ExclusiveInv` |
| `OutboxTracksDelivery` | the outbox implements `TrackedDelivery`, when exclusive | `TrackedInv` |
| `OverlapCorrect`, `LateCallsStop` | CONFIRMED implies sent, late calls never send, in every interleaving | `DeliveryInv` |
| `RetriesSendOnce` | with `RetriesWait`, a message is sent at most once | `SerialAt` |
| `RetriesGetOneEffect` | with `RetriesWait` and no opt-out, the dispatch implements `SingleEffect` | `SoleInv` |
| `DependenciesCorrect` | no task before its dependencies | `DependencyInv` |
| `CompletedAgrees`, `DoneEnds`, `EndsStay` | mission and tasks agree, ends are final, for serial transactions | `AgreeInv` |
| `NothingReplayed` | external work that is under way, confirmed or uncertain gets another attempt only where somebody let it, for serial transactions | `ReplayInv` |
| `MissionDoesWorkflow` | the mission implements `Workflow`, for serial transactions | `WorkInv` |
| `ClaimsCorrect` | an attempt goes to one worker, where claims cannot race | `ClaimInv` |
| `PostsOnce`, `PublishedCorrect`, `WithdrawnCorrect`, `ConfirmationsStay` | posted at most once; published means posted; withdrawn is never sent; confirmations stay | `PostInv` |
| `FailuresAreTrue` | a native job that failed, and was not misled by an error, is not public and will not be | `FailInv` |
| `OneSearch`, `CompletedEarned`, `RunningKept` | between two writes of PENDING one search; COMPLETED was earned; PLANNING never over RUNNING | `AgentInv` |
| `VerdictKept` | the verdict of a settled run stays | `EarlyInv` |
| `FollowUpsUseDispatch`, `InboundUsesDispatch` | with their own state hidden, the compositions behave as `OutboundDispatch` | the step simulation |
| `FollowUpsStayTruthful`, `RepliesStayTruthful` | inside the compositions too CONFIRMED implies sent, and late calls never send | from the simulation and `OverlapCorrect` |
| `SentWasSent`, `SentOnceWhenAlone`, `CancelledBeforehand`, `ApprovalHolds`, `SentKept` | the five properties of the follow-ups | `SentInv`, `MetInv`, `InTimeInv`, `ApprovalInv` |
| `PausesStand`, `OptOutsStick`, `RepliesOnce`, `ProcessedKept`, `ProcessedIsHandled` | the five properties of the pipeline | `PauseInv`, `OptOutSeen` and `QuietInv`, `AnsweredInv`, `HandledInv` |

The arguments:

* Outbox. PROCESSED is written by a sweep that looks at its own `failure`, while the
  evidence is in rows that other sweeps write. `DeliveryInv` says that a consumption row
  that records a success has a handle that returned behind it (`RowHonest`), and that for a
  sweep inside an event with no failure so far every consumer before `k` has been delivered
  (`SweepHonest`). Deliveries only grow, so no other sweep can spoil it; that is why the
  theorem holds although exclusion does not. `ExclusiveInv` is the other regime: while no lock
  overruns, an event held by a sweep is PROCESSING or CANCELLED, not stale and held by nobody
  else (`HeldAlone`), and the consumer in hand has no recorded success (`Unrecorded`).
* The refinement of `TrackedDelivery`. An event that a sweep has in hand counts as pending, so
  every handle and every record of the sweep happens to a pending event, whatever an
  administrator does to the row. `HeldAlone` says that nobody else ends it meanwhile, `Unrecorded`
  that a handle runs only for a consumer that has not acknowledged. `Behind` is what `Succeed`
  needs: a sweep without a failure leaves a recorded success behind it at every consumer, so
  that the verdict PROCESSED comes when all have acknowledged.
* Outbound. `DeliveryInv` ties each program counter to the row: a fresh message has not been
  sent, a call between DISPATCHING and its conclusion works on a row that is not fresh, an
  answer "ok" means that the message was sent, a late call gets no further than the first gate.
  `SerialAt` adds, for calls that do not overlap, that a key has one call and that a call
  between its lookup and the provider's answer works on an undelivered message.
* The refinement of `SingleEffect`. Each step of the dispatch changes the rows in one of a few ways
  (`RowChange`); under `SoleInv` (the one call of a message has the row in hand, and a message
  the dispatch failed by its own decision was not sent) each of them is a step of `SingleEffect` or a stutter under the
  mapping (`VerdictChange`). A verdict "refused" appears when the last call that began before
  the failure ends, together for all messages that end with it, which is why `Refuse` takes a
  set.
* Missions. `finished` only grows. `DependencyInv` says that the rows, and every view that a
  transaction still holds, are justified by it: who has moved has all its dependencies in
  `finished`, and who is COMPLETED is in it. A stale view stays justified for that reason, and
  that carries the result through reads at different times and through writes by id. For
  serial transactions `AgreeInv` says that the open transaction's view is fresh and what it
  checked still holds; then each commit writes exactly the rows its verdict was computed
  from, and that is the whole argument. It also shows what breaks without `Serial`.
* External work. `ReplayInv` says that a waiting task whose work is engaged has been released, and
  so has a task whose work is uncertain, or it is BLOCKED. A recovery finds a running task either
  confirmed and completes it, or under way and blocks it, or uncertain, and then it was released
  before; so what the claim finds ready and engaged is released.
* The refinement of `Workflow`. Each step of a serial mission is one of four kinds (`WorkSteps`):
  `Still`, `HandsOut`, `ReportsOn`, `Stops`, each saying what happens to the statuses, the
  attempts and the mission together. Under `WorkInv` each kind is an action of `Workflow` or a
  stutter. What `WorkInv` adds to the invariants above: the attempts stored are the attempts
  handed out (`HandedInOrder`), tasks are CANCELLED with their mission and then none is RUNNING
  (`CancelledTogether`), `finished` and COMPLETED are the same. The verdict COMPLETED is given
  when every task is COMPLETED or CANCELLED; because of `CancelledTogether` that means that all
  were completed. A failed mission still hears of tasks under way, but the report that would
  leave nothing to do does not get through (FAILED -> COMPLETED is no transition).
* Overlapping claims. The compare-and-swap looks at the status and stores the attempt that was
  read, plus one. It is safe as long as a task that somebody claimed behind a reader's back
  (`Overtaken`) can be made ready by nobody (`OutOfReach`): it is not ready, and no other
  transaction has seen it pending, so that no stale `markReadyTasks` writes READY over it. With a
  third transaction and dependencies, or with an operation that hands tasks back, somebody can.
* Publishing. While nobody claimed the job nothing happened at the provider (`ClaimInv`);
  the claim is the only way into a dispatch and needs a status no later step restores, so
  there is one dispatch (`OneDispatch`), one call (`OneFlight`); and whoever is about to
  store a confirmation has evidence of a post (`EvidenceInv`). `FailInv` is the dual: whoever is
  about to store a failure on the native path knows that no call is out and nothing is public.
* Agent runs. `AgentInv` says what each call has earned: a verdict COMPLETED is only carried by a call
  that did the work (`EarnedVerdict`), and an open run has not been claimed for a search since it was
  put to PENDING. `EarlyInv` says that nobody has touched a run its request has not dispatched; so
  once it has ended nobody starts the local fallback any more, whose catch writes FAILED without
  looking, and every other way to a write begins with a condition on the status.
* Follow-ups. `SentInv` carries the truth of the dispatch's answer over to the write of SENT;
  `MetInv` and `InTimeInv` say that no sweep holds a row cancelled in time; `ApprovalInv` says
  that, without automatic sending, every call that passed the approval gate has a person's
  approval behind it.
* Inbound. `PauseInv`: whoever still believes the conversation open during a pause was past its
  transaction at the pause. `OptOutSeen` and `QuietInv` say the same of opt-outs and of what they
  leave scheduled. `AnsweredInv`: a message without overlapping deliveries has one delivery in
  hand, and a PROCESSED one none. `HandledInv` follows a delivery from its transaction to
  PROCESSED and says at each step why what it will have done is enough.

Only model-checked: the two liveness properties, `EventuallySettled` and `WatchedRunEnds`, which
are outside what the prover does. Every other property of a passing run is stated by a
theorem. Two properties that no run checks by themselves, `SuccessNotReplayed` and `EndIsFinal`,
are proved (`SuccessKept`, `EndsStay`); the runs check the refinements that imply them.

## 7. What the models show about the code

One run is expected to be violated and quotes what the repository says in `PROJECT.json`:
`outbound_double_send`. The lease is re-entrant for its holder, and the holder is derived
from the message, so two overlapping calls for one key both send.

The models also have behaviours that no run is devoted to. They follow from the lines named
in the hazards; the properties above leave them out by their conditions.

* Outbox. The dispatcher checks that the event is PROCESSING, not that it still owns the lock,
  so a sweep that outlives `STALE_LOCK_MS` runs a consumer again after another sweep recorded its
  success (`services/domain-events/consumers.ts:139` says "Successful prior runs are not
  replayed."). A cancelled event can be overwritten by the sweep that works on it.
* Outbound. DISPATCHING is written by id over a FAILED that a human send or an opt-out put
  there (`outbound.ts:497`). The sweep of `applyOptOut` fails a DISPATCHING row the provider may
  have accepted. A call that overlaps a sending one writes RECONCILIATION_REQUIRED over its
  CONFIRMED. FAILED/PROVIDER_SEND_FAILED is written for every answer that is not a success
  (`outbound.ts:549`, `adapters/messaging/index.ts:59`): after a 500 or 504 the message may have been
  delivered all the same, and a retry answers that it failed. A human call that preempts an automated lease deletes it at its end, so that a
  second automated call can enter while the first still works.
* Missions. A retryable failure returns a task to READY without a look at its external
  outcome, CONFIRMED included (`mission-runtime.ts:560`), and so does the resume after an approval
  (`:737`). Recovery blocks work in DISPATCHING and marks it RECONCILIATION_REQUIRED, but hands a
  running task that is marked so out again (`:877`): after a retry or a resume of the blocked task
  and another crash, or when the worker reported the uncertainty itself. With overlapping transactions and
  retries an attempt of a task can be handed out twice (the compare-and-swap compares the
  status, not the attempt); `ClaimsCorrect` says when it cannot, and TLC finds the violation just
  beyond its condition: two transactions with a retry, a recovery or an approved task that
  resumes, or three without any of them and tasks that wait for two others. `markReadyTasks`
  can take COMPLETED back to READY, and two completions can each miss the other, so that nobody
  ends the mission. A task that comes back
  after its last attempt makes every claim throw (READY -> FAILED is no transition); so does a
  QUEUED mission past its deadline; and a task whose dependency failed stays PENDING, so its
  mission never ends.
* Publishing. A native job whose provider answers with an error that `dispatch.ts:589` does not know
  is FAILED, although the provider may have accepted the post or may yet do so. A cancellation that read the job before its dispatch overwrites the confirmed
  job. The Zernio path records a refusal for an answer that says nothing. `stampNote` can
  overwrite a confirmation, and the approvals route can mark a request REJECTED whose job is
  queued.
* Agent runs. The general claim accepts PLANNING and stores PLANNING, so it does not exclude a
  second executor. RUNNING, AWAITING_CLARIFICATION and the final status are written by id, so
  an ended run can be opened again. An error that escapes the quick path after its claim, or a
  death after RUNNING, leaves the run RUNNING for ever. The local fallback writes FAILED by id
  even when only the write of `bullJobId` failed after a completed execution. The reclaim's
  PLANNING branch wants a run 40 seconds old, and its last check comes at 35 seconds. Two
  overlapping answers to one clarification (`agent-runs.ts:803`) may each be searched. A
  clarification whose enqueue is refused stays PENDING, and clarified runs have no reclaim. A run
  whose image prompt was confirmed is stopped by the guard that counts steps, since the analysis has
  left one: nothing is generated and the run stays PENDING (`agent-runs.ts:911` says "Confirm (or edit) the derived imaging prompt, then enqueue generation
  only.").
* Follow-ups. The request is created before CANCELLED is written, so a slow sweep can overwrite
  SENT with CANCELLED, and after a crash in between the next sweep asks again. A sweep that
  sent and died leaves SCHEDULED, and a reply then makes CANCELLED of a sent follow-up.
  Overlapping sweeps: the one whose dispatch is refused writes FAILED over SENT. A failed send
  after APPROVED cannot be decided again.
* Inbound. The transaction that stores the AI's verdict un-pauses a conversation that a person
  took over meanwhile; a rule that pauses the AI on the same message has no effect for the same
  reason (`customer-labels.ts:208` offers "Pause AI replies"). A reply to an older message that is confirmed while a
  newer one is dispatched makes the newer reply stale, which is not put to a person: the newest
  message is PROCESSED and unanswered. An administrator's retry after a failure past the request asks for approval a
  second time (`api/admin/webhooks/retry/route.ts:13` says "Idempotent retry"). The rules of an
  opt-out run after its PROCESSED, and a throw there writes FAILED over it. Overlapping
  deliveries of one message may leave two batches of follow-ups, and the verdict of one delivery
  clears the flag for a person that another has set.
* Follow-ups, again. A SENT write or the note on the request that fails after the dispatch has
  returned (`automation-os.ts:450`) leaves the same rows as a process that dies inside the dispatch
  after its last write, and is modelled only as that (`DispatchDies`).

## 8. What is not modelled

Contents (messages, captions, prompts, scores), tenants (every statement is scoped by its
organisation, and one is modelled), permissions, formatting, logging and pages: the largest
part of the repository by lines is its screens, its agents' prompts and its read-only
queries, which have no protocol a state machine would add something to. Of the modelled
components: budget amounts and the queue's jobs of the missions, the content piece's own
status and the appended events of publishing, the effects of the outbox's consumers, the
message windows of outbound, costs and progress of agent runs, the approval requests of other
kinds than messages and posts, `transitionMissionStatus` of the missions and the outer catch of
`createAndEnqueueAgentRun` (neither of which anything reaches), the creation of contacts and leads, scoring and booking links of
the pipeline. Not modelled at all are the components `PROJECT.json` lists as such, each with its
reason; those with a protocol of their own are in the plan. The order in which Postgres' locks
are granted is abstracted into the interleaving of statements; a serialisation failure is a
rollback.

## 9. Plan

What is left, in this order:

1. `EventAppend`: aggregateSequence and dedupeKey under concurrent transactions.
2. `RedisCircuit` with the paused workers, and the job queue with the mission recovery;
   liveness of a mission with its queue, and which missions are stuck.
3. `BookingWebhook`, composed with the follow-ups: order and deduplication of booking events.
4. `Opportunities` and `SpendGate`.
5. `SingleEffect` refined by `PublishingDispatch`, whose verdict a webhook may correct; an abstract
   specification of an agent run.

### Hazards not in PROJECT.json

`PROJECT.json` lists the hazards that the present runs answer, in whole or with the rest in a note,
and the most important ones that they do not, each with a note. These are further ones, of the modelled components and of those in the plan, at the line where they
bite:

* `services/domain-events/dispatcher.ts:55`: No order is kept between events of one aggregate:
  a retried event is consumed after its successor.
* `services/messaging/outbound.ts:426`: activityVersion is compared after the lease, the send
  happens four database calls later: a human message or an inbound one in between does not
  stop it.
* `services/messaging/outbound.ts:497`: DISPATCHING is written by id, over a FAILED that a
  human send, an opt-out or another call wrote after the checks.
* `services/messaging/outbound.ts:166`: A crash leaves the lease until it expires and the row
  in PREPARED or DISPATCHING; the retry runs under the same holder.
* `services/messaging/outbound.ts:577`: The confirming transaction fails after the provider
  accepted: the row stays DISPATCHING and only a retry moves it to RECONCILIATION_REQUIRED.
* `services/opt-out.ts:84`: applyOptOut's sweep fails a DISPATCHING row that the provider has
  accepted; if the call crashes the row says FAILED for a delivered message.
* `services/opt-out.ts:124`: clearOptOut resets the flag and leaves the suppression, which
  nothing deletes: the flag and the suppression disagree from then on.
* `services/messaging/outbound.ts:259`: A call that overlaps a sending one writes
  RECONCILIATION_REQUIRED by id after the other wrote CONFIRMED.
* `services/mission-runtime.ts:560`: A worker confirms its external work and then fails with a
  retryable error.
* `services/mission-runtime.ts:302`: The last attempt of a task is used up, and the task comes
  back: recovery or an approval makes it READY with attempt = maxAttempts, the next claim
  asserts READY -> FAILED, which TASK_TRANSITIONS does not have, and every claim throws.
* `services/mission-runtime.ts:795`: resumeAfterWorkerCrash takes every RUNNING task for
  crashed: there is no heartbeat, and a worker that is alive loses its task or runs beside its
  successor.
* `services/mission-runtime.ts:558`: failTask with a retryable error on a BLOCKED task
  (reconciliation required) or a FAILED one makes it READY again.
* `services/mission-runtime.ts:277`: A QUEUED mission past its deadline: QUEUED -> FAILED is
  no transition, and every claim throws.
* `services/mission-runtime.ts:273`: The budget is compared when a task is claimed and spent
  when it completes, so the tasks in flight overspend it.
* `services/publishing/dispatch.ts:424`: On the Zernio path every error is a refusal, 429,
  502, 503 and gateway timeouts included: the job is FAILED and the post may be public.
* `app/api/approvals/route.ts:184`: A rejection that comes after an approval leaves the job
  alone (its update is conditional) but still marks the request REJECTED: the job is published
  under a rejected request.
* `services/publishing/dispatch.ts:201`: A worker that dies after the claim leaves the job
  DISPATCHING: no sweep selects it, no recovery exists, and cancelPublishingJob refuses it.
* `services/publishing/reconcile.ts:27`: reconcilePublishingJob has no caller in src/, so a
  job in RECONCILIATION_REQUIRED is resolved by a Zernio webhook or by nobody.
* `services/publishing/dispatch.ts:829`: markFailed changes the job under a condition and then
  sets the content piece FAILED without one: a confirmed job's piece becomes FAILED when its
  dispatch fails late.
* `services/publishing/approve.ts:251`: A job in RECONCILIATION_REQUIRED, perhaps public, can
  be cancelled with the note 'Cancelled before dispatch'; cancelled, it can never be requested
  again, since its idempotency key is unique.
* `agents/supervisor/execute.ts:480`: The step guard against concurrent executions also stops
  the second, legitimate execution of a run whose prompt was confirmed.
* `agents/supervisor/execute.ts:466`: A process that dies after RUNNING, or an error that
  escapes the quick path after its claim, leaves the run RUNNING: the retry returns early and
  no sweep looks for such runs.
* `services/agent-runs.ts:700`: The local fallback's catch writes FAILED by id, also when only
  the write of bullJobId after a completed execution failed.
* `services/agent-runs.ts:803`: Two answers to one clarification both pass the read, both put
  the run to PENDING and both enqueue it, the second perhaps while the first is RUNNING.
* `services/automation-os.ts:442`: The dispatch of an approved request fails: the request
  stays APPROVED and can never be decided again.
* `services/domain-events/append.ts:72`: Two transactions append to one aggregate and both
  take the highest aggregateSequence plus one.
* `services/domain-events/append.ts:66`: Two transactions look for one dedupeKey before either
  inserts: the loser fails on the unique index and rolls its business change back.
* `services/domain-events/mission-queue-recovery.ts:65`: A READY task whose earlier job is
  kept as completed or failed is skipped, so no job is ever enqueued for it while the old one
  is kept.
* `jobs/redis-circuit.ts:125`: The open hook pauses the workers asynchronously; a recovery
  before it ends can resume them first and leave them paused with a closed circuit.
* `services/booking-webhook.ts:107`: The key is status and booking, so a second RESCHEDULED of
  one booking is taken for a duplicate, and a late CREATED overwrites CANCELLED.
* `services/ai-spend-gate.ts:166`: Overlapping calls all pass the cap before any of them is
  charged.
* `services/opportunities/lifecycle.ts:291`: Accepting an opportunity commits the acceptance,
  the mission and IN_PROGRESS separately: a failure in between and a second acceptance create
  a second mission.
* `services/opportunities/lifecycle.ts:217`: A transition is asserted on one read and written
  by id: an expiry overwrites an acceptance.
* `services/opportunities/lifecycle.ts:375`: One opportunity that cannot expire throws out of
  the loop and keeps the rest from expiring.
