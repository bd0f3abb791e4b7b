------------------------- MODULE DomainEventOutbox -------------------------
(***************************************************************************)
(* The Postgres domain-event outbox: src/services/domain-events.           *)
(*                                                                         *)
(* A sweep (workers/index.ts, every OUTBOX_SWEEP_INTERVAL_MS) first turns  *)
(* stale PROCESSING claims into RETRY, then claims a batch with one SQL    *)
(* statement and runs every consumer of every claimed event, one database  *)
(* call at a time.  setInterval does not wait for the previous sweep, and  *)
(* several worker processes may run, so any number of sweeps overlap.      *)
(* Operators retry and cancel events through /api/admin/outbox: a read     *)
(* that is checked against the transition table, then an unconditional     *)
(* write.                                                                  *)
(*                                                                         *)
(* Time is two flags per row: due (availableAt <= NOW()) and stale         *)
(* (lockedAt older than STALE_LOCK_MS).  Errors are their class.           *)
(***************************************************************************)
EXTENDS Integers, FiniteSets

CONSTANTS
  Events,         \* rows of DomainEvent
  NewerEvents,    \* those a newer release wrote with eventVersion # 1
  Sweeps,         \* concurrent executions of the worker's outbox sweep
  Operators,      \* concurrent administrator requests
  NumConsumers,   \* length of DOMAIN_EVENT_CONSUMERS
  MaxAttempts,    \* maxAttempts of the rows
  BatchSize,      \* LIMIT of the claim
  OperatorKinds,  \* the administrator actions in play: "retry", "cancel"
  NoSweep,        \* lockOwner: null
  NoEvent,        \* a sweep or request that works on no row
  MaxOverruns,    \* bound: locks that expire under a sweep that still runs
  MaxRequests,    \* bound: administrator requests in a behaviour
  MaxFaults       \* bound: crashes and failed database calls in a behaviour

ASSUME OutboxAssumption ==
  /\ NewerEvents \subseteq Events
  /\ NumConsumers \in Nat \ {0}
  /\ MaxAttempts \in Nat \ {0}
  /\ BatchSize \in Nat \ {0}
  /\ OperatorKinds \subseteq {"retry", "cancel"}
  /\ NoSweep \notin Sweeps
  /\ NoEvent \notin Events
  /\ MaxOverruns \in Nat
  /\ MaxRequests \in Nat
  /\ MaxFaults \in Nat

Consumers == 1..NumConsumers

Status == {"NONE", "PENDING", "PROCESSING", "PROCESSED", "RETRY",
           "DEAD_LETTER", "CANCELLED"}

\* A row leaves these only through an administrator (state.ts, TRANSITIONS).
Settled == {"PROCESSED", "DEAD_LETTER", "CANCELLED"}

ConsumptionStatus == {"NONE", "PROCESSING", "PROCESSED", "SKIPPED", "FAILED"}

\* The consumption rows runConsumerIdempotent does not run again.
Recorded == {"PROCESSED", "SKIPPED"}

\* How consumer.handle ends: a result, a skip, or an error of a class.
Outcome == {"PROCESSED", "SKIPPED", "TRANSIENT", "PERMANENT"}

VARIABLES
  \* DomainEvent rows, by event
  status, attemptCount, lockOwner, due, stale,
  \* DomainEventConsumption rows, by event and consumer
  consumption,
  \* the sweeps: program counter, claimed rows still to do, current row, index of
  \* the consumer, how its handle ended, the worst failure so far, and the
  \* attemptCount the refresh read
  pc, batch, cur, k, result, failure, attempts,
  \* the administrator requests: program counter, action and row
  oppc, opkind, oprow,
  \* how often each bounded thing has happened
  requests, faults, overruns,
  \* ghost: how often a consumer's handle returned for an event
  delivered

rows    == <<status, attemptCount, lockOwner, due, stale>>
local   == <<pc, batch, cur, k, result, failure, attempts>>
request == <<oppc, opkind, oprow, requests>>
ghosts  == <<delivered>>
vars    == <<rows, consumption, local, request, faults, overruns, ghosts>>

SweepPC == {"idle", "claim", "next", "lookup", "create", "update", "handle",
            "record", "finish"}

\* The sweep is inside processClaimedDomainEvent, past its refresh.
Busy == {"lookup", "create", "update", "handle", "record", "finish"}

TypeOK ==
  /\ status \in [Events -> Status]
  /\ attemptCount \in [Events -> Nat]
  /\ lockOwner \in [Events -> Sweeps \cup {NoSweep}]
  /\ due \in [Events -> BOOLEAN]
  /\ stale \in [Events -> BOOLEAN]
  /\ consumption \in [Events -> [Consumers -> ConsumptionStatus]]
  /\ pc \in [Sweeps -> SweepPC]
  /\ batch \in [Sweeps -> SUBSET Events]
  /\ cur \in [Sweeps -> Events \cup {NoEvent}]
  /\ k \in [Sweeps -> Nat]
  /\ result \in [Sweeps -> Outcome]
  /\ failure \in [Sweeps -> {"NONE", "TRANSIENT", "PERMANENT"}]
  /\ attempts \in [Sweeps -> Nat]
  /\ oppc \in [Operators -> {"idle", "write"}]
  /\ opkind \in [Operators -> {"retry", "cancel"}]
  /\ oprow \in [Operators -> Events \cup {NoEvent}]
  /\ requests \in Nat
  /\ faults \in Nat
  /\ overruns \in Nat
  /\ delivered \in [Events -> [Consumers -> Nat]]

Init ==
  /\ status = [e \in Events |-> "NONE"]
  /\ attemptCount = [e \in Events |-> 0]
  /\ lockOwner = [e \in Events |-> NoSweep]
  /\ due = [e \in Events |-> FALSE]
  /\ stale = [e \in Events |-> FALSE]
  /\ consumption = [e \in Events |-> [c \in Consumers |-> "NONE"]]
  /\ pc = [s \in Sweeps |-> "idle"]
  /\ batch = [s \in Sweeps |-> {}]
  /\ cur = [s \in Sweeps |-> NoEvent]
  /\ k = [s \in Sweeps |-> 1]
  /\ result = [s \in Sweeps |-> "SKIPPED"]
  /\ failure = [s \in Sweeps |-> "NONE"]
  /\ attempts = [s \in Sweeps |-> 0]
  /\ oppc = [o \in Operators |-> "idle"]
  /\ opkind = [o \in Operators |-> "cancel"]
  /\ oprow = [o \in Operators |-> NoEvent]
  /\ requests = 0
  /\ faults = 0
  /\ overruns = 0
  /\ delivered = [e \in Events |-> [c \in Consumers |-> 0]]

-----------------------------------------------------------------------------
(* state.ts *)

\* TRANSITIONS and assertDomainEventTransition: staying put is always allowed.
Transitions(from) ==
  CASE from = "PENDING"     -> {"PROCESSING", "CANCELLED"}
    [] from = "PROCESSING"  -> {"PROCESSED", "RETRY", "DEAD_LETTER", "CANCELLED"}
    [] from = "RETRY"       -> {"PROCESSING", "DEAD_LETTER", "CANCELLED"}
    [] from = "DEAD_LETTER" -> {"RETRY", "CANCELLED"}
    [] OTHER                -> {}

TransitionAllowed(from, to) == from = to \/ to \in Transitions(from)

-----------------------------------------------------------------------------
(* append.ts *)

\* appendDomainEvent's insert: a PENDING row, available now or later.
Append(e) ==
  /\ status[e] = "NONE"
  /\ status' = [status EXCEPT ![e] = "PENDING"]
  /\ \E now \in BOOLEAN : due' = [due EXCEPT ![e] = now]
  /\ UNCHANGED <<attemptCount, lockOwner, stale, consumption, local, request,
                 faults, overruns, ghosts>>

-----------------------------------------------------------------------------
(* Time *)

\* availableAt passes.
BecomeDue(e) ==
  /\ status[e] \in {"PENDING", "RETRY"}
  /\ ~due[e]
  /\ due' = [due EXCEPT ![e] = TRUE]
  /\ UNCHANGED <<status, attemptCount, lockOwner, stale, consumption, local,
                 request, faults, overruns, ghosts>>

\* Sweep s has claimed e and has not finished with it.
Holds(s, e) == e \in batch[s] \/ cur[s] = e

\* The lock of an abandoned claim grows older than STALE_LOCK_MS.
LockExpires(e) ==
  /\ status[e] = "PROCESSING"
  /\ ~stale[e]
  /\ \A s \in Sweeps : ~Holds(s, e)
  /\ stale' = [stale EXCEPT ![e] = TRUE]
  /\ UNCHANGED <<status, attemptCount, lockOwner, due, consumption, local,
                 request, faults, overruns, ghosts>>

\* The same while a sweep still works on the batch: the events of a batch are
\* handled one after the other and nothing extends lockedAt.
LockOverrun(e) ==
  /\ status[e] = "PROCESSING"
  /\ ~stale[e]
  /\ \E s \in Sweeps : Holds(s, e)
  /\ overruns < MaxOverruns
  /\ overruns' = overruns + 1
  /\ stale' = [stale EXCEPT ![e] = TRUE]
  /\ UNCHANGED <<status, attemptCount, lockOwner, due, consumption, local,
                 request, faults, ghosts>>

-----------------------------------------------------------------------------
(* dispatcher.ts: the sweep *)

\* f with the value v at every row of S: an UPDATE ... WHERE.
SetAll(f, S, v) == [e \in Events |-> IF e \in S THEN v ELSE f[e]]

\* f with 1 added at every row of S.
Increment(f, S) == [e \in Events |-> IF e \in S THEN f[e] + 1 ELSE f[e]]

\* A recovery that takes every PROCESSING row, whatever the age of its lock.
MutantStaleClaims == {e \in Events : status[e] = "PROCESSING"}

\* A recovery that takes only rows nobody owns.
MutantStaleUnowned ==
  {e \in Events : status[e] = "PROCESSING" /\ stale[e] /\ lockOwner[e] = NoSweep}

\* Rows the recovery's WHERE clause selects.
StaleClaims == {e \in Events : status[e] = "PROCESSING" /\ stale[e]}

\* recoverStaleDomainEventClaims, the first call of every sweep.
RecoverStale(s) ==
  /\ pc[s] = "idle"
  /\ status' = SetAll(status, StaleClaims, "RETRY")
  /\ due' = SetAll(due, StaleClaims, TRUE)
  /\ lockOwner' = SetAll(lockOwner, StaleClaims, NoSweep)
  /\ stale' = SetAll(stale, StaleClaims, FALSE)
  /\ pc' = [pc EXCEPT ![s] = "claim"]
  /\ UNCHANGED <<attemptCount, consumption, batch, cur, k, result, failure,
                 attempts, request, faults, overruns, delivered>>

\* A claim that also takes the PROCESSING rows.
MutantClaimable(e) == status[e] \in {"PENDING", "RETRY", "PROCESSING"} /\ due[e]

\* Rows the claim's WHERE clause selects.
Claimable(e) ==
  /\ status[e] \in {"PENDING", "RETRY"}
  /\ due[e]
  /\ lockOwner[e] = NoSweep \/ stale[e] \/ status[e] = "RETRY"

\* claimDomainEventBatch: one UPDATE over at most BatchSize ready rows.  Rows
\* that another claim has locked at that moment are skipped, so the batch may be
\* any of them; a claim that has nothing to take ends the sweep.
ClaimBatch(s) ==
  /\ pc[s] = "claim"
  /\ \E S \in SUBSET {e \in Events : Claimable(e)} :
       /\ Cardinality(S) =< BatchSize
       /\ S = {} => \A e \in Events : ~Claimable(e)
       /\ status' = SetAll(status, S, "PROCESSING")
       /\ lockOwner' = SetAll(lockOwner, S, s)
       /\ stale' = SetAll(stale, S, FALSE)
       /\ attemptCount' = Increment(attemptCount, S)
       /\ batch' = [batch EXCEPT ![s] = S]
       /\ pc' = [pc EXCEPT ![s] = IF S = {} THEN "idle" ELSE "next"]
  /\ UNCHANGED <<due, consumption, cur, k, result, failure, attempts, request,
                 faults, overruns, ghosts>>

\* dispatchDomainEventBatch's loop is over.
BatchDone(s) ==
  /\ pc[s] = "next"
  /\ batch[s] = {}
  /\ pc' = [pc EXCEPT ![s] = "idle"]
  /\ UNCHANGED <<rows, consumption, batch, cur, k, result, failure, attempts,
                 request, faults, overruns, ghosts>>

\* The refresh of processClaimedDomainEvent finds a row that no longer says
\* PROCESSING: on to the next one.
RefreshSkips(s) ==
  /\ pc[s] = "next"
  /\ \E e \in batch[s] :
       /\ status[e] # "PROCESSING"
       /\ batch' = [batch EXCEPT ![s] = @ \ {e}]
  /\ UNCHANGED <<rows, consumption, pc, cur, k, result, failure, attempts,
                 request, faults, overruns, ghosts>>

\* The refresh finds PROCESSING; whose claim that is (lockOwner) is not looked
\* at.  The version gate throws a permanent error for what it does not know.
Refresh(s) ==
  /\ pc[s] = "next"
  /\ \E e \in batch[s] :
       /\ status[e] = "PROCESSING"
       /\ batch' = [batch EXCEPT ![s] = @ \ {e}]
       /\ cur' = [cur EXCEPT ![s] = e]
       /\ attempts' = [attempts EXCEPT ![s] = attemptCount[e]]
       /\ IF e \in NewerEvents
          THEN /\ pc' = [pc EXCEPT ![s] = "finish"]
               /\ failure' = [failure EXCEPT ![s] = "PERMANENT"]
          ELSE /\ pc' = [pc EXCEPT ![s] = "lookup"]
               /\ failure' = [failure EXCEPT ![s] = "NONE"]
  /\ k' = [k EXCEPT ![s] = 1]
  /\ UNCHANGED <<rows, consumption, result, request, faults, overruns, ghosts>>

\* The loop of processClaimedDomainEvent moves past consumer k.
NextConsumer(s) ==
  /\ k' = [k EXCEPT ![s] = @ + 1]
  /\ pc' = [pc EXCEPT ![s] = IF k[s] = NumConsumers THEN "finish" ELSE "lookup"]

Succeeded(s) == NextConsumer(s) /\ UNCHANGED failure

\* Consumer k threw.  A permanent error leaves the loop at once, a transient one
\* is remembered and the loop goes on.
Threw(s, class) ==
  /\ failure' = [failure EXCEPT ![s] = class]
  /\ IF class = "PERMANENT"
     THEN pc' = [pc EXCEPT ![s] = "finish"] /\ UNCHANGED k
     ELSE NextConsumer(s)

\* A lookup that goes by the row's existence.
MutantAlreadyRun(st) == st \in Recorded \cup {"PROCESSING"}

\* A lookup that does not look.
MutantNeverRun(st) == FALSE

\* runConsumerIdempotent returns at once for these rows.
AlreadyRun(st) == st \in Recorded

\* runConsumerIdempotent, findUnique: skip what is recorded as done.
Lookup(s) ==
  /\ pc[s] = "lookup"
  /\ LET st == consumption[cur[s]][k[s]] IN
       IF AlreadyRun(st)
       THEN Succeeded(s)
       ELSE /\ pc' = [pc EXCEPT ![s] = IF st = "NONE" THEN "create" ELSE "update"]
            /\ UNCHANGED <<k, failure>>
  /\ UNCHANGED <<rows, consumption, batch, cur, result, attempts, request, faults,
                 overruns, ghosts>>

\* The consumption row of consumer k now says st.
StoreConsumption(s, st) ==
  consumption' = [consumption EXCEPT ![cur[s]] = [@ EXCEPT ![k[s]] = st]]

\* create of the consumption row.  If another sweep's row is there by now the
\* unique index refuses it, which classifyOutboxError calls transient.
CreateConsumption(s) ==
  /\ pc[s] = "create"
  /\ IF consumption[cur[s]][k[s]] = "NONE"
     THEN /\ StoreConsumption(s, "PROCESSING")
          /\ pc' = [pc EXCEPT ![s] = "handle"]
          /\ UNCHANGED <<k, failure>>
     ELSE Threw(s, "TRANSIENT") /\ UNCHANGED consumption
  /\ UNCHANGED <<rows, batch, cur, result, attempts, request, faults, overruns,
                 ghosts>>

\* update of the row the lookup found, whatever it says by now.
UpdateConsumption(s) ==
  /\ pc[s] = "update"
  /\ StoreConsumption(s, "PROCESSING")
  /\ pc' = [pc EXCEPT ![s] = "handle"]
  /\ UNCHANGED <<rows, batch, cur, k, result, failure, attempts, request, faults,
                 overruns, ghosts>>

\* consumer.handle: returns a result or a skip, or throws.
Handle(s) ==
  /\ pc[s] = "handle"
  /\ pc' = [pc EXCEPT ![s] = "record"]
  /\ \E r \in Outcome :
       /\ result' = [result EXCEPT ![s] = r]
       /\ delivered' = IF r \in Recorded
            THEN [delivered EXCEPT ![cur[s]] =
                    [@ EXCEPT ![k[s]] = delivered[cur[s]][k[s]] + 1]]
            ELSE delivered
  /\ UNCHANGED <<rows, consumption, batch, cur, k, failure, attempts, request,
                 faults, overruns>>

\* Stores the class of the error instead of a status.
MutantRecordedRaw(r) == r

\* Loses the failure: the catch branch stores what the try branch does.
MutantRecordedAs(r) == "PROCESSED"

\* The status runConsumerIdempotent stores for an outcome of handle.
RecordedAs(r) == IF r \in Recorded THEN r ELSE "FAILED"

\* runConsumerIdempotent stores the outcome by id and rethrows an error.
Record(s) ==
  /\ pc[s] = "record"
  /\ StoreConsumption(s, RecordedAs(result[s]))
  /\ IF result[s] \in Recorded THEN Succeeded(s) ELSE Threw(s, result[s])
  /\ UNCHANGED <<rows, batch, cur, result, attempts, request, faults, overruns,
                 ghosts>>

\* The update that stores a success throws inside the try: the catch branch
\* stores FAILED and the consumer counts as failed although it ran.
RecordFails(s) ==
  /\ pc[s] = "record"
  /\ result[s] \in Recorded
  /\ faults < MaxFaults
  /\ faults' = faults + 1
  /\ StoreConsumption(s, "FAILED")
  /\ Threw(s, "TRANSIENT")
  /\ UNCHANGED <<rows, batch, cur, result, attempts, request, overruns, ghosts>>

\* markRetryOrDead: attempts is what the refresh read.
Exhausted(s) == attempts[s] >= MaxAttempts \/ failure[s] = "PERMANENT"

\* The status markProcessed or markRetryOrDead writes.
Verdict(s) ==
  IF failure[s] = "NONE" THEN "PROCESSED"
  ELSE IF Exhausted(s) THEN "DEAD_LETTER" ELSE "RETRY"

\* The locals of processClaimedDomainEvent go out of scope.
Forget(s) ==
  /\ cur' = [cur EXCEPT ![s] = NoEvent]
  /\ k' = [k EXCEPT ![s] = 1]
  /\ result' = [result EXCEPT ![s] = "SKIPPED"]
  /\ failure' = [failure EXCEPT ![s] = "NONE"]
  /\ attempts' = [attempts EXCEPT ![s] = 0]

\* markProcessed and markRetryOrDead update the row by id.  The transition is
\* asserted from the literal PROCESSING, so the assertion always passes.
Finish(s) ==
  /\ pc[s] = "finish"
  /\ status' = [status EXCEPT ![cur[s]] = Verdict(s)]
  /\ lockOwner' = [lockOwner EXCEPT ![cur[s]] = NoSweep]
  /\ stale' = [stale EXCEPT ![cur[s]] = FALSE]
  /\ due' = IF Verdict(s) = "RETRY" THEN [due EXCEPT ![cur[s]] = FALSE] ELSE due
  /\ pc' = [pc EXCEPT ![s] = "next"]
  /\ Forget(s)
  /\ UNCHANGED <<attemptCount, consumption, batch, request, faults, overruns,
                 ghosts>>

\* markProcessed throws: the catch of processClaimedDomainEvent takes over.
MarkProcessedFails(s) ==
  /\ pc[s] = "finish"
  /\ failure[s] = "NONE"
  /\ faults < MaxFaults
  /\ faults' = faults + 1
  /\ failure' = [failure EXCEPT ![s] = "TRANSIENT"]
  /\ UNCHANGED <<rows, consumption, pc, batch, cur, k, result, attempts, request,
                 overruns, ghosts>>

\* The worker process dies, or a database error escapes the sweep: what the
\* sweep has claimed stays PROCESSING until its lock is stale.
Crash(s) ==
  /\ pc[s] # "idle"
  /\ faults < MaxFaults
  /\ faults' = faults + 1
  /\ pc' = [pc EXCEPT ![s] = "idle"]
  /\ batch' = [batch EXCEPT ![s] = {}]
  /\ Forget(s)
  /\ UNCHANGED <<rows, consumption, request, overruns, ghosts>>

-----------------------------------------------------------------------------
(* ops.ts: the administrator *)

Target(kind) == IF kind = "retry" THEN "RETRY" ELSE "CANCELLED"

\* retryDeadLetterEvent and cancelDomainEvent read the row and check the table.
\* Every status the table allows passes: a "retry" is accepted for a row that
\* is PROCESSING.
OperatorRead(o) ==
  /\ oppc[o] = "idle"
  /\ requests < MaxRequests
  /\ requests' = requests + 1
  /\ \E e \in Events, kind \in OperatorKinds :
       /\ status[e] # "NONE"
       /\ TransitionAllowed(status[e], Target(kind))
       /\ opkind' = [opkind EXCEPT ![o] = kind]
       /\ oprow' = [oprow EXCEPT ![o] = e]
  /\ oppc' = [oppc EXCEPT ![o] = "write"]
  /\ UNCHANGED <<rows, consumption, local, faults, overruns, ghosts>>

\* ... and then write by id.
OperatorWrite(o) ==
  /\ oppc[o] = "write"
  /\ status' = [status EXCEPT ![oprow[o]] = Target(opkind[o])]
  /\ lockOwner' = [lockOwner EXCEPT ![oprow[o]] = NoSweep]
  /\ stale' = [stale EXCEPT ![oprow[o]] = FALSE]
  /\ due' = IF opkind[o] = "retry" THEN [due EXCEPT ![oprow[o]] = TRUE] ELSE due
  /\ oppc' = [oppc EXCEPT ![o] = "idle"]
  /\ oprow' = [oprow EXCEPT ![o] = NoEvent]
  /\ UNCHANGED <<attemptCount, consumption, local, opkind, requests, faults,
                 overruns, ghosts>>

-----------------------------------------------------------------------------
SweepStep(s) ==
  \/ RecoverStale(s) \/ ClaimBatch(s) \/ BatchDone(s) \/ RefreshSkips(s)
  \/ Refresh(s) \/ Lookup(s) \/ CreateConsumption(s) \/ UpdateConsumption(s)
  \/ Handle(s) \/ Record(s) \/ Finish(s)

SweepFault(s) == RecordFails(s) \/ MarkProcessedFails(s) \/ Crash(s)

RowStep(e) == Append(e) \/ BecomeDue(e) \/ LockExpires(e) \/ LockOverrun(e)

OperatorStep(o) == OperatorRead(o) \/ OperatorWrite(o)

Next ==
  \/ \E e \in Events : RowStep(e)
  \/ \E s \in Sweeps : SweepStep(s) \/ SweepFault(s)
  \/ \E o \in Operators : OperatorStep(o)

Spec == Init /\ [][Next]_vars

\* The timers fire and time passes; a call that is issued returns.  Nothing is
\* assumed of faults, overruns, appends and administrators.
FairSpec ==
  /\ Spec
  /\ \A s \in Sweeps : WF_vars(SweepStep(s))
  /\ \A e \in Events : WF_vars(BecomeDue(e)) /\ WF_vars(LockExpires(e))

-----------------------------------------------------------------------------
(* Properties *)

\* An event is marked PROCESSED only after every consumer's handle has returned
\* for it at least once, whatever sweeps overlap, crash, or lose writes and
\* whatever administrators do meanwhile: markProcessed relies on rows that other
\* sweeps wrote.
DeliveredBeforeProcessed ==
  \A e \in Events : status[e] = "PROCESSED" =>
    \A c \in Consumers : delivered[e][c] > 0

\* SKIP LOCKED claims plus stale recovery give at most one sweep the event, as
\* long as no sweep outlives its lock and nobody retries by hand; cancelling an
\* event that is being processed does not let a second sweep in.
OneSweepPerEvent ==
  \A s, t \in Sweeps, e \in Events : Holds(s, e) /\ Holds(t, e) => s = t

\* "Successful prior runs are not replayed" (consumers.ts:139): once a row records
\* a success, no handle returns for it and no statement takes the success back.
SuccessNotReplayed ==
  [][\A e \in Events, c \in Consumers : consumption[e][c] \in Recorded =>
       /\ consumption'[e][c] \in Recorded
       /\ delivered'[e][c] = delivered[e][c]]_vars

\* PROCESSED is final (state.ts:22): neither a stale recovery nor a claim nor a sweep
\* that finishes late takes it back; only an administrator whose read came before can.
ProcessedIsFinal ==
  [][\A e \in Events : status[e] = "PROCESSED" /\ (\A o \in Operators : oprow[o] # e) =>
       status'[e] = "PROCESSED"]_vars

\* Every appended event is eventually processed, dead-lettered or cancelled:
\* crashes, lost writes and overlapping sweeps delay it but strand no claim.
EventuallySettled ==
  \A e \in Events : status[e] = "PENDING" ~> status[e] \in Settled

-----------------------------------------------------------------------------
(* What the outbox promises *)

EndOf == [PROCESSED |-> "delivered", DEAD_LETTER |-> "abandoned", CANCELLED |-> "withdrawn"]

\* How far the delivery of e is.  A sweep that has the event in hand writes its verdict
\* over a cancellation, so the event is pending until the sweep is done with it.
DeliveryState(e) ==
  IF status[e] = "NONE" THEN "absent"
  ELSE IF status[e] \in Settled /\ \A s \in Sweeps : cur[s] # e THEN EndOf[status[e]]
  ELSE "pending"

Tracked == INSTANCE TrackedDelivery WITH
  state      <- [e \in Events |-> DeliveryState(e)],
  deliveries <- delivered,
  acked      <- [e \in Events |-> {c \in Consumers : consumption[e][c] \in Recorded}]

\* Sweeps that overlap and crash deliver an event to each consumer until its success is
\* recorded and not again ("Successful prior runs are not replayed", consumers.ts:139);
\* the event is PROCESSED only when every success is recorded, and nothing is delivered
\* once it is over.  (In an instance where no lock expires under a running sweep and
\* no administrator retries.)
OutboxIsTracked == Tracked!TrackedSpec
=============================================================================
