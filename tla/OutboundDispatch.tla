-------------------------- MODULE OutboundDispatch --------------------------
(***************************************************************************)
(* Outbound messages of one conversation:                                  *)
(* src/services/messaging/outbound.ts, with the contactability gates and   *)
(* the opt-out that races them.                                            *)
(*                                                                         *)
(* A message is identified by its idempotency key, which has one           *)
(* OutboundDispatch row.  dispatchOutboundMessage is called by the inbox,  *)
(* the inbound pipeline, automations, the follow-up sweep and the approval *)
(* executor, in several processes and again after a failure: any number of *)
(* calls run at once, for the same or for different keys, and each of      *)
(* their database calls is a step.  Only the creation of the row and the   *)
(* lease are conditional; every later write is by id.                      *)
(***************************************************************************)
EXTENDS Integers

CONSTANTS
  Keys,         \* idempotency keys of the conversation's messages
  HumanKeys,    \* those whose source is HUMAN; the others are automated
  Holders,      \* lease holders
  NoHolder,     \* no ConversationSendLease row
  HolderOf,     \* the lease holder a key's calls use
  Requests,     \* approval requests for automated messages
  NoRequest,    \* a call without an approvalRequestId
  About,        \* the message a request is about
  AutoSend,     \* the settings of AI_AUTO_SOCIAL_SEND in play
  Calls,        \* concurrent calls of dispatchOutboundMessage
  NoKey,        \* a call slot that is free
  RetriesWait,  \* does a call for a key start only after the previous one ended?
  MaxCalls,     \* bound: calls in a behaviour
  MaxActivity,  \* bound: inbound messages, handoffs, pauses, disconnections
                \* and overruled approvals in a behaviour
  MaxFaults,    \* bound: crashes and failed database calls in a behaviour
  MaxExpiries,  \* bound: leases that expire in a behaviour
  MayOptOut     \* may the contact opt out?

ASSUME OutboundAssumption ==
  /\ HumanKeys \subseteq Keys
  /\ NoKey \notin Keys
  /\ NoHolder \notin Holders
  /\ HolderOf \in [Keys -> Holders]
  /\ NoRequest \notin Requests
  /\ About \in [Requests -> Keys \ HumanKeys]
  /\ AutoSend \subseteq BOOLEAN
  /\ RetriesWait \in BOOLEAN
  /\ MayOptOut \in BOOLEAN
  /\ MaxCalls \in Nat /\ MaxActivity \in Nat /\ MaxFaults \in Nat /\ MaxExpiries \in Nat

\* MessagingExternalOutcome; NONE: no row yet.  FAILED is told from the FAILED whose
\* failureCode is PROVIDER_SEND_FAILED, which repeats what an adapter said.
Outcome == {"NONE", "PREPARED", "DISPATCHING", "CONFIRMED", "FAILED",
            "PROVIDER_SEND_FAILED", "RECONCILIATION_REQUIRED"}

\* Not handed to the provider yet.
Fresh == {"NONE", "PREPARED"}

Reply == {"ok", "failed", "uncertain"}

\* What the caller of dispatchOutboundMessage gets.
Answer == {"ok", "stale", "refused", "thrown"}

PC == {"idle", "approval", "lookup", "interrupt", "gate1", "read", "prepare",
       "invalidate", "leaselook", "leaseupdate", "leasecreate", "recheck",
       "gate2", "credential", "fail", "dispatch", "send", "conclude", "release"}

\* The call holds, or believes it holds, the conversation's lease.
Leased == {"recheck", "gate2", "credential", "fail", "dispatch", "send",
           "conclude", "release"}

VARIABLES
  outcome,      \* OutboundDispatch.externalOutcome, by key
  bound,        \* the row was prepared under a live connection, by key
  lease,        \* ConversationSendLease.holder
  expired,      \* expiresAt of the lease has passed
  version,      \* Conversation.activityVersion
  paused,       \* aiPaused or handlingMode HUMAN
  optedOut,     \* Contact.optedOut
  suppressed,   \* an active suppression row of the contact
  connected,    \* the provider connection is active
  approved,     \* the requests whose status is APPROVED
  auto,         \* AI_AUTO_SOCIAL_SEND is on
  pc, key,      \* the calls: program counter and idempotency key
  request,      \* metadata.approvalRequestId
  found,        \* the lookup found a row
  seen,         \* expectedActivityVersion
  reply,        \* how the adapter's sendMessage ended
  calls, activity, faults, expiries,  \* how often each bounded thing happened
  sends,        \* ghost: messages the provider accepted, by key
  late          \* ghost: the call started too late, see Start

rows    == <<outcome, bound>>
leasing == <<lease, expired>>
contact == <<paused, optedOut, suppressed, connected, approved, auto>>
local   == <<pc, key, request, found, seen, reply>>
bounds  == <<calls, activity, faults, expiries>>
ghosts  == <<sends, late>>
vars    == <<rows, leasing, version, contact, local, bounds, ghosts>>

TypeOK ==
  /\ outcome \in [Keys -> Outcome]
  /\ bound \in [Keys -> BOOLEAN]
  /\ lease \in Holders \cup {NoHolder}
  /\ expired \in BOOLEAN
  /\ version \in Nat
  /\ paused \in BOOLEAN /\ optedOut \in BOOLEAN /\ suppressed \in BOOLEAN
  /\ connected \in BOOLEAN
  /\ approved \subseteq Requests
  /\ auto \in BOOLEAN
  /\ pc \in [Calls -> PC]
  /\ key \in [Calls -> Keys \cup {NoKey}]
  /\ request \in [Calls -> Requests \cup {NoRequest}]
  /\ found \in [Calls -> BOOLEAN]
  /\ seen \in [Calls -> Nat]
  /\ reply \in [Calls -> Reply]
  /\ calls \in Nat /\ activity \in Nat /\ faults \in Nat /\ expiries \in Nat
  /\ sends \in [Keys -> Nat]
  /\ late \in [Calls -> BOOLEAN]

Init ==
  /\ outcome = [m \in Keys |-> "NONE"]
  /\ bound = [m \in Keys |-> FALSE]
  /\ lease = NoHolder
  /\ expired = FALSE
  /\ version = 0
  /\ paused = FALSE
  /\ optedOut = FALSE
  /\ suppressed = FALSE
  /\ connected = TRUE
  /\ approved = {}
  /\ auto \in AutoSend
  /\ pc = [c \in Calls |-> "idle"]
  /\ key = [c \in Calls |-> NoKey]
  /\ request = [c \in Calls |-> NoRequest]
  /\ found = [c \in Calls |-> FALSE]
  /\ seen = [c \in Calls |-> 0]
  /\ reply = [c \in Calls |-> "uncertain"]
  /\ calls = 0
  /\ activity = 0
  /\ faults = 0
  /\ expiries = 0
  /\ sends = [m \in Keys |-> 0]
  /\ late = [c \in Calls |-> FALSE]

Human(c) == key[c] \in HumanKeys

Go(c, next) == pc' = [pc EXCEPT ![c] = next]

\* The call returns or dies: its locals are gone.
Return(c) ==
  /\ Go(c, "idle")
  /\ key' = [key EXCEPT ![c] = NoKey]
  /\ request' = [request EXCEPT ![c] = NoRequest]
  /\ found' = [found EXCEPT ![c] = FALSE]
  /\ seen' = [seen EXCEPT ![c] = 0]
  /\ reply' = [reply EXCEPT ![c] = "uncertain"]
  /\ late' = [late EXCEPT ![c] = FALSE]

\* The call goes on to next and keeps its locals.
Continue(c, next) == Go(c, next) /\ UNCHANGED <<key, request, found, seen, reply, late>>

-----------------------------------------------------------------------------
(* contactability.ts *)

\* assertContactable without its suppression row check.
MutantContactable(m) == ~optedOut /\ (m \in HumanKeys \/ ~paused)

\* assertContactable: an opt-out or an active suppression blocks every message,
\* a paused conversation the automated ones.
Contactable(m) == ~optedOut /\ ~suppressed /\ (m \in HumanKeys \/ ~paused)

-----------------------------------------------------------------------------
(* dispatchOutboundMessage *)

\* Callers name a request about the message, or none if a human writes or automated
\* messages need no approval (followups.ts:122, inbound-pipeline.ts, automations.ts:91).
MayName(m, r) ==
  IF r = NoRequest THEN m \in HumanKeys \/ auto
  ELSE About[r] = m

\* A caller asks for message m under request r, for the first time or again.  The call
\* is late if its message is past PREPARED, or its contact suppressed.
StartWith(c, m, r) ==
  /\ pc[c] = "idle"
  /\ calls < MaxCalls
  /\ calls' = calls + 1
  /\ RetriesWait => \A d \in Calls : key[d] # m
  /\ MayName(m, r)
  /\ key' = [key EXCEPT ![c] = m]
  /\ request' = [request EXCEPT ![c] = r]
  /\ late' = [late EXCEPT ![c] = outcome[m] \notin Fresh \/ suppressed]
  /\ Go(c, "approval")
  /\ UNCHANGED <<rows, leasing, version, contact, found, seen, reply, activity,
                 faults, expiries, sends>>

Start(c) == \E m \in Keys, r \in Requests \cup {NoRequest} : StartWith(c, m, r)

\* A gate that is content with the id of a request.
MutantCleared(c) == Human(c) \/ auto \/ request[c] # NoRequest

\* Gate #0: an automated message needs an approved request, or no approval at all.
Cleared(c) == Human(c) \/ auto \/ request[c] \in approved

Approval(c) ==
  /\ pc[c] = "approval"
  /\ IF Cleared(c) THEN Continue(c, "lookup") ELSE Return(c)
  /\ UNCHANGED <<rows, leasing, version, contact, bounds, sends>>

\* A lookup that takes an interrupted send for an unsent one.
MutantMayProceed(o) == o \in Fresh \cup {"DISPATCHING"}

\* Outcomes with which the lookup lets a call go on.
MayProceed(o) == o \in Fresh

\* The row of the key: confirmed, failed and uncertain messages are left alone,
\* and one that is being sent is taken for an interrupted one.
Lookup(c) ==
  /\ pc[c] = "lookup"
  /\ LET o == outcome[key[c]] IN
       \/ /\ MayProceed(o)
          /\ found' = [found EXCEPT ![c] = (o # "NONE")]
          /\ Go(c, "gate1")
          /\ UNCHANGED <<key, request, seen, reply, late>>
       \/ /\ ~MayProceed(o) /\ o = "DISPATCHING"
          /\ Continue(c, "interrupt")
       \/ /\ ~MayProceed(o) /\ o # "DISPATCHING"
          /\ Return(c)
  /\ UNCHANGED <<rows, leasing, version, contact, bounds, sends>>

\* INTERRUPTED_DURING_DISPATCH, written by id after the read.
Interrupt(c) ==
  /\ pc[c] = "interrupt"
  /\ outcome' = [outcome EXCEPT ![key[c]] = "RECONCILIATION_REQUIRED"]
  /\ Return(c)
  /\ UNCHANGED <<bound, leasing, version, contact, bounds, sends>>

\* Gate #1, before PREPARED.
Gate1(c) ==
  /\ pc[c] = "gate1"
  /\ IF Contactable(key[c]) THEN Continue(c, "read") ELSE Return(c)
  /\ UNCHANGED <<rows, leasing, version, contact, bounds, sends>>

\* The conversation is read; a human whose client saw an older version than the
\* current one is turned away.
ReadConversation(c) ==
  /\ pc[c] = "read"
  /\ \/ /\ seen' = [seen EXCEPT ![c] = version]
        /\ Go(c, "prepare")
        /\ UNCHANGED <<key, request, found, reply, late>>
     \/ /\ Human(c) /\ version > 0
        /\ Return(c)
  /\ UNCHANGED <<rows, leasing, version, contact, bounds, sends>>

\* The row is created, unless the lookup found it; a call that loses the race
\* for the unique key returns.
Prepare(c) ==
  /\ pc[c] = "prepare"
  /\ IF ~found[c] /\ outcome[key[c]] # "NONE"
     THEN Return(c) /\ UNCHANGED rows
     ELSE /\ Continue(c, IF Human(c) THEN "invalidate" ELSE "leaselook")
          /\ IF found[c]
             THEN UNCHANGED rows
             ELSE /\ outcome' = [outcome EXCEPT ![key[c]] = "PREPARED"]
                  /\ bound' = [bound EXCEPT ![key[c]] = connected]
  /\ UNCHANGED <<leasing, version, contact, bounds, sends>>

\* A human send fails the other prepared automated messages.
Invalidate(c) ==
  /\ pc[c] = "invalidate"
  /\ outcome' = [m \in Keys |->
       IF m # key[c] /\ m \notin HumanKeys /\ outcome[m] = "PREPARED"
       THEN "FAILED" ELSE outcome[m]]
  /\ Continue(c, "leaselook")
  /\ UNCHANGED <<bound, leasing, version, contact, bounds, sends>>

\* acquireLease reads the row ...
LeaseLook(c) ==
  /\ pc[c] = "leaselook"
  /\ Continue(c, IF lease = NoHolder THEN "leasecreate" ELSE "leaseupdate")
  /\ UNCHANGED <<rows, leasing, version, contact, bounds, sends>>

\* The lease is the call's; automated calls check their context next.
Take(c) ==
  /\ lease' = HolderOf[key[c]]
  /\ expired' = FALSE
  /\ Continue(c, IF Human(c) THEN "gate2" ELSE "recheck")

\* ... and updates it: a human preempts, others need their own or an expired one.
MayTake(c) == lease # NoHolder /\ (Human(c) \/ lease = HolderOf[key[c]] \/ expired)

LeaseUpdate(c) ==
  /\ pc[c] = "leaseupdate"
  /\ IF MayTake(c) THEN Take(c) ELSE Return(c) /\ UNCHANGED leasing
  /\ UNCHANGED <<rows, version, contact, bounds, sends>>

\* ... or creates it; when another call was faster a human falls back to the
\* preempting update.
LeaseCreate(c) ==
  /\ pc[c] = "leasecreate"
  /\ \/ lease = NoHolder /\ Take(c)
     \/ lease # NoHolder /\ Human(c) /\ Continue(c, "leaseupdate") /\ UNCHANGED leasing
     \/ lease # NoHolder /\ ~Human(c) /\ Return(c) /\ UNCHANGED leasing
  /\ UNCHANGED <<rows, version, contact, bounds, sends>>

\* Automated: activity since the read makes the message stale.
Recheck(c) ==
  /\ pc[c] = "recheck"
  /\ Continue(c, IF version = seen[c] THEN "gate2" ELSE "fail")
  /\ UNCHANGED <<rows, leasing, version, contact, bounds, sends>>

\* Gate #2: contactability at dispatch time.
Gate2(c) ==
  /\ pc[c] = "gate2"
  /\ Continue(c, IF Contactable(key[c]) THEN "credential" ELSE "fail")
  /\ UNCHANGED <<rows, leasing, version, contact, bounds, sends>>

\* A message prepared under a connection that is gone is not sent.
Credential(c) ==
  /\ pc[c] = "credential"
  /\ Continue(c, IF bound[key[c]] /\ ~connected THEN "fail" ELSE "dispatch")
  /\ UNCHANGED <<rows, leasing, version, contact, bounds, sends>>

\* markDispatchFailed by id, whatever the row says by now.
Fail(c) ==
  /\ pc[c] = "fail"
  /\ outcome' = [outcome EXCEPT ![key[c]] = "FAILED"]
  /\ Continue(c, "release")
  /\ UNCHANGED <<bound, leasing, version, contact, bounds, sends>>

\* DISPATCHING by id, whatever the row says by now.
Dispatch(c) ==
  /\ pc[c] = "dispatch"
  /\ outcome' = [outcome EXCEPT ![key[c]] = "DISPATCHING"]
  /\ Continue(c, "send")
  /\ UNCHANGED <<bound, leasing, version, contact, bounds, sends>>

\* The provider accepts the message or not; the answer may be lost either way, and a
\* "failed" tells nothing: adapters make one of every status that is not 2xx, 500 and
\* 504 included (adapters/messaging/index.ts:59).
Send(c) ==
  /\ pc[c] = "send"
  /\ \E accepted \in BOOLEAN, r \in Reply :
       /\ r = "ok" => accepted
       /\ reply' = [reply EXCEPT ![c] = r]
       /\ sends' = IF accepted THEN [sends EXCEPT ![key[c]] = @ + 1] ELSE sends
  /\ Go(c, "conclude")
  /\ UNCHANGED <<rows, leasing, version, contact, key, request, found, seen, late,
                 bounds>>

\* Records what the adapter said as a decision not to send.
MutantConcluded(r) == CASE r = "ok"        -> "CONFIRMED"
                        [] r = "failed"    -> "FAILED"
                        [] r = "uncertain" -> "RECONCILIATION_REQUIRED"

\* Takes an uncertain delivery for a success.
MutantConcludedOk(r) == IF r = "failed" THEN "PROVIDER_SEND_FAILED" ELSE "CONFIRMED"

\* Writes Message.deliveryStatus where externalOutcome belongs.
MutantConcludedStatus(r) == IF r = "ok" THEN "SENT" ELSE "PROVIDER_SEND_FAILED"

\* The outcome that an answer of the provider leads to.
Concluded(r) == CASE r = "ok"        -> "CONFIRMED"
                  [] r = "failed"    -> "PROVIDER_SEND_FAILED"
                  [] r = "uncertain" -> "RECONCILIATION_REQUIRED"

\* markDispatchFailed, or the confirming transaction: message, activityVersion,
\* a human's takeover and CONFIRMED.
Conclude(c) ==
  /\ pc[c] = "conclude"
  /\ outcome' = [outcome EXCEPT ![key[c]] = Concluded(reply[c])]
  /\ version' = IF reply[c] = "ok" THEN version + 1 ELSE version
  /\ paused' = (paused \/ (reply[c] = "ok" /\ Human(c)))
  /\ Continue(c, "release")
  /\ UNCHANGED <<bound, leasing, optedOut, suppressed, connected, approved, auto,
                 bounds, sends>>

\* finally: releaseLease deletes the row of this holder, whichever call took it.
Release(c) ==
  /\ pc[c] = "release"
  /\ lease' = IF lease = HolderOf[key[c]] THEN NoHolder ELSE lease
  /\ expired' = (expired /\ lease' # NoHolder)
  /\ Return(c)
  /\ UNCHANGED <<rows, version, contact, bounds, sends>>

\* A database call throws: the finally block releases the lease, if it was taken,
\* and the row stays as it is.
Throw(c) ==
  /\ pc[c] \notin {"idle", "release"}
  /\ faults < MaxFaults
  /\ faults' = faults + 1
  /\ IF pc[c] \in Leased THEN Continue(c, "release") ELSE Return(c)
  /\ UNCHANGED <<rows, leasing, version, contact, calls, activity, expiries, sends>>

\* The process dies: the lease stays until it expires.
Crash(c) ==
  /\ pc[c] # "idle"
  /\ faults < MaxFaults
  /\ faults' = faults + 1
  /\ Return(c)
  /\ UNCHANGED <<rows, leasing, version, contact, calls, activity, expiries, sends>>

\* What a call's step adds to the answer a its caller gets: "ok" when the lookup or the
\* lost race for the unique key finds CONFIRMED, or the provider accepted; "stale" when
\* the recheck of activityVersion fails.
Answered(c, a) ==
  IF \/ pc[c] \in {"lookup", "prepare"} /\ outcome[key[c]] = "CONFIRMED"
     \/ pc[c] = "release" /\ reply[c] = "ok" /\ a # "thrown"
  THEN "ok"
  ELSE IF pc[c] = "recheck" /\ version # seen[c] THEN "stale" ELSE a

-----------------------------------------------------------------------------
(* What happens around the calls *)

\* expiresAt passes, whether or not the holder still works.
LeaseExpires ==
  /\ lease # NoHolder
  /\ ~expired
  /\ expiries < MaxExpiries
  /\ expiries' = expiries + 1
  /\ expired' = TRUE
  /\ UNCHANGED <<rows, lease, version, contact, local, calls, activity, faults, ghosts>>

\* A person approves an automated message.
Approve(r) ==
  /\ approved' = approved \cup {r}
  /\ UNCHANGED <<rows, leasing, version, paused, optedOut, suppressed, connected, auto,
                 local, bounds, ghosts>>

\* A decision is a read and a later write by id (automation-os.ts:402): of two
\* people the second may reject what the first has approved.
Overrule(r) ==
  /\ r \in approved
  /\ activity < MaxActivity
  /\ activity' = activity + 1
  /\ approved' = approved \ {r}
  /\ UNCHANGED <<rows, leasing, version, paused, optedOut, suppressed, connected, auto,
                 local, calls, faults, expiries, ghosts>>

\* The customer writes (inbound-pipeline.ts), or a person takes the conversation
\* over (handoff.ts): either is an activity, the second pauses the automation.
Activity ==
  /\ activity < MaxActivity
  /\ activity' = activity + 1
  /\ version' = version + 1
  /\ paused' \in {paused, TRUE}
  /\ UNCHANGED <<rows, leasing, optedOut, suppressed, connected, approved, auto,
                 local, calls, faults, expiries, ghosts>>

\* An administrator disconnects the provider.
Revoke ==
  /\ activity < MaxActivity
  /\ activity' = activity + 1
  /\ connected
  /\ connected' = FALSE
  /\ UNCHANGED <<rows, leasing, version, paused, optedOut, suppressed, approved,
                 auto, local, calls, faults, expiries, ghosts>>

\* A person pauses or resumes the automation ([id]/route.ts, PATCH), which is no
\* activity; so does the verdict of the AI on an inbound message.
SetMode(p) ==
  /\ activity < MaxActivity
  /\ activity' = activity + 1
  /\ paused' = p
  /\ UNCHANGED <<rows, leasing, version, optedOut, suppressed, connected, approved, auto,
                 local, calls, faults, expiries, ghosts>>

\* applyOptOut, the transaction: the contact and its suppression.
OptOut ==
  /\ MayOptOut
  /\ optedOut' = TRUE
  /\ suppressed' = TRUE
  /\ UNCHANGED <<rows, leasing, version, paused, connected, approved, auto, local, bounds,
                 ghosts>>

\* applyOptOut, after it: every message that is not concluded is failed.
OptOutSweep ==
  /\ suppressed
  /\ outcome' = [m \in Keys |->
       IF outcome[m] \in {"PREPARED", "DISPATCHING"} THEN "FAILED" ELSE outcome[m]]
  /\ UNCHANGED <<bound, leasing, version, contact, local, bounds, ghosts>>

\* clearOptOut: the flag only; nothing deletes the suppression.
ClearOptOut ==
  /\ optedOut
  /\ optedOut' = FALSE
  /\ UNCHANGED <<rows, leasing, version, paused, suppressed, connected, approved,
                 auto, local, bounds, ghosts>>

-----------------------------------------------------------------------------
CallStep(c) ==
  \/ Approval(c) \/ Lookup(c) \/ Interrupt(c) \/ Gate1(c) \/ ReadConversation(c)
  \/ Prepare(c) \/ Invalidate(c) \/ LeaseLook(c) \/ LeaseUpdate(c) \/ LeaseCreate(c)
  \/ Recheck(c) \/ Gate2(c) \/ Credential(c) \/ Fail(c) \/ Dispatch(c) \/ Send(c)
  \/ Conclude(c) \/ Release(c)

Next ==
  \/ \E c \in Calls : Start(c) \/ CallStep(c) \/ Throw(c) \/ Crash(c)
  \/ \E r \in Requests : Approve(r) \/ Overrule(r)
  \/ \E p \in BOOLEAN : SetMode(p)
  \/ LeaseExpires \/ Activity \/ Revoke \/ OptOut \/ OptOutSweep \/ ClearOptOut

Spec == Init /\ [][Next]_vars

-----------------------------------------------------------------------------
(* Properties *)

\* What a message has come to.  A message the dispatch itself turned down is refused,
\* though not while a call that began before may still write over it; of one that an
\* adapter called failed or uncertain nobody knows.
VerdictOn(m) ==
  CASE outcome[m] = "CONFIRMED" -> "done"
    [] outcome[m] \in {"RECONCILIATION_REQUIRED", "PROVIDER_SEND_FAILED"} -> "unknown"
    [] outcome[m] = "FAILED" /\ (\A c \in Calls : key[c] = m => late[c]) -> "refused"
    [] OTHER                                  -> "open"

OneEffect == INSTANCE SingleEffect WITH
  Operations <- Keys,
  verdict    <- [m \in Keys |-> VerdictOn(m)],
  effects    <- sends

\* A caller that repeats a call only after the previous one has ended, crashed or not,
\* gets a single effect: the provider accepts the message at most once, and CONFIRMED,
\* FAILED with no call left that began before, PROVIDER_SEND_FAILED and
\* RECONCILIATION_REQUIRED are last words, after which nothing is delivered.  CONFIRMED
\* means that the message was accepted, FAILED for a reason of the dispatch's own (stale,
\* not contactable, connection gone, invalidated) that it was not; the other two leave
\* it open, a FAILED with the code PROVIDER_SEND_FAILED included.  (In an instance
\* without opt-outs: the sweep of applyOptOut fails messages that are being sent.)
DispatchIsSingleEffect == OneEffect!EffectSpec

\* The provider accepts a message at most once, as long as a caller repeats a call
\* only after the previous one has ended, crashed or not: a retry finds PREPARED,
\* or takes DISPATCHING for an uncertain delivery.
AtMostOneSend == \A m \in Keys : sends[m] =< 1

\* A confirmed message was accepted by the provider, although calls, opt-outs and
\* human sends overwrite each other's outcomes.
ConfirmedMeansSent == \A m \in Keys : outcome[m] = "CONFIRMED" => sends[m] > 0

\* A call that starts when its message is past PREPARED (confirmed, failed,
\* uncertain, or being sent), or when the contact is suppressed, never reaches the
\* provider, whatever other calls, opt-outs and human sends do meanwhile.
LateCallsNeverSend == \A c \in Calls : late[c] => pc[c] \notin {"dispatch", "send", "conclude"}
=============================================================================
