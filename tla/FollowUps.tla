------------------------------ MODULE FollowUps ------------------------------
(***************************************************************************)
(* Follow-ups and the approval of automated messages, on top of the        *)
(* outbound dispatch: src/services/followups.ts, src/workers/followups.ts  *)
(* and decideApprovalRequest of src/services/automation-os.ts.             *)
(*                                                                         *)
(* A follow-up is a row with its message's key (followup:<id>).  A sweep   *)
(* (workers/index.ts, the cron route) reads the due rows and works them    *)
(* off one by one: it sends the message itself when AI_AUTO_SOCIAL_SEND is *)
(* on, and otherwise asks for approval and closes the row.  People decide  *)
(* requests, and whoever approves also sends.  Replies, bookings and       *)
(* opt-outs cancel what is still SCHEDULED.  Every row is written by id    *)
(* after a read; sweeps and people overlap.                                *)
(*                                                                         *)
(* The calls of dispatchOutboundMessage are those of OutboundDispatch: each*)
(* sweep and each person has one call slot.                                *)
(***************************************************************************)
EXTENDS OutboundDispatch

CONSTANTS
  Sweeps,      \* concurrent executions of processDueFollowUps
  People,      \* concurrent executions of decideApprovalRequest
  MaxEvents,   \* bound: replies, bookings and handoffs in a behaviour
  MaxBreaks    \* bound: exceptions and crashes in a behaviour

ASSUME FollowUpAssumption ==
  /\ Calls = Sweeps \cup People
  /\ Sweeps \cap People = {}
  /\ MaxEvents \in Nat /\ MaxBreaks \in Nat

\* The follow-ups of the conversation, by the key of their message.
Rows == Keys \ HumanKeys

\* FollowUpStatus; NONE: not created, or not due.
RowStatus == {"NONE", "SCHEDULED", "SENT", "CANCELLED", "FAILED"}

Step == {"idle", "check", "request", "write", "decide", "call", "wait"}

VARIABLES
  status,             \* FollowUp.status
  pending, rejected,  \* requests by status, with approved of OutboundDispatch
  step,               \* sweeps and people: what comes next
  todo, cur,          \* sweeps: rows read and not yet begun, row in hand
  subject, decision,  \* people: the request in hand, and the decision
  answer,             \* how the dispatch ended
  schedule,           \* scheduleFollowUps: nothing to do, or about to create
  cancels, aborts,    \* how often each bounded thing has happened
  endorsed,           \* ghost: rows one of whose requests a person approved
  vetoed,             \* ghost: calls whose request was REJECTED when they began, and
                      \* has not been approved since
  met,                \* ghost: rows some sweep has read
  intime,             \* ghost: rows cancelled before any sweep read them
  crowded             \* ghost: rows with two dispatches at a time

frame == <<status, pending, rejected>>
mine  == <<step, todo, cur, subject, decision, answer>>
world == <<schedule, cancels, aborts>>
marks == <<endorsed, vetoed, met, intime, crowded>>
fvars == <<frame, mine, world, marks>>
allvars == <<vars, fvars>>

FollowUpTypeOK ==
  /\ status \in [Rows -> RowStatus]
  /\ pending \subseteq Requests /\ rejected \subseteq Requests
  /\ step \in [Calls -> Step]
  /\ todo \in [Calls -> SUBSET Rows]
  /\ cur \in [Calls -> Rows \cup {NoKey}]
  /\ subject \in [Calls -> Requests \cup {NoRequest}]
  /\ decision \in [Calls -> {"APPROVED", "REJECTED"}]
  /\ answer \in [Calls -> Answer]
  /\ schedule \in {"no", "create"}
  /\ cancels \in Nat /\ aborts \in Nat
  /\ endorsed \subseteq Rows /\ vetoed \subseteq Calls /\ met \subseteq Rows
  /\ intime \subseteq Rows /\ crowded \subseteq Rows

FInit ==
  /\ Init
  /\ status = [f \in Rows |-> "NONE"]
  /\ pending = {} /\ rejected = {}
  /\ step = [c \in Calls |-> "idle"]
  /\ todo = [c \in Calls |-> {}]
  /\ cur = [c \in Calls |-> NoKey]
  /\ subject = [c \in Calls |-> NoRequest]
  /\ decision = [c \in Calls |-> "REJECTED"]
  /\ answer = [c \in Calls |-> "refused"]
  /\ schedule = "no"
  /\ cancels = 0 /\ aborts = 0
  /\ endorsed = {} /\ vetoed = {} /\ met = {} /\ intime = {} /\ crowded = {}

Goto(c, next) == step' = [step EXCEPT ![c] = next]

\* The sweep or the person is done or gone: its locals are forgotten.
Leave(c) ==
  /\ Goto(c, "idle")
  /\ todo' = [todo EXCEPT ![c] = {}]
  /\ cur' = [cur EXCEPT ![c] = NoKey]
  /\ subject' = [subject EXCEPT ![c] = NoRequest]
  /\ decision' = [decision EXCEPT ![c] = "REJECTED"]
  /\ answer' = [answer EXCEPT ![c] = "refused"]

-----------------------------------------------------------------------------
(* services/followups.ts: scheduling and cancelling *)

\* A cancellation that does not look at the status.
MutantCancelled(f) == status[f] # "NONE"

\* The rows a cancellation's WHERE clause selects.
Cancelled(f) == status[f] = "SCHEDULED"

\* cancelPendingFollowUps and cancelFollowUpsOnOptOut.
CancelPending ==
  /\ status' = [f \in Rows |-> IF Cancelled(f) THEN "CANCELLED" ELSE status[f]]
  /\ intime' = intime \cup {f \in Rows \ met : Cancelled(f)}
  /\ UNCHANGED <<pending, rejected, mine, aborts, endorsed, vetoed, met, crowded>>

\* A reply, a booking, an automation or an opt-out cancels what is scheduled.
Cancel ==
  /\ cancels + activity < MaxEvents
  /\ cancels' = cancels + 1
  /\ CancelPending
  /\ UNCHANGED <<vars, schedule>>

\* A handoff does so in the transaction that pauses the automation.
Handoff ==
  /\ cancels + activity < MaxEvents
  /\ Activity /\ paused'
  /\ CancelPending
  /\ UNCHANGED <<schedule, cancels>>

\* scheduleFollowUps cancels what is scheduled ...
Reschedule ==
  /\ schedule = "no"
  /\ \E f \in Rows : status[f] = "NONE"
  /\ schedule' = "create"
  /\ CancelPending
  /\ UNCHANGED <<vars, cancels>>

\* ... and creates the new row, which becomes due.
Create ==
  /\ schedule = "create"
  /\ schedule' = "no"
  /\ \E f \in Rows :
       /\ status[f] = "NONE"
       /\ status' = [status EXCEPT ![f] = "SCHEDULED"]
  /\ UNCHANGED <<vars, pending, rejected, mine, cancels, aborts, marks>>

-----------------------------------------------------------------------------
(* workers/followups.ts: the sweep *)

\* A selection that also takes the rows that were cancelled.
MutantDue(f) == status[f] \in {"SCHEDULED", "CANCELLED"} /\ ~optedOut

\* The rows findMany returns.
Due(f) == status[f] = "SCHEDULED" /\ ~optedOut

\* The sweep turns to one of the rows of S; the others wait.
Turn(s, S) ==
  /\ \E f \in S :
       /\ cur' = [cur EXCEPT ![s] = f]
       /\ todo' = [todo EXCEPT ![s] = S \ {f}]
  /\ Goto(s, "check")

Select(s) ==
  /\ step[s] = "idle"
  /\ Turn(s, {f \in Rows : Due(f)})
  /\ met' = met \cup {f \in Rows : Due(f)}
  /\ UNCHANGED <<vars, frame, subject, decision, answer, world, endorsed, vetoed,
                 intime, crowded>>

\* dispatchOutboundMessage is called for row f.
Ask(c, f, r) ==
  /\ StartWith(c, f, r)
  /\ crowded' = IF \E d \in Calls : key[d] = f THEN crowded \cup {f} ELSE crowded
  /\ vetoed' = IF r \in rejected THEN vetoed \cup {c} ELSE vetoed \ {c}
  /\ Goto(c, "wait")
  /\ UNCHANGED <<frame, todo, cur, subject, decision, answer, world, endorsed, met,
                 intime>>

\* isContactSuppressed and assertContactable, and the messaging window, which may
\* have closed: a row that may not be sent is cancelled ...
CheckRefuses(s) ==
  /\ step[s] = "check"
  /\ Goto(s, "write")
  /\ UNCHANGED <<vars, frame, todo, cur, subject, decision, answer, world, marks>>

\* ... and the others are sent, or put to a person.
CheckSends(s) ==
  /\ step[s] = "check"
  /\ Contactable(cur[s])
  /\ auto
  /\ Ask(s, cur[s], NoRequest)

CheckAsks(s) ==
  /\ step[s] = "check"
  /\ Contactable(cur[s])
  /\ ~auto
  /\ Goto(s, "request")
  /\ UNCHANGED <<vars, frame, todo, cur, subject, decision, answer, world, marks>>

\* createAiOutboundApprovalRequest.
Request(s) ==
  /\ step[s] = "request"
  /\ \E r \in Requests \ (pending \cup approved \cup rejected) :
       /\ About[r] = cur[s]
       /\ pending' = pending \cup {r}
  /\ Goto(s, "write")
  /\ UNCHANGED <<vars, status, rejected, todo, cur, subject, decision, answer, world,
                 marks>>

\* DispatchStatus where a FollowUpStatus belongs.
MutantStoredAs(a) == CASE a = "ok"      -> "CONFIRMED"
                       [] a = "stale"   -> "CANCELLED"
                       [] a = "refused" -> "FAILED"

\* The status a sweep stores for the answer of a dispatch.
StoredAs(a) == CASE a = "ok"      -> "SENT"
                 [] a = "stale"   -> "CANCELLED"
                 [] a = "refused" -> "FAILED"

\* The row is updated by id, whatever it says by now; the next row follows.
Store(s, st) ==
  /\ status' = [status EXCEPT ![cur[s]] = st]
  /\ IF todo[s] = {}
     THEN Leave(s)
     ELSE /\ Turn(s, todo[s])
          /\ answer' = [answer EXCEPT ![s] = "refused"]
          /\ UNCHANGED <<subject, decision>>
  /\ UNCHANGED <<vars, pending, rejected, world, marks>>

WriteCancelled(s) == step[s] = "write" /\ Store(s, "CANCELLED")

WriteOutcome(s) ==
  /\ s \in Sweeps /\ step[s] = "wait" /\ pc[s] = "idle"
  /\ answer[s] # "thrown"
  /\ Store(s, StoredAs(answer[s]))

-----------------------------------------------------------------------------
(* decideApprovalRequest *)

\* The request is read and must be PENDING.
ReadRequest(p) ==
  /\ step[p] = "idle"
  /\ \E r \in pending : subject' = [subject EXCEPT ![p] = r]
  /\ \E d \in {"APPROVED", "REJECTED"} : decision' = [decision EXCEPT ![p] = d]
  /\ Goto(p, "decide")
  /\ UNCHANGED <<vars, frame, todo, cur, answer, world, marks>>

\* The decision is written by id: of two people, the later one's stays.
StoreApproval(p) ==
  /\ step[p] = "decide" /\ decision[p] = "APPROVED"
  /\ Approve(subject[p])
  /\ pending' = pending \ {subject[p]}
  /\ rejected' = rejected \ {subject[p]}
  /\ endorsed' = endorsed \cup {About[subject[p]]}
  /\ vetoed' = {c \in vetoed : request[c] # subject[p]}
  /\ Goto(p, "call")
  /\ UNCHANGED <<status, todo, cur, subject, decision, answer, world, met, intime, crowded>>

StoreRejection(p) ==
  /\ step[p] = "decide" /\ decision[p] = "REJECTED"
  /\ IF subject[p] \in approved THEN Overrule(subject[p]) ELSE UNCHANGED vars
  /\ pending' = pending \ {subject[p]}
  /\ rejected' = rejected \cup {subject[p]}
  /\ Leave(p)
  /\ UNCHANGED <<status, world, marks>>

\* Whoever approves also sends.
PersonCalls(p) ==
  /\ p \in People /\ step[p] = "call"
  /\ Ask(p, About[subject[p]], subject[p])

\* The send succeeded: the follow-up is SENT, by id.
MarkSent(p) ==
  /\ p \in People /\ step[p] = "wait" /\ pc[p] = "idle"
  /\ answer[p] = "ok"
  /\ status' = [status EXCEPT ![About[subject[p]]] = "SENT"]
  /\ Leave(p)
  /\ UNCHANGED <<vars, pending, rejected, world, marks>>

-----------------------------------------------------------------------------
(* The dispatch, as its callers see it *)

\* An answer that takes every concluded call for a success.
MutantHeard(c) == IF pc[c] = "release" /\ answer[c] # "stale" THEN "ok" ELSE answer[c]

\* What the sweep or the person hears.
Heard(c) == Answered(c, answer[c])

DispatchStep(c) ==
  /\ step[c] = "wait"
  /\ CallStep(c)
  /\ answer' = [answer EXCEPT ![c] = Heard(c)]
  /\ UNCHANGED <<frame, step, todo, cur, subject, decision, world, marks>>

\* A database call inside the dispatch throws, or the process dies in it.
DispatchThrows(c) ==
  /\ step[c] = "wait"
  /\ faults + aborts < MaxBreaks
  /\ Throw(c)
  /\ answer' = [answer EXCEPT ![c] = "thrown"]
  /\ UNCHANGED <<frame, step, todo, cur, subject, decision, world, marks>>

DispatchDies(c) ==
  /\ step[c] = "wait"
  /\ faults + aborts < MaxBreaks
  /\ Crash(c)
  /\ Leave(c)
  /\ UNCHANGED <<frame, world, marks>>

\* The dispatch threw, or failed for a person: the exception ends the sweep, the rest
\* of its rows with it, or the decision, whose request stays APPROVED.
Escape(c) ==
  /\ step[c] = "wait" /\ pc[c] = "idle"
  /\ answer[c] = "thrown" \/ (c \in People /\ answer[c] # "ok")
  /\ Leave(c)
  /\ UNCHANGED <<vars, frame, world, marks>>

\* Anything else that throws ends the sweep, the rest of its rows with it, or the
\* decision; so does the end of the process.
Abort(c) ==
  /\ step[c] \notin {"idle", "wait"}
  /\ faults + aborts < MaxBreaks
  /\ aborts' = aborts + 1
  /\ Leave(c)
  /\ UNCHANGED <<vars, frame, schedule, cancels, marks>>

-----------------------------------------------------------------------------
SweepStep(s) ==
  \/ Select(s) \/ CheckRefuses(s) \/ CheckSends(s) \/ CheckAsks(s) \/ Request(s)
  \/ DispatchStep(s) \/ WriteCancelled(s) \/ WriteOutcome(s)

PersonStep(p) ==
  \/ ReadRequest(p) \/ StoreApproval(p) \/ StoreRejection(p) \/ PersonCalls(p)
  \/ DispatchStep(p) \/ MarkSent(p)

\* The customer writes; the pipeline cancels the follow-ups later, with Cancel.  (Leases
\* that expire, opt-outs and connections are the subject of OutboundDispatch.)
Message ==
  /\ cancels + activity < MaxEvents
  /\ Activity /\ paused' = paused
  /\ UNCHANGED fvars

FNext ==
  \/ \E s \in Sweeps : SweepStep(s)
  \/ \E p \in People : PersonStep(p)
  \/ \E c \in Calls : DispatchThrows(c) \/ DispatchDies(c) \/ Escape(c) \/ Abort(c)
  \/ Cancel \/ Handoff \/ Message \/ Reschedule \/ Create

FSpec == FInit /\ [][FNext]_allvars

-----------------------------------------------------------------------------
(* Properties *)

\* A follow-up that says SENT reached the provider, although sweeps, people and
\* cancellations write the row by id and dispatches overlap (followups.ts:191,
\* automation-os.ts:461).
SentMeansSent == \A f \in Rows : status[f] = "SENT" => sends[f] > 0

\* Without AI_AUTO_SOCIAL_SEND nothing reaches the provider that no person approved
\* (ai-auto-social-send.ts: "AI must not auto-send on social channels"); and if a second
\* person's rejection of the same request is stored before the approver's dispatch
\* begins, the message is not sent.
ApprovalDecides ==
  ~auto => /\ \A f \in Rows : sends[f] > 0 => f \in endorsed
           /\ \A c \in vetoed : pc[c] \notin {"dispatch", "send", "conclude"}

\* A follow-up reaches the provider once, as long as no two dispatches of it run at
\* the same time: a sweep that repeats the work of one that died, a second request
\* for the same follow-up and a second approval all find what was done.
SentOnce == \A f \in Rows \ crowded : sends[f] =< 1

\* A follow-up that a reply, a booking or an opt-out cancelled before a sweep had read
\* it stays cancelled and is never sent.
CancelledInTime == \A f \in intime : status[f] = "CANCELLED" /\ sends[f] = 0

\* SENT is final once no sweep has the row in hand: only a sweep that read it while it
\* was SCHEDULED overwrites it.
SentStays ==
  [][\A f \in Rows :
       status[f] = "SENT" /\ (\A s \in Sweeps : f \notin todo[s] /\ cur[s] # f)
         => status'[f] = "SENT"]_allvars
=============================================================================
