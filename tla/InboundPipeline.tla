--------------------------- MODULE InboundPipeline ---------------------------
(***************************************************************************)
(* Inbound messages of one conversation, on top of the outbound dispatch:  *)
(* processInboundMessage of src/services/inbound-pipeline.ts, with the     *)
(* opt-out and the scheduling of follow-ups it calls.                      *)
(*                                                                         *)
(* A message arrives as a webhook, and again when the provider has no      *)
(* answer in time, when the route answered 500, or when an administrator   *)
(* retries it: each execution is a delivery.  The WebhookEvent row says    *)
(* how far a message is; it is read once, at the start, and every later    *)
(* write to it is by id.  What a delivery does with the message depends on *)
(* the contact and the conversation as its transaction saw them, although  *)
(* the AI's analysis, which takes seconds, comes after it.                 *)
(*                                                                         *)
(* The reply to message m is the outbound message with key m               *)
(* (ai-reply:<id of m>).  Each delivery has one call slot of               *)
(* OutboundDispatch.                                                       *)
(***************************************************************************)
EXTENDS OutboundDispatch

CONSTANTS
  Stops,         \* messages that ask not to be contacted any more
  NoMessage,     \* a delivery slot that is free
  MaxDeliveries, \* bound: deliveries in a behaviour
  MaxPeople,     \* bound: takeovers and resumptions by people in a behaviour
  MaxBreaks      \* bound: exceptions and crashes in a behaviour

\* The other messages, by the key of their reply.
Plain == Keys \ HumanKeys

Messages == Plain \cup Stops

ASSUME InboundAssumption ==
  /\ Stops \cap Keys = {}
  /\ NoMessage \notin Messages
  /\ MayOptOut
  /\ MaxDeliveries \in Nat /\ MaxPeople \in Nat /\ MaxBreaks \in Nat

\* WebhookProcessingStatus; NONE: no row yet.
EventStatus == {"NONE", "RECEIVED", "PROCESSING", "PROCESSED", "IGNORED", "FAILED"}

\* What a delivery's transaction saw: the AI handles the conversation, it is paused or
\* handled by a person, or the contact has opted out.
Sight == {"open", "paused", "out"}

\* Steps in which a delivery works with what it saw.
Past == {"cancel", "rules", "draft", "reply", "wait", "schedule", "plan"}

Step == Past \cup {"idle", "create", "claim", "store", "apply", "sweep", "quiet",
                   "finish", "after", "failed"}

VARIABLES
  event,       \* WebhookEvent.status, by message
  stored,      \* messages with a Message row
  requested,   \* how many approval requests for the reply to a message
  scheduled,   \* messages whose follow-ups are SCHEDULED
  at, msg,     \* deliveries: what comes next, and the message in hand
  saw,         \* what the transaction saw
  answer,      \* how the dispatch ended
  deliveries, people, aborts,  \* how often each bounded thing has happened
  flagged,     \* ghost: messages put to a person (needsHumanReview), with a paused
               \* conversation or not
  spared,      \* ghost: messages that found the automation paused or switched off
  outrun,      \* ghost: messages stored before the latest activity
  overlapped,  \* ghost: messages with two deliveries at a time
  broken,      \* ghost: messages one of whose deliveries threw or died
  behind,      \* ghost: deliveries past their transaction at the latest pause
  ahead,       \* ghost: deliveries past their transaction at the latest opt-out
  strays       \* ghost: messages whose follow-ups a delivery in ahead scheduled

tables  == <<event, stored, requested, scheduled>>
mine    == <<at, msg, saw, answer>>
counts  == <<deliveries, people, aborts>>
marks   == <<flagged, spared, outrun, overlapped, broken, behind, ahead, strays>>
ivars   == <<tables, mine, counts, marks>>
allvars == <<vars, ivars>>

InboundTypeOK ==
  /\ event \in [Messages -> EventStatus]
  /\ stored \subseteq Messages
  /\ requested \in [Plain -> Nat]
  /\ scheduled \subseteq Plain
  /\ at \in [Calls -> Step]
  /\ msg \in [Calls -> Messages \cup {NoMessage}]
  /\ saw \in [Calls -> Sight]
  /\ answer \in [Calls -> Answer]
  /\ deliveries \in Nat /\ people \in Nat /\ aborts \in Nat
  /\ flagged \subseteq Messages /\ spared \subseteq Messages /\ outrun \subseteq Messages
  /\ overlapped \subseteq Messages /\ broken \subseteq Messages
  /\ behind \subseteq Calls /\ ahead \subseteq Calls /\ strays \subseteq Plain

IInit ==
  /\ Init
  /\ event = [m \in Messages |-> "NONE"]
  /\ stored = {}
  /\ requested = [m \in Plain |-> 0]
  /\ scheduled = {}
  /\ at = [d \in Calls |-> "idle"]
  /\ msg = [d \in Calls |-> NoMessage]
  /\ saw = [d \in Calls |-> "open"]
  /\ answer = [d \in Calls |-> "refused"]
  /\ deliveries = 0 /\ people = 0 /\ aborts = 0
  /\ flagged = {} /\ spared = {} /\ outrun = {} /\ overlapped = {} /\ broken = {}
  /\ behind = {} /\ ahead = {} /\ strays = {}

Goto(d, next) == at' = [at EXCEPT ![d] = next]

\* The delivery goes on to next and keeps its locals.
Proceed(d, next) == Goto(d, next) /\ UNCHANGED <<msg, saw, answer, behind, ahead>>

\* The delivery is over or dead: its locals are gone.
Leave(d) ==
  /\ Goto(d, "idle")
  /\ msg' = [msg EXCEPT ![d] = NoMessage]
  /\ saw' = [saw EXCEPT ![d] = "open"]
  /\ answer' = [answer EXCEPT ![d] = "refused"]
  /\ behind' = behind \ {d}
  /\ ahead' = ahead \ {d}

\* Deliveries that work with what they saw.
Drafting == {d \in Calls : at[d] \in Past}

-----------------------------------------------------------------------------
(* The webhook's row *)

\* A lookup that finds no duplicate.
MutantDuplicate(m) == FALSE

\* Only a message that was processed is a duplicate; one that failed, was ignored or
\* is being processed is taken up again.
Duplicate(m) == event[m] = "PROCESSED"

\* A delivery looks the row up; a duplicate is answered at once.
Arrive(d, m) ==
  /\ at[d] = "idle"
  /\ deliveries < MaxDeliveries
  /\ deliveries' = deliveries + 1
  /\ ~Duplicate(m)
  /\ msg' = [msg EXCEPT ![d] = m]
  /\ Goto(d, IF event[m] = "NONE" THEN "create" ELSE "claim")
  /\ overlapped' = IF \E e \in Calls : msg[e] = m THEN overlapped \cup {m} ELSE overlapped
  /\ UNCHANGED <<vars, tables, saw, answer, people, aborts, flagged, spared, outrun,
                 broken, behind, ahead, strays>>

\* The row is created; a delivery that loses the race for the unique key throws, before
\* the try block.
CreateEvent(d) ==
  /\ at[d] = "create"
  /\ IF event[msg[d]] = "NONE"
     THEN event' = [event EXCEPT ![msg[d]] = "RECEIVED"] /\ Proceed(d, "claim")
     ELSE Leave(d) /\ UNCHANGED event
  /\ UNCHANGED <<vars, stored, requested, scheduled, counts, flagged, spared, outrun,
                 overlapped, broken, strays>>

\* PROCESSING by id, whatever the row says by now.
ClaimEvent(d) ==
  /\ at[d] = "claim"
  /\ event' = [event EXCEPT ![msg[d]] = "PROCESSING"]
  /\ Proceed(d, "store")
  /\ UNCHANGED <<vars, stored, requested, scheduled, counts, flagged, spared, outrun,
                 overlapped, broken, strays>>

\* A status the WebhookEvent has not.
MutantRefusal == {"SUSPENDED", "FAILED"}

\* What becomes of a message to a suspended or a missing organisation.
Refusal == {"IGNORED", "FAILED"}

Refuse(d) ==
  /\ at[d] = "store"
  /\ \E r \in Refusal : event' = [event EXCEPT ![msg[d]] = r]
  /\ Leave(d)
  /\ UNCHANGED <<vars, stored, requested, scheduled, counts, flagged, spared, outrun,
                 overlapped, broken, strays>>

\* Whoever stored a message before the activity of this step is outrun.
NoteActivity == outrun' = IF version' # version THEN outrun \cup stored ELSE outrun

\* The transaction that stores the message, an activity, and reads the contact and the
\* conversation.
Seen == IF optedOut THEN "out" ELSE IF paused THEN "paused" ELSE "open"

\* An opt-out that only the words of a message reveal.
MutantStopped(m, s) == m \in Stops

\* The message asks to stop, or the contact has done so before.
Stopped(m, s) == m \in Stops \/ s = "out"

StoreMessage(d) ==
  /\ at[d] = "store"
  /\ Activity /\ paused' = paused
  /\ NoteActivity
  /\ stored' = stored \cup {msg[d]}
  /\ saw' = [saw EXCEPT ![d] = Seen]
  /\ Goto(d, IF ~Stopped(msg[d], Seen) THEN "cancel"
             ELSE IF Seen = "out" THEN "quiet" ELSE "apply")
  /\ UNCHANGED <<event, requested, scheduled, msg, answer, counts, flagged, spared,
                 overlapped, broken, behind, ahead, strays>>

-----------------------------------------------------------------------------
(* Opting out *)

\* applyOptOut: its transaction ...
ApplyOptOut(d) ==
  /\ at[d] = "apply"
  /\ OptOut
  /\ ahead' = Drafting
  /\ Goto(d, "sweep")
  /\ UNCHANGED <<tables, msg, saw, answer, counts, flagged, spared, outrun, overlapped,
                 broken, behind, strays>>

\* ... the messages that are under way ...
SweepMessages(d) ==
  /\ at[d] = "sweep"
  /\ OptOutSweep
  /\ Proceed(d, "quiet")
  /\ UNCHANGED <<tables, counts, flagged, spared, outrun, overlapped, broken, strays>>

\* ... and the follow-ups; for a contact that has opted out before only these.
QuietFollowUps(d) ==
  /\ at[d] = "quiet"
  /\ scheduled' = {}
  /\ Proceed(d, "finish")
  /\ UNCHANGED <<vars, event, stored, requested, counts, flagged, spared, outrun,
                 overlapped, broken, strays>>

-----------------------------------------------------------------------------
(* Answering *)

\* A reply of the customer cancels the follow-ups.
CancelFollowUps(d) ==
  /\ at[d] = "cancel"
  /\ scheduled' = {}
  /\ Proceed(d, "rules")
  /\ UNCHANGED <<vars, event, stored, requested, counts, flagged, spared, outrun,
                 overlapped, broken, strays>>

\* The automation rules may pause the conversation: those for an inbound message do it
\* before the draft ...
RulePauses(d) ==
  /\ at[d] \in {"rules", "reply"}
  /\ ~paused
  /\ SetMode(TRUE)
  /\ behind' = Drafting
  /\ UNCHANGED <<tables, mine, counts, flagged, spared, outrun, overlapped, broken, ahead,
                 strays>>

\* A decision that reads the automation's mode from the organisation only.
MutantMayDraft(d) == TRUE

\* ... but what the transaction saw decides whether the AI may draft.
MayDraft(d) == saw[d] = "open"

Consider(d) ==
  /\ at[d] = "rules"
  /\ MayDraft(d)
  /\ Proceed(d, "draft")
  /\ UNCHANGED <<vars, tables, counts, flagged, spared, outrun, overlapped, broken, strays>>

\* The conversation is paused, or the organisation has its autopilot switched off.
Spare(d) ==
  /\ at[d] = "rules"
  /\ spared' = spared \cup {msg[d]}
  /\ Proceed(d, "finish")
  /\ UNCHANGED <<vars, tables, counts, flagged, outrun, overlapped, broken, strays>>

\* The AI has analysed the message.  Its verdict is written by id, in place of the mode
\* the conversation has by now: a person takes over (the AI asks for it, is unsure or
\* gives no valid answer) ...
HandOver(d) ==
  /\ at[d] = "draft"
  /\ SetMode(TRUE)
  /\ flagged' = flagged \cup {msg[d]}
  /\ behind' = Drafting
  /\ Goto(d, "finish")
  /\ UNCHANGED <<tables, msg, saw, answer, counts, spared, outrun, overlapped, broken, ahead,
                 strays>>

\* ... or the AI goes on.
KeepHandling(d) ==
  /\ at[d] = "draft"
  /\ SetMode(FALSE)
  /\ Proceed(d, "reply")
  /\ UNCHANGED <<tables, counts, flagged, spared, outrun, overlapped, broken, strays>>

\* The messaging window has closed: the conversation is flagged.
WindowClosed(d) ==
  /\ at[d] = "reply"
  /\ flagged' = flagged \cup {msg[d]}
  /\ Proceed(d, "finish")
  /\ UNCHANGED <<vars, tables, counts, spared, outrun, overlapped, broken, strays>>

\* A person must approve the reply: AI_AUTO_SOCIAL_SEND is off, or the organisation
\* wants it so.
RequestApproval(d) ==
  /\ at[d] = "reply"
  /\ requested' = [requested EXCEPT ![msg[d]] = @ + 1]
  /\ flagged' = flagged \cup {msg[d]}
  /\ Proceed(d, "schedule")
  /\ UNCHANGED <<vars, event, stored, scheduled, counts, spared, outrun, overlapped, broken,
                 strays>>

\* prepareAndSendOutbound.
SendReply(d) ==
  /\ at[d] = "reply"
  /\ auto
  /\ StartWith(d, msg[d], NoRequest)
  /\ Proceed(d, "wait")
  /\ UNCHANGED <<tables, counts, flagged, spared, outrun, overlapped, broken, strays>>

DispatchStep(d) ==
  /\ at[d] = "wait"
  /\ CallStep(d)
  /\ answer' = [answer EXCEPT ![d] = Answered(d, answer[d])]
  /\ NoteActivity
  /\ UNCHANGED <<tables, at, msg, saw, counts, flagged, spared, overlapped, broken, behind,
                 ahead, strays>>

\* A refusal that is only logged.
MutantNeedsPerson(a) == FALSE

\* A refused or failed send is put to a person, a stale one is not.
NeedsPerson(a) == a = "refused"

ReplyEnds(d) ==
  /\ at[d] = "wait" /\ pc[d] = "idle"
  /\ answer[d] # "thrown"
  /\ flagged' = IF NeedsPerson(answer[d]) THEN flagged \cup {msg[d]} ELSE flagged
  /\ Proceed(d, "schedule")
  /\ UNCHANGED <<vars, tables, counts, spared, outrun, overlapped, broken, strays>>

\* scheduleFollowUps: nothing, when follow-ups are switched off; otherwise it cancels ...
Reschedule(d) ==
  /\ at[d] = "schedule"
  /\ \/ Proceed(d, "finish") /\ UNCHANGED scheduled
     \/ Proceed(d, "plan") /\ scheduled' = {}
  /\ UNCHANGED <<vars, event, stored, requested, counts, flagged, spared, outrun,
                 overlapped, broken, strays>>

\* ... and creates the new rows, unless the policy plans none.
Plan(d) ==
  /\ at[d] = "plan"
  /\ scheduled' \in {scheduled, scheduled \cup {msg[d]}}
  /\ strays' = IF d \in ahead THEN strays \cup {msg[d]} ELSE strays
  /\ Proceed(d, "finish")
  /\ UNCHANGED <<vars, event, stored, requested, counts, flagged, spared, outrun,
                 overlapped, broken>>

\* PROCESSED by id; the rules for an opt-out run after it.
Finish(d) ==
  /\ at[d] = "finish"
  /\ event' = [event EXCEPT ![msg[d]] = "PROCESSED"]
  /\ IF Stopped(msg[d], saw[d]) THEN Proceed(d, "after") ELSE Leave(d)
  /\ UNCHANGED <<vars, stored, requested, scheduled, counts, flagged, spared, outrun,
                 overlapped, broken, strays>>

AfterOptOut(d) ==
  /\ at[d] = "after"
  /\ Leave(d)
  /\ UNCHANGED <<vars, tables, counts, flagged, spared, outrun, overlapped, broken, strays>>

-----------------------------------------------------------------------------
(* Exceptions and crashes *)

\* The try block, where an exception leads to FAILED; the refusals are before it.
Guarded == Step \ {"idle", "create", "claim", "wait", "failed"}

Break(d) ==
  /\ faults + aborts < MaxBreaks
  /\ broken' = broken \cup {msg[d]}

\* A database call, the AI's or another service throws.
Raise(d) ==
  /\ at[d] \in Guarded
  /\ Break(d)
  /\ aborts' = aborts + 1
  /\ Proceed(d, "failed")
  /\ UNCHANGED <<vars, tables, deliveries, people, flagged, spared, outrun, overlapped, strays>>

\* One of the dispatch's calls does.
DispatchThrows(d) ==
  /\ at[d] = "wait"
  /\ Break(d)
  /\ Throw(d)
  /\ answer' = [answer EXCEPT ![d] = "thrown"]
  /\ UNCHANGED <<tables, at, msg, saw, counts, flagged, spared, outrun, overlapped, behind,
                 ahead, strays>>

\* The exception reaches the pipeline.
Escape(d) ==
  /\ at[d] = "wait" /\ pc[d] = "idle"
  /\ answer[d] = "thrown"
  /\ Proceed(d, "failed")
  /\ UNCHANGED <<vars, tables, counts, flagged, spared, outrun, overlapped, broken, strays>>

\* What the catch block stores.
AfterError == "FAILED"

MarkFailed(d) ==
  /\ at[d] = "failed"
  /\ event' = [event EXCEPT ![msg[d]] = AfterError]
  /\ Leave(d)
  /\ UNCHANGED <<vars, stored, requested, scheduled, counts, flagged, spared, outrun,
                 overlapped, broken, strays>>

\* The process dies, or a call outside the try block throws: the row stays as it is.
Abort(d) ==
  /\ at[d] \notin {"idle", "wait"}
  /\ Break(d)
  /\ aborts' = aborts + 1
  /\ Leave(d)
  /\ UNCHANGED <<vars, tables, deliveries, people, flagged, spared, outrun, overlapped, strays>>

DispatchDies(d) ==
  /\ at[d] = "wait"
  /\ Break(d)
  /\ Crash(d)
  /\ Leave(d)
  /\ UNCHANGED <<tables, counts, flagged, spared, outrun, overlapped, strays>>

-----------------------------------------------------------------------------
(* People *)

\* A person takes the conversation over (handoff.ts) ...
TakeOver ==
  /\ people < MaxPeople
  /\ people' = people + 1
  /\ Activity /\ paused'
  /\ NoteActivity
  /\ scheduled' = {}
  /\ behind' = Drafting
  /\ UNCHANGED <<event, stored, requested, mine, deliveries, aborts, flagged, spared,
                 overlapped, broken, ahead, strays>>

\* ... and gives it back.
Resume ==
  /\ people < MaxPeople
  /\ people' = people + 1
  /\ paused
  /\ SetMode(FALSE)
  /\ UNCHANGED <<tables, mine, deliveries, aborts, marks>>

-----------------------------------------------------------------------------
DeliveryStep(d) ==
  \/ \E m \in Messages : Arrive(d, m)
  \/ CreateEvent(d) \/ ClaimEvent(d) \/ Refuse(d) \/ StoreMessage(d)
  \/ ApplyOptOut(d) \/ SweepMessages(d) \/ QuietFollowUps(d)
  \/ CancelFollowUps(d) \/ RulePauses(d) \/ Consider(d) \/ Spare(d)
  \/ HandOver(d) \/ KeepHandling(d) \/ WindowClosed(d) \/ RequestApproval(d)
  \/ SendReply(d) \/ DispatchStep(d) \/ ReplyEnds(d)
  \/ Reschedule(d) \/ Plan(d) \/ Finish(d) \/ AfterOptOut(d)
  \/ Raise(d) \/ DispatchThrows(d) \/ Escape(d) \/ MarkFailed(d) \/ Abort(d)
  \/ DispatchDies(d)

INext == TakeOver \/ Resume \/ \E d \in Calls : DeliveryStep(d)

ISpec == IInit /\ [][INext]_allvars

-----------------------------------------------------------------------------
(* Properties *)

\* A message that is PROCESSED was stored, and something became of it: the contact is
\* opted out and suppressed (opt-outs), or the reply reached the provider, waits for
\* approval or was put to a person, or the automation was off, or a later activity of the
\* conversation made the reply stale.  Nothing is marked PROCESSED and forgotten, however
\* deliveries overlap, throw and die.
ProcessedMeansHandled ==
  \A m \in Messages : event[m] = "PROCESSED" =>
    /\ m \in stored
    /\ m \in Stops => suppressed
    /\ \/ suppressed \/ m \in flagged \/ m \in spared \/ m \in outrun
       \/ m \in Plain /\ sends[m] > 0

\* As long as the deliveries of a message do not overlap, its reply reaches the provider
\* once, although crashed and failed deliveries are repeated from the start; and if none
\* of them threw or died, at most one approval is requested.
AnsweredOnce ==
  \A m \in Plain \ overlapped :
    /\ sends[m] =< 1
    /\ m \notin broken => requested[m] =< 1

\* Once an opt-out is PROCESSED, the only deliveries that may still draft, send or
\* schedule anything are those that were past their transaction when the contact opted
\* out; of the follow-ups only theirs remain.
OptOutSticks ==
  (\E m \in Stops : event[m] = "PROCESSED") =>
    /\ optedOut /\ suppressed
    /\ Drafting \subseteq ahead
    /\ scheduled \subseteq strays

\* A pause is undone only by a person, or by a delivery that had read the conversation
\* before: no delivery that begins after a takeover brings the AI back.
PauseStands ==
  [][paused /\ ~paused' => people' # people \/ \E d \in behind : at[d] = "draft"]_allvars

\* PROCESSED is final for a message that is no opt-out, unless its deliveries overlap.
\* (The rules for an opt-out run after its PROCESSED and may throw.)
ProcessedStays ==
  [][\A m \in Plain \ overlapped' :
       event[m] = "PROCESSED" /\ ~optedOut => event'[m] = "PROCESSED"]_allvars
=============================================================================
