------------------------- MODULE PublishingDispatch -------------------------
(***************************************************************************)
(* One social publishing job, from the request to the provider's word on   *)
(* it: src/services/publishing/{dispatch,approve,reconcile}.ts,            *)
(* recordPublishResult of src/services/content-os.ts, the sweep of         *)
(* src/workers/publishing-sweep.ts, the approvals route, and the publish   *)
(* events of src/adapters/zernio/webhook-coverage.ts.                      *)
(*                                                                         *)
(* Sweeps overlap: setInterval does not wait, and several workers run.     *)
(* A publish call that times out is not cancelled, racePublish only stops  *)
(* waiting for it: the provider may accept it at any later time.           *)
(***************************************************************************)
EXTENDS Integers, FiniteSets

CONSTANTS
  Sweeps,        \* executions of processDuePublishingJobs that may overlap
  Operators,     \* requests of people that may overlap
  OperatorKinds, \* what they ask for
  MaxRequests,   \* bound: requests of people in a behaviour
  MaxFaults,     \* bound: crashes and failed database calls in a behaviour
  MaxEvents      \* bound: deletions on the platform and webhook events

Kinds == {"approve", "reject", "cancel", "confirm", "reconcile"}

ASSUME PublishingAssumption ==
  /\ OperatorKinds \subseteq Kinds
  /\ MaxRequests \in Nat /\ MaxFaults \in Nat /\ MaxEvents \in Nat

\* PublishingJobStatus, as far as the code stores it.
Status == {"PENDING_APPROVAL", "QUEUED", "SCHEDULED", "DISPATCHING", "PUBLISHED",
           "FAILED", "RECONCILIATION_REQUIRED", "CANCELLED"}

ExternalOutcome == {"PREPARED", "DISPATCHING", "CONFIRMED", "FAILED",
                    "RECONCILIATION_REQUIRED"}

VARIABLES
  status, outcome,  \* PublishingJob.status and externalOutcome
  postId,           \* externalPostId is stored
  due,              \* scheduledAt is null or has passed
  approval,         \* the job's ApprovalRequest, "NONE" if policy asks for none
  path,             \* the connection: "native" OAuth or "zernio"
  pc,               \* the sweeps, inside dispatchPublishingJob
  flight,           \* the publish call of a sweep, on the provider's side
  oppc,             \* the requests: what they write next
  live,             \* the post is on the platform
  used,             \* how often each bounded thing has happened
  \* ghosts: calls made, posts accepted, whether a rejection or a cancellation took
  \* effect before any claim, and whether an error was answered that was no refusal
  calls, posts, withdrawn, misled

job    == <<status, outcome, postId>>
people == <<approval, oppc>>
ghosts == <<calls, posts, withdrawn, misled>>
vars   == <<job, due, people, path, pc, flight, live, used, ghosts>>

SweepPC == {"idle", "claim", "check", "call", "await", "recheck", "record", "fail",
            "reconcile"}

OperatorPC == {"idle", "approve", "reject", "cancel", "confirm", "stamp", "deny",
               "stampRequest"}

Flight == {"none", "out", "accepted", "refused"}

TypeOK ==
  /\ status \in Status /\ outcome \in ExternalOutcome
  /\ postId \in BOOLEAN /\ due \in BOOLEAN /\ live \in BOOLEAN
  /\ withdrawn \in BOOLEAN /\ misled \in BOOLEAN
  /\ approval \in {"NONE", "PENDING", "APPROVED", "REJECTED"}
  /\ path \in {"native", "zernio"}
  /\ pc \in [Sweeps -> SweepPC]
  /\ flight \in [Sweeps -> Flight]
  /\ oppc \in [Operators -> OperatorPC]
  /\ used \in [{"requests", "faults", "events"} -> Nat]
  /\ calls \in Nat /\ posts \in Nat

\* Stores the status that the documents name.
MutantQueued == "APPROVED"

\* The status of a job that needs no approval, or no further one.
Queued == IF due THEN "QUEUED" ELSE "SCHEDULED"

\* requestPublish's transaction, with or without an approval request.
Init ==
  /\ outcome = "PREPARED" /\ postId = FALSE
  /\ due \in BOOLEAN
  /\ \/ status = "PENDING_APPROVAL" /\ approval = "PENDING"
     \/ status = Queued /\ approval = "NONE"
  /\ path \in {"native", "zernio"}
  /\ pc = [s \in Sweeps |-> "idle"]
  /\ flight = [s \in Sweeps |-> "none"]
  /\ oppc = [o \in Operators |-> "idle"]
  /\ live = FALSE
  /\ used = [b \in {"requests", "faults", "events"} |-> 0]
  /\ calls = 0 /\ posts = 0 /\ withdrawn = FALSE /\ misled = FALSE

\* scheduledAt passes.
BecomeDue ==
  /\ ~due /\ due' = TRUE
  /\ UNCHANGED <<job, people, path, pc, flight, live, used, ghosts>>

-----------------------------------------------------------------------------
(* What is written to the job *)

Dispatchable == {"QUEUED", "SCHEDULED"}

\* A markReconciliation that overwrites whatever it finds.
MutantOpenOutcome == TRUE

\* The condition on externalOutcome of markFailed, markReconciliation and
\* recordPublishResult.
OpenOutcome == outcome # "CONFIRMED"

\* A conditional update of status and outcome.
Store(cond, st, o) ==
  IF cond THEN status' = st /\ outcome' = o ELSE UNCHANGED <<status, outcome>>

\* recordPublishResult with an id, or with a URL.
StorePublished(withId) ==
  LET cond == OpenOutcome /\ status # "PUBLISHED" IN
    /\ Store(cond, "PUBLISHED", "CONFIRMED")
    /\ postId' = IF cond THEN withId ELSE postId

\* recordPublishResult with an error.
StoreFailed == Store(OpenOutcome /\ status # "PUBLISHED", "FAILED", "FAILED")

\* recordPublishResult with reconciliationRequired.
StoreUncertain ==
  Store(OpenOutcome /\ status # "PUBLISHED",
        "RECONCILIATION_REQUIRED", "RECONCILIATION_REQUIRED")

-----------------------------------------------------------------------------
(* dispatchPublishingJob, run by a sweep *)

Goto(s, l) == pc' = [pc EXCEPT ![s] = l]

\* The sweep finds the job, and so do the first checks of the dispatch.
Look(s) ==
  /\ pc[s] = "idle"
  /\ status \in Dispatchable /\ due /\ outcome \notin {"CONFIRMED", "DISPATCHING"}
  /\ Goto(s, "claim")
  /\ UNCHANGED <<job, due, people, path, flight, live, used, ghosts>>

\* A claim that trusts the checks before it.
MutantClaimable == TRUE

\* The WHERE clause of the claim.
Claimable == status \in Dispatchable /\ outcome \in {"PREPARED", "FAILED"} /\ due

\* The compare-and-swap.
Claim(s) ==
  /\ pc[s] = "claim"
  /\ Store(Claimable, "DISPATCHING", "DISPATCHING")
  /\ Goto(s, IF Claimable THEN "check" ELSE "idle")
  /\ UNCHANGED <<postId, due, people, path, flight, live, used, ghosts>>

\* executeClaimed reads the job again; then the connection, its token and the
\* content are found, or are not.
Check(s) ==
  /\ pc[s] = "check"
  /\ IF status = "CANCELLED" \/ outcome = "CONFIRMED"
     THEN Goto(s, "idle")
     ELSE \E l \in {"call", "fail"} : Goto(s, l)
  /\ UNCHANGED <<job, due, people, path, flight, live, used, ghosts>>

\* racePublish starts the call.
Call(s) ==
  /\ pc[s] = "call"
  /\ flight' = [flight EXCEPT ![s] = "out"]
  /\ calls' = calls + 1
  /\ Goto(s, "await")
  /\ UNCHANGED <<job, due, people, path, live, used, posts, withdrawn, misled>>

\* The provider accepts or refuses the post, whether or not anybody still waits.
Decide(s) ==
  /\ flight[s] = "out"
  /\ \/ /\ flight' = [flight EXCEPT ![s] = "accepted"]
        /\ posts' = posts + 1 /\ live' = TRUE
     \/ /\ flight' = [flight EXCEPT ![s] = "refused"]
        /\ UNCHANGED <<posts, live>>
  /\ UNCHANGED <<job, due, people, path, pc, used, calls, withdrawn, misled>>

\* The answers that may reach the sweep: "ok" has an id; "unsure" is 429, 502, 503 or a
\* timeout; "error" is any other error, a 500 or 504 and the adapters' own texts (Failed
\* to publish media) included; "unknown" is a success without an id, or an exception.
\* Errors may come from a gateway before the provider has decided, or after it accepted.
Answers(f) ==
  CASE f = "out"      -> {"unsure", "error"}
    [] f = "accepted" -> {"ok", "unsure", "error", "unknown"}
    [] f = "refused"  -> {"unsure", "error", "unknown"}

\* Takes an answer without an id for a confirmation.
MutantConcluded(p, answer) ==
  CASE answer = "ok"      -> IF p = "native" THEN "recheck" ELSE "record"
    [] answer = "unsure"  -> IF p = "native" THEN "reconcile" ELSE "fail"
    [] answer = "error"   -> "fail"
    [] answer = "unknown" -> "record"

\* Takes every error for a refusal.
MutantRefused(p, answer) ==
  CASE answer = "ok"                  -> IF p = "native" THEN "recheck" ELSE "record"
    [] answer \in {"unsure", "error"} -> "fail"
    [] answer = "unknown"             -> "reconcile"

\* How the dispatch goes on after an answer; the Zernio path takes every error for a
\* refusal.
Concluded(p, answer) ==
  CASE answer = "ok"      -> IF p = "native" THEN "recheck" ELSE "record"
    [] answer = "unsure"  -> IF p = "native" THEN "reconcile" ELSE "fail"
    [] answer = "error"   -> "fail"
    [] answer = "unknown" -> "reconcile"

\* The answer of the provider, true or garbled.
Answer(s) ==
  /\ pc[s] = "await" /\ flight[s] # "none"
  /\ \E a \in Answers(flight[s]) :
       /\ Goto(s, Concluded(path, a))
       /\ misled' = (misled \/ (a = "error" /\ flight[s] # "refused"))
  /\ UNCHANGED <<job, due, people, path, flight, live, used, calls, posts, withdrawn>>

\* racePublish stops waiting, or the connection breaks.
Timeout(s) ==
  /\ pc[s] = "await"
  /\ Goto(s, "reconcile")
  /\ UNCHANGED <<job, due, people, path, flight, live, used, ghosts>>

\* The native path reads the job once more before it confirms.
Recheck(s) ==
  /\ pc[s] = "recheck"
  /\ Goto(s, CASE status = "CANCELLED"    -> "reconcile"
               [] outcome = "CONFIRMED"   -> "idle"
               [] OTHER                   -> "record")
  /\ UNCHANGED <<job, due, people, path, flight, live, used, ghosts>>

\* recordPublishResult with the provider's id.
Record(s) ==
  /\ pc[s] = "record"
  /\ StorePublished(TRUE)
  /\ Goto(s, "idle")
  /\ UNCHANGED <<due, people, path, flight, live, used, ghosts>>

\* markFailed.
MarkFailed(s) ==
  /\ pc[s] = "fail"
  /\ Store(OpenOutcome, "FAILED", "FAILED")
  /\ Goto(s, "idle")
  /\ UNCHANGED <<postId, due, people, path, flight, live, used, ghosts>>

\* markReconciliation.
MarkReconciliation(s) ==
  /\ pc[s] = "reconcile"
  /\ Store(OpenOutcome, "RECONCILIATION_REQUIRED", "RECONCILIATION_REQUIRED")
  /\ Goto(s, "idle")
  /\ UNCHANGED <<postId, due, people, path, flight, live, used, ghosts>>

Use(b) == used' = [used EXCEPT ![b] = used[b] + 1]

\* A database call throws: the catch of dispatchPublishingJob takes the outcome for
\* unknown.
Throw(s) ==
  /\ pc[s] \in {"check", "call", "recheck", "record", "fail"}
  /\ used["faults"] < MaxFaults /\ Use("faults")
  /\ Goto(s, "reconcile")
  /\ UNCHANGED <<job, due, people, path, flight, live, ghosts>>

\* The worker dies; a job it has claimed stays DISPATCHING, which no sweep selects.
Crash(s) ==
  /\ pc[s] # "idle"
  /\ used["faults"] < MaxFaults /\ Use("faults")
  /\ Goto(s, "idle")
  /\ UNCHANGED <<job, due, people, path, flight, live, ghosts>>

-----------------------------------------------------------------------------
(* People *)

Answering(o, l) == oppc' = [oppc EXCEPT ![o] = l]

\* What a request reads before it writes.  A person confirms only a post that they have
\* seen; a lookup needs an id, without one the job is stamped at once.
Allowed(kind) ==
  CASE kind = "approve"   -> status = "PENDING_APPROVAL" /\ approval # "NONE"
    [] kind = "reject"    -> approval # "NONE"
    [] kind = "cancel"    -> /\ status \notin {"PUBLISHED", "DISPATCHING"}
                             /\ outcome # "CONFIRMED"
    [] kind = "confirm"   -> ~(status = "PUBLISHED" /\ outcome = "CONFIRMED") /\ posts > 0
    [] kind = "reconcile" -> ~(status = "PUBLISHED" /\ outcome = "CONFIRMED")

\* What the request writes next, by what the provider says of the post it looks up.
Writes(kind) ==
  IF kind # "reconcile" THEN {kind}
  ELSE {"stamp"} \cup (IF ~postId THEN {} ELSE IF live THEN {"confirm"} ELSE {"deny"})

Request(o) ==
  /\ oppc[o] = "idle"
  /\ used["requests"] < MaxRequests /\ Use("requests")
  /\ \E kind \in OperatorKinds :
       Allowed(kind) /\ \E l \in Writes(kind) : Answering(o, l)
  /\ UNCHANGED <<job, due, approval, path, pc, flight, live, ghosts>>

\* An approval that does not look at the job again.
MutantStillPending == TRUE

\* The WHERE clause of the approval's and the rejection's update.
StillPending == status = "PENDING_APPROVAL"

\* approvePublishingJob: the request and the job in one transaction, or neither.
Approve(o) ==
  /\ oppc[o] = "approve"
  /\ IF approval = "PENDING" /\ StillPending
     THEN /\ status' = Queued
          /\ approval' = "APPROVED"
     ELSE UNCHANGED <<status, approval>>
  /\ Answering(o, "idle")
  /\ UNCHANGED <<outcome, postId, due, path, pc, flight, live, used, ghosts>>

\* rejectPublishingJob, for the job itself or for its approval request.
Reject(o) ==
  /\ oppc[o] = "reject"
  /\ Store(StillPending, "CANCELLED", "FAILED")
  /\ withdrawn' = (withdrawn \/ status = "PENDING_APPROVAL")
  /\ \E l \in {"idle", "stampRequest"} : Answering(o, l)
  /\ UNCHANGED <<postId, due, approval, path, pc, flight, live, used, calls, posts,
                 misled>>

\* The approvals route then marks the request rejected, whatever became of the job.
RejectRequest(o) ==
  /\ oppc[o] = "stampRequest"
  /\ approval' = "REJECTED"
  /\ Answering(o, "idle")
  /\ UNCHANGED <<job, due, path, pc, flight, live, used, ghosts>>

\* cancelPublishingJob's update, by id.
Cancel(o) ==
  /\ oppc[o] = "cancel"
  /\ withdrawn' = (withdrawn \/ status \in Dispatchable \cup {"PENDING_APPROVAL"})
  /\ status' = "CANCELLED"
  /\ Answering(o, "idle")
  /\ UNCHANGED <<outcome, postId, due, approval, path, pc, flight, live, used, calls, posts,
                 misled>>

\* reconcilePublishingJob with a proof, by hand or by lookup.
Confirm(o) ==
  /\ oppc[o] = "confirm"
  /\ \E withId \in BOOLEAN : StorePublished(withId)
  /\ Answering(o, "idle")
  /\ UNCHANGED <<due, approval, path, pc, flight, live, used, ghosts>>

\* reconcilePublishingJob when the lookup finds no post.
Deny(o) ==
  /\ oppc[o] = "deny"
  /\ StoreFailed
  /\ Answering(o, "idle")
  /\ UNCHANGED <<postId, due, approval, path, pc, flight, live, used, ghosts>>

\* stampNote, by id.
Stamp(o) ==
  /\ oppc[o] = "stamp"
  /\ status' = "RECONCILIATION_REQUIRED" /\ outcome' = "RECONCILIATION_REQUIRED"
  /\ Answering(o, "idle")
  /\ UNCHANGED <<postId, due, approval, path, pc, flight, live, used, ghosts>>

-----------------------------------------------------------------------------
(* The platform and its webhooks; an event finds the job by the post's id *)

Event == used["events"] < MaxEvents /\ Use("events")

\* Somebody deletes the post.
Delete ==
  /\ live /\ live' = FALSE
  /\ Event
  /\ UNCHANGED <<job, due, people, path, pc, flight, ghosts>>

\* post.published, post.failed, post.partial and post.platform.deleted.
Webhook ==
  /\ path = "zernio" /\ postId
  /\ Event
  /\ \/ live /\ StorePublished(TRUE)
     \/ ~live /\ StoreFailed /\ UNCHANGED postId
     \/ StoreUncertain /\ UNCHANGED postId
     \/ ~live /\ status' = "RECONCILIATION_REQUIRED" /\ UNCHANGED <<outcome, postId>>
  /\ UNCHANGED <<due, people, path, pc, flight, live, ghosts>>

-----------------------------------------------------------------------------
Dispatch(s) ==
  \/ Look(s) \/ Claim(s) \/ Check(s) \/ Call(s) \/ Answer(s) \/ Timeout(s) \/ Recheck(s)
  \/ Record(s) \/ MarkFailed(s) \/ MarkReconciliation(s) \/ Throw(s) \/ Crash(s)

Ask(o) ==
  \/ Request(o) \/ Approve(o) \/ Reject(o) \/ RejectRequest(o) \/ Cancel(o)
  \/ Confirm(o) \/ Deny(o) \/ Stamp(o)

Next ==
  \/ \E s \in Sweeps : Dispatch(s) \/ Decide(s)
  \/ \E o \in Operators : Ask(o)
  \/ BecomeDue \/ Delete \/ Webhook

Spec == Init /\ [][Next]_vars

-----------------------------------------------------------------------------
(* Properties *)

\* The provider accepts a job's post at most once: overlapping sweeps claim it once, and
\* neither a crash nor a timeout nor a late answer brings it back to a sweep.
PostedOnce == posts =< 1

\* A job is published and confirmed only if the provider accepted its post
\* (dispatch.ts:3).
PublishedMeansPosted == status = "PUBLISHED" \/ outcome = "CONFIRMED" => posts > 0

\* A job of a native connection that failed is not on the platform and will not appear
\* there, as long as an error that names none of 429, 502, 503 and timeouts is a refusal:
\* dispatch.ts:589 takes every other error for one, so after a 500 or 504, or an adapter's
\* own text (instagram.ts:168), a job may be FAILED and public, or become so (misled).
\* Timeouts, crashes, refused claims, rejections and lookups never do that.
FailedMeansNotPosted ==
  path = "native" /\ outcome = "FAILED" /\ ~misled =>
    ~live /\ \A s \in Sweeps : flight[s] # "out"

\* Once a rejection or a cancellation has hit a job that nobody had claimed, nothing is
\* sent for it: not by a sweep that had already read it, nor by a late approval.
WithdrawnNeverSent == withdrawn => calls = 0

\* A confirmation is taken back by stampNote alone: a dispatch that times out, fails or
\* is refused after somebody confirmed the job leaves it confirmed.
ConfirmedStays ==
  [][outcome = "CONFIRMED" /\ (\A o \in Operators : oppc[o] # "stamp")
       => outcome' = "CONFIRMED"]_vars
=============================================================================
