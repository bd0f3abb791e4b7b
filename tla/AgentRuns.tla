------------------------------- MODULE AgentRuns -------------------------------
(***************************************************************************)
(* One agent run (an Ask request): services/agent-runs.ts accepts it and   *)
(* decides where it executes, agents/supervisor/execute.ts executes it,    *)
(* the BullMQ queue agent-runs and its worker carry the durable ones, and   *)
(* a person answers a clarification or confirms an image prompt.           *)
(*                                                                         *)
(* executeAgentRun may be running several times for one run: the queue's   *)
(* job and its retry, the reclaim of the request that enqueued it, the     *)
(* local fallback, a clarification.  Each such call is a process here,     *)
(* one database call at a time.  Texts, costs and the kind of agent are    *)
(* left out; budgets are the choice to stop before a step.                 *)
(***************************************************************************)
EXTENDS Integers, FiniteSets

CONSTANTS
  Calls,        \* executions of executeAgentRun that may be in progress at once
  Users,        \* requests that answer a clarification or confirm a prompt
  Kinds,        \* what requests are in play: "crm", "quick", "deep", "image"
  NumSteps,     \* steps of a plan that are within governedMaxSteps
  FaultKinds,   \* the faults in play: "throw", "die", "lose", "twice", "refuse"
  MaxAnswers,   \* bound: answers in a behaviour
  MaxFaults     \* bound: faults in a behaviour

ASSUME AgentRunsAssumption ==
  /\ Kinds \subseteq {"crm", "quick", "deep", "image"}
  /\ NumSteps \in Nat \ {0}
  /\ FaultKinds \subseteq {"throw", "die", "lose", "twice", "refuse"}
  /\ MaxAnswers \in Nat
  /\ MaxFaults \in Nat

\* enqueueAgentRunJob: attempts of a job.
JobAttempts == 2

\* The reclaim looks at the run this often: delays in createAndEnqueueAgentRun.
ReclaimChecks == 3

Ended == {"COMPLETED", "PARTIAL", "FAILED"}
Awaiting == {"AWAITING_CLARIFICATION", "AWAITING_PROMPT_CONFIRM"}

\* What the claims' WHERE clauses take.
Open == {"PENDING", "PLANNING"}

Status == {"NONE", "RUNNING"} \cup Open \cup Awaiting \cup Ended

Origins == {"sync", "local", "job", "reclaim"}

\* An agent works, or the call is between the agents of its plan.
Working == {"crm", "quickStep", "quickRun", "plan", "loop", "step", "finish"}

CallPC == {"idle", "read", "count", "quickClaim", "claim", "note", "salvage",
           "giveUp"} \cup Working

NoCall == [pc |-> "idle", origin |-> "sync", attempt |-> 1, mode |-> "deep",
           planned |-> FALSE, at |-> 1, verdict |-> "FAILED"]

VARIABLES
  status,    \* AgentRun.status
  kind,      \* what the request and its answer mode make the run
  planned,   \* AgentRun.plan is set
  steps,     \* the run has AgentStep rows
  call,      \* the calls of executeAgentRun: what they have read and where they are
  queue,     \* jobs waiting in agent-runs, by attempt
  web,       \* the request that created the run
  checks,    \* reclaim checks it has made
  user,      \* the requests of people: program counter and the status they read
  answers, faults,   \* how often each bounded thing has happened
  worked,    \* ghost: a call has done all the work of a plan
  searches   \* ghost: claims of the quick path since the run was last put to PENDING

run    == <<status, kind, planned, steps>>
people == <<user, answers>>
ghosts == <<worked, searches>>
vars   == <<run, call, queue, web, checks, people, faults, ghosts>>

Call == [pc : CallPC, origin : Origins, attempt : 1..JobAttempts,
         mode : {"crm", "quick", "deep", "image"}, planned : BOOLEAN, at : Nat,
         verdict : Ended \cup Awaiting]

TypeOK ==
  /\ status \in Status
  /\ kind \in {"crm", "quick", "deep", "image"}
  /\ planned \in BOOLEAN
  /\ steps \in BOOLEAN
  /\ call \in [Calls -> Call]
  /\ queue \in [1..JobAttempts -> Nat]
  /\ web \in {"new", "dispatch", "watch", "done"}
  /\ checks \in Nat
  /\ user \in [Users -> [pc : {"idle", "write", "dispatch"}, asked : Awaiting]]
  /\ answers \in Nat
  /\ faults \in Nat
  /\ worked \in BOOLEAN
  /\ searches \in Nat

Init ==
  /\ status = "NONE"
  /\ kind \in Kinds
  /\ planned = FALSE
  /\ steps = FALSE
  /\ call = [c \in Calls |-> NoCall]
  /\ queue = [a \in 1..JobAttempts |-> 0]
  /\ web = "new"
  /\ checks = 0
  /\ user = [u \in Users |-> [pc |-> "idle", asked |-> "AWAITING_CLARIFICATION"]]
  /\ answers = 0
  /\ faults = 0
  /\ worked = FALSE
  /\ searches = 0

Fault(f) ==
  /\ f \in FaultKinds
  /\ faults < MaxFaults
  /\ faults' = faults + 1

-----------------------------------------------------------------------------
(* executeAgentRun *)

\* A call that begins.
Fresh(o, a) == [NoCall EXCEPT !.pc = "read", !.origin = o, !.attempt = a]

Begin(c, o, a) ==
  /\ call[c].pc = "idle"
  /\ call' = [call EXCEPT ![c] = Fresh(o, a)]

Goto(c, p) == call' = [call EXCEPT ![c].pc = p]

\* executeAgentRun returns.  What the caller does then (the run's bullJobId, the
\* job's progress) may fail too; the reclaim does nothing.
Return(c) ==
  call' = [call EXCEPT ![c] =
    IF call[c].origin = "reclaim" THEN NoCall ELSE [call[c] EXCEPT !.pc = "note"]]

Note(c) ==
  /\ call[c].pc = "note"
  /\ call' = [call EXCEPT ![c] = NoCall]
  /\ UNCHANGED <<run, queue, web, checks, people, faults, ghosts>>

\* The row is read: a run that is not open any more is left alone.
ReadRun(c) ==
  /\ call[c].pc = "read"
  /\ IF status \in Open
     THEN call' = [call EXCEPT ![c] =
            [call[c] EXCEPT !.pc = "count", !.mode = kind, !.planned = planned]]
     ELSE Return(c)
  /\ UNCHANGED <<run, queue, web, checks, people, faults, ghosts>>

\* Where a call goes once it has counted the step rows.
Entry(c) ==
  IF steps THEN "none"
  ELSE CASE call[c].mode = "crm"   -> "crm"
         [] call[c].mode = "quick" -> "quickClaim"
         [] OTHER                  -> "claim"

\* agentStep.count: a run that has steps is left alone, whatever its status.
CountSteps(c) ==
  /\ call[c].pc = "count"
  /\ IF Entry(c) = "none" THEN Return(c) ELSE Goto(c, Entry(c))
  /\ UNCHANGED <<run, queue, web, checks, people, faults, ghosts>>

\* The ultra-fast CRM path: the agent runs, nothing is claimed.
CrmDesk(c) ==
  /\ call[c].pc = "crm"
  /\ call' = [call EXCEPT ![c] =
       [call[c] EXCEPT !.pc = "finish", !.verdict = "COMPLETED"]]
  /\ worked' = TRUE
  /\ UNCHANGED <<run, queue, web, checks, people, faults, searches>>

\* A claim that takes what has not ended.
MutantQuickClaimable == status \in Open \cup {"RUNNING"}

\* WHERE status IN (PENDING, PLANNING) of tryQuickResearchFastPath's claim.
QuickClaimable == status \in Open

\* Quick research claims by going to RUNNING; whoever loses tries the general path.
QuickClaim(c) ==
  /\ call[c].pc = "quickClaim"
  /\ IF QuickClaimable
     THEN /\ status' = "RUNNING"
          /\ planned' = TRUE
          /\ Goto(c, "quickStep")
          /\ searches' = searches + 1
     ELSE Goto(c, "claim") /\ UNCHANGED <<status, planned, searches>>
  /\ UNCHANGED <<kind, steps, queue, web, checks, people, faults, worked>>

QuickStep(c) ==
  /\ call[c].pc = "quickStep"
  /\ steps' = TRUE
  /\ Goto(c, "quickRun")
  /\ UNCHANGED <<status, kind, planned, queue, web, checks, people, faults, ghosts>>

\* The search returns with evidence, without, without a key, or not in time.
QuickRun(c) ==
  /\ call[c].pc = "quickRun"
  /\ \E v \in Ended :
       /\ call' = [call EXCEPT ![c] = [call[c] EXCEPT !.pc = "finish", !.verdict = v]]
       /\ worked' = (worked \/ v = "COMPLETED")
  /\ UNCHANGED <<run, queue, web, checks, people, faults, searches>>

\* A general claim by id alone.
MutantClaimable == TRUE

\* WHERE status IN (PENDING, PLANNING) of the general claim.
Claimable == status \in Open

\* The general claim writes PLANNING, which other calls may claim again.
Claim(c) ==
  /\ call[c].pc = "claim"
  /\ IF Claimable
     THEN status' = "PLANNING" /\ Goto(c, "plan")
     ELSE Return(c) /\ UNCHANGED status
  /\ UNCHANGED <<kind, planned, steps, queue, web, checks, people, faults, ghosts>>

\* Planning is over: RUNNING is written by id, with the plan if it is new.
Plan(c) ==
  /\ call[c].pc = "plan"
  /\ status' = "RUNNING"
  /\ planned' = (planned \/ ~call[c].planned)
  /\ Goto(c, "loop")
  /\ UNCHANGED <<kind, steps, queue, web, checks, people, faults, ghosts>>

\* The planner has a question instead, written by id as well.
AskUser(c) ==
  /\ call[c].pc = "plan"
  /\ ~call[c].planned
  /\ status' = "AWAITING_CLARIFICATION"
  /\ planned' = FALSE
  /\ Return(c)
  /\ UNCHANGED <<kind, steps, queue, web, checks, people, faults, ghosts>>

\* Stopping writes a status that AgentRun does not have.
MutantStopStatus(c) == {"PARTIAL", "STOPPED"}

\* Stopping reports success.
MutantStopVerdict(c) == {"PARTIAL", "FAILED", "COMPLETED"}

\* A run that stops before a step is PARTIAL or, without output or label, FAILED.
StopVerdict(c) == {"PARTIAL", "FAILED"}

\* Wall clock, spend limits, an unknown agent, input that does not parse.
StopBefore(c) ==
  /\ call[c].pc = "loop"
  /\ call[c].at =< NumSteps
  /\ \E v \in StopVerdict(c) :
       call' = [call EXCEPT ![c] = [call[c] EXCEPT !.pc = "finish", !.verdict = v]]
  /\ UNCHANGED <<run, queue, web, checks, people, faults, ghosts>>

\* What is left of the plan is optional enrichment and there is no time for it: it
\* gets SKIPPED rows and the run is complete.
SkipOptional(c) ==
  /\ call[c].pc = "loop"
  /\ call[c].at \in 2..NumSteps
  /\ steps' = TRUE
  /\ worked' = TRUE
  /\ call' = [call EXCEPT ![c] =
       [call[c] EXCEPT !.pc = "finish", !.verdict = "COMPLETED"]]
  /\ UNCHANGED <<status, kind, planned, queue, web, checks, people, faults, searches>>

\* The step's row is written before its agent runs.
StartStep(c) ==
  /\ call[c].pc = "loop"
  /\ call[c].at =< NumSteps
  /\ steps' = TRUE
  /\ Goto(c, "step")
  /\ UNCHANGED <<status, kind, planned, queue, web, checks, people, faults, ghosts>>

StepDone(c) ==
  /\ call[c].pc = "step"
  /\ call[c].mode # "image" \/ call[c].planned
  /\ call' = [call EXCEPT ![c] =
       [call[c] EXCEPT !.pc = "loop", !.at = call[c].at + 1]]
  /\ UNCHANGED <<run, queue, web, checks, people, faults, ghosts>>

\* The image analysis proposes a prompt for the person to confirm.
StepProposes(c) ==
  /\ call[c].pc = "step"
  /\ call[c].mode = "image" /\ ~call[c].planned
  /\ call' = [call EXCEPT ![c] = [call[c] EXCEPT
       !.pc = "finish", !.verdict = "AWAITING_PROMPT_CONFIRM"]]
  /\ UNCHANGED <<run, queue, web, checks, people, faults, ghosts>>

\* The agent throws or runs out of time, which the loop catches; an empty proposal
\* and a first step without output are FAILED.
StepFails(c) ==
  /\ call[c].pc = "step"
  /\ \E v \in {"PARTIAL", "FAILED"} :
       call' = [call EXCEPT ![c] = [call[c] EXCEPT !.pc = "finish", !.verdict = v]]
  /\ UNCHANGED <<run, queue, web, checks, people, faults, ghosts>>

\* The plan is done, or cut at the maximum, or its research has only sources.
LoopDone(c) ==
  /\ call[c].pc = "loop"
  /\ call[c].at > NumSteps
  /\ worked' = TRUE
  /\ \E v \in {"COMPLETED", "PARTIAL"} :
       call' = [call EXCEPT ![c] = [call[c] EXCEPT !.pc = "finish", !.verdict = v]]
  /\ UNCHANGED <<run, queue, web, checks, people, faults, searches>>

\* finishRun updates by id.
FinishRun(c) ==
  /\ call[c].pc = "finish"
  /\ status' = call[c].verdict
  /\ Return(c)
  /\ UNCHANGED <<kind, planned, steps, queue, web, checks, people, faults, ghosts>>

-----------------------------------------------------------------------------
(* What the callers do with an error *)

\* An error leaves executeAgentRun (or what follows it): the in-request callers
\* execute again and then salvage, the local fallback gives up, the job is retried
\* until its attempts are used, the reclaim logs it.  What makes the second attempt
\* fail is the same fault.
Throw(c) ==
  /\ Fault("throw") \/ (call[c].attempt = JobAttempts /\ UNCHANGED faults)
  /\ call[c].pc \notin {"idle", "salvage", "giveUp"}
  /\ LET o == call[c].origin
         again == call[c].attempt < JobAttempts IN
       /\ call' = [call EXCEPT ![c] =
            CASE o = "sync" /\ again -> Fresh("sync", 2)
              [] o = "sync" /\ ~again -> [call[c] EXCEPT !.pc = "salvage"]
              [] o = "local" -> [call[c] EXCEPT !.pc = "giveUp"]
              [] OTHER -> NoCall]
       /\ queue' = IF o = "job" /\ again
            THEN [queue EXCEPT ![call[c].attempt + 1] = queue[call[c].attempt + 1] + 1]
            ELSE queue
  /\ UNCHANGED <<run, web, checks, people, ghosts>>

\* WHERE status IN (PENDING, PLANNING, RUNNING) of the salvage.
Salvageable == status \in Open \cup {"RUNNING"}

Salvage(c) ==
  /\ call[c].pc = "salvage"
  /\ status' = IF Salvageable THEN "PARTIAL" ELSE status
  /\ call' = [call EXCEPT ![c] = NoCall]
  /\ UNCHANGED <<kind, planned, steps, queue, web, checks, people, faults, ghosts>>

\* runLocal's catch writes FAILED by id.
GiveUp(c) ==
  /\ call[c].pc = "giveUp"
  /\ status' = "FAILED"
  /\ call' = [call EXCEPT ![c] = NoCall]
  /\ UNCHANGED <<kind, planned, steps, queue, web, checks, people, faults, ghosts>>

\* The process dies.  BullMQ hands a job whose lock has run out to a worker again.
Die(c) ==
  /\ Fault("die")
  /\ call[c].pc # "idle"
  /\ call' = [call EXCEPT ![c] = NoCall]
  /\ queue' = IF call[c].origin = "job"
       THEN [queue EXCEPT ![call[c].attempt] = queue[call[c].attempt] + 1]
       ELSE queue
  /\ UNCHANGED <<run, web, checks, people, ghosts>>

-----------------------------------------------------------------------------
(* The queue *)

Enqueue == queue' = [queue EXCEPT ![1] = queue[1] + 1]

\* processAgentRunJob
TakeJob(c, a) ==
  /\ queue[a] > 0
  /\ queue' = [queue EXCEPT ![a] = queue[a] - 1]
  /\ Begin(c, "job", a)
  /\ UNCHANGED <<run, web, checks, people, faults, ghosts>>

\* The worker that was alive listens no more: the job stays where nobody looks.
LoseJob(a) ==
  /\ Fault("lose")
  /\ queue[a] > 0
  /\ queue' = [queue EXCEPT ![a] = queue[a] - 1]
  /\ UNCHANGED <<run, call, web, checks, people, ghosts>>

\* A job whose lock could not be renewed in time is delivered again although its
\* worker is still at it.
Redeliver(c) ==
  /\ Fault("twice")
  /\ call[c].origin = "job"
  /\ call[c].pc # "idle"
  /\ queue' = [queue EXCEPT ![call[c].attempt] = queue[call[c].attempt] + 1]
  /\ UNCHANGED <<run, call, web, checks, people, ghosts>>

-----------------------------------------------------------------------------
(* createAndEnqueueAgentRun *)

CreateRun ==
  /\ web = "new"
  /\ status' = "PENDING"
  /\ searches' = 0
  /\ web' = "dispatch"
  /\ UNCHANGED <<kind, planned, steps, call, queue, checks, people, faults, worked>>

\* CRM, quick research and operator briefs execute in the request.
DispatchSync ==
  /\ web = "dispatch"
  /\ kind # "image"
  /\ \E c \in Calls : Begin(c, "sync", 1)
  /\ web' = "done"
  /\ UNCHANGED <<run, queue, checks, people, faults, ghosts>>

\* The heartbeat is fresh: the job goes to the worker and the request stays to
\* reclaim an orphan.
DispatchDurable ==
  /\ web = "dispatch"
  /\ kind \in {"deep", "image"}
  /\ Enqueue
  /\ web' = "watch"
  /\ UNCHANGED <<run, call, checks, people, faults, ghosts>>

\* No live worker: the request executes the run itself.
DispatchLocal ==
  /\ web = "dispatch"
  /\ kind \in {"deep", "image"}
  /\ \E c \in Calls : Begin(c, "local", 1)
  /\ web' = "done"
  /\ UNCHANGED <<run, queue, checks, people, faults, ghosts>>

\* The enqueue throws, before or after the job was stored, and the request executes
\* the run itself.
DispatchRefused ==
  /\ web = "dispatch"
  /\ kind \in {"deep", "image"}
  /\ Fault("refuse")
  /\ UNCHANGED queue \/ Enqueue
  /\ \E c \in Calls : Begin(c, "local", 1)
  /\ web' = "done"
  /\ UNCHANGED <<run, checks, people, ghosts>>

\* A reclaim that leaves what was never begun to the worker.
MutantLeftAlone == status # "PLANNING" \/ steps

\* What the reclaim does not touch.
LeftAlone == status \notin Open \/ steps

ReclaimStops ==
  /\ web = "watch"
  /\ LeftAlone
  /\ web' = "done"
  /\ UNCHANGED <<run, call, queue, checks, people, faults, ghosts>>

\* An orphan: PENDING, or PLANNING for so long that it counts as stale.
Reclaim ==
  /\ web = "watch"
  /\ ~LeftAlone
  /\ \E c \in Calls : Begin(c, "reclaim", 1)
  /\ web' = "done"
  /\ UNCHANGED <<run, queue, checks, people, faults, ghosts>>

\* PLANNING, and not stale: look again later, three times in all.
ReclaimWaits ==
  /\ web = "watch"
  /\ ~LeftAlone
  /\ status = "PLANNING"
  /\ checks' = checks + 1
  /\ web' = IF checks' = ReclaimChecks THEN "done" ELSE "watch"
  /\ UNCHANGED <<run, call, queue, people, faults, ghosts>>

\* The request's process ends before it has dispatched or reclaimed the run.
WebDies ==
  /\ Fault("die")
  /\ web \in {"dispatch", "watch"}
  /\ web' = "done"
  /\ UNCHANGED <<run, call, queue, checks, people, ghosts>>

-----------------------------------------------------------------------------
(* clarifyAndEnqueueAgentRun and confirmImagingPromptAndEnqueue *)

UserReads(u) ==
  /\ user[u].pc = "idle"
  /\ answers < MaxAnswers
  /\ answers' = answers + 1
  /\ status \in Awaiting
  /\ user' = [user EXCEPT ![u] = [pc |-> "write", asked |-> status]]
  /\ UNCHANGED <<run, call, queue, web, checks, faults, ghosts>>

\* The update by id, whatever the run says by now.  An answer may choose the format
\* and with it the kind; a confirmed prompt comes with its plan.
UserWrites(u) ==
  /\ user[u].pc = "write"
  /\ status' = "PENDING"
  /\ searches' = 0
  /\ planned' = (user[u].asked = "AWAITING_PROMPT_CONFIRM")
  /\ IF kind = "image" THEN UNCHANGED kind ELSE kind' \in Kinds \ {"image"}
  /\ user' = [user EXCEPT ![u].pc = "dispatch"]
  /\ UNCHANGED <<steps, call, queue, web, checks, answers, faults, worked>>

\* Quick research executes in the request, everything else is enqueued.
UserExecutes(u) ==
  /\ user[u].pc = "dispatch"
  /\ kind = "quick"
  /\ user[u].asked = "AWAITING_CLARIFICATION"
  /\ \E c \in Calls : Begin(c, "sync", 1)
  /\ user' = [user EXCEPT ![u].pc = "idle"]
  /\ UNCHANGED <<run, queue, web, checks, answers, faults, ghosts>>

UserEnqueues(u) ==
  /\ user[u].pc = "dispatch"
  /\ kind # "quick" \/ user[u].asked = "AWAITING_PROMPT_CONFIRM"
  /\ Enqueue
  /\ user' = [user EXCEPT ![u].pc = "idle"]
  /\ UNCHANGED <<run, call, web, checks, answers, faults, ghosts>>

\* The enqueue throws: the person sees an error, the run stays PENDING.
UserRefused(u) ==
  /\ Fault("refuse")
  /\ user[u].pc = "dispatch"
  /\ user' = [user EXCEPT ![u].pc = "idle"]
  /\ UNCHANGED <<run, call, queue, web, checks, answers, ghosts>>

-----------------------------------------------------------------------------
CallStep(c) ==
  \/ Note(c) \/ ReadRun(c) \/ CountSteps(c) \/ CrmDesk(c) \/ QuickClaim(c)
  \/ QuickStep(c) \/ QuickRun(c) \/ Claim(c) \/ Plan(c) \/ AskUser(c)
  \/ StopBefore(c) \/ SkipOptional(c) \/ StartStep(c) \/ StepDone(c)
  \/ StepProposes(c) \/ StepFails(c) \/ LoopDone(c) \/ FinishRun(c)
  \/ Salvage(c) \/ GiveUp(c)

Work == \E c \in Calls, a \in 1..JobAttempts : TakeJob(c, a)

WebStep ==
  \/ DispatchSync \/ DispatchDurable \/ DispatchLocal
  \/ ReclaimStops \/ Reclaim \/ ReclaimWaits

UserStep(u) == UserWrites(u) \/ UserExecutes(u) \/ UserEnqueues(u)

CallFault(c) == Throw(c) \/ Die(c) \/ Redeliver(c)

Next ==
  \/ CreateRun
  \/ WebStep
  \/ DispatchRefused \/ WebDies
  \/ Work
  \/ \E a \in 1..JobAttempts : LoseJob(a)
  \/ \E c \in Calls : CallStep(c) \/ CallFault(c)
  \/ \E u \in Users : UserReads(u) \/ UserStep(u) \/ UserRefused(u)

Spec == Init /\ [][Next]_vars

\* Calls go on, the worker takes jobs, the request's timers fire and a request of a
\* person that has read the run ends.  Nothing is assumed of faults and of people.
FairSpec ==
  /\ Spec
  /\ WF_vars(WebStep)
  /\ WF_vars(Work)
  /\ \A c \in Calls : WF_vars(CallStep(c))
  /\ \A u \in Users : WF_vars(UserStep(u))

-----------------------------------------------------------------------------
(* Properties *)

\* "Must not rewrite PLANNING over an active executor" (execute.ts:462): whatever
\* jobs, retries, reclaims, redeliveries and answers overlap, RUNNING never goes back
\* to PLANNING in one write.
NeverBackToPlanning ==
  [][status = "RUNNING" => status' # "PLANNING"]_vars

\* Between two writes of PENDING the calls of a run - the in-request retry, the reclaim,
\* the jobs and their redeliveries - claim it for a quick search at most once
\* (execute.ts:274).  This is about one opening of the run, not about one question: two
\* overlapping answers (agent-runs.ts:803) each write PENDING, and each may be followed
\* by a search.
OneSearchPerOpening == searches =< 1

\* What c may still do to the status by id alone: it works, the CRM path has only the
\* step count before it, and the local fallback writes FAILED after any error.
MayStillWrite(c) ==
  \/ call[c].pc \in Working \cup {"giveUp"}
  \/ call[c].pc = "count" /\ call[c].mode = "crm"
  \/ call[c].origin = "local" /\ call[c].pc # "idle"

\* The run has ended, and neither a call nor an answer is on its way to a write by id.
Settled ==
  /\ status \in Ended
  /\ \A c \in Calls : ~MayStillWrite(c)
  /\ \A u \in Users : user[u].pc # "write"

\* Once a run has settled, its verdict stays: jobs that are retried or delivered again,
\* the request's second attempt and its salvage, reclaims and answers that come later,
\* and calls that read the run while it was open but have yet to claim it, change
\* nothing and open the way to no further write.
VerdictStays == [][Settled => status' = status /\ Settled']_vars

\* A run that says COMPLETED has had all its work done by some call, although every
\* final write goes by id and may come from a call that lost every race.
CompletedMeansWorked == status = "COMPLETED" => worked

\* As long as the request that created a run watches it, a run that nobody has begun
\* ends or asks its person, although its job may be lost or delivered twice.
WatchedRunEnds ==
  (web = "watch" /\ status = "PENDING" /\ ~steps) ~> (status \in Ended \cup Awaiting)
=============================================================================
