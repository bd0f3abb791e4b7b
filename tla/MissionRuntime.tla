--------------------------- MODULE MissionRuntime ---------------------------
(***************************************************************************)
(* One mission of the durable mission runtime: its tasks, their            *)
(* dependencies, approvals and external outcomes                           *)
(* (src/services/mission-state.ts, src/services/mission-runtime.ts).       *)
(*                                                                         *)
(* Every operation is a database transaction that reads rows, decides, and *)
(* updates them by id; the claim alone updates under a condition.  At the  *)
(* database's default isolation level a transaction sees what others       *)
(* commit between its statements, so an operation is two steps: Read takes *)
(* what its first statements saw, and the second one commits what it wrote.*)
(***************************************************************************)
EXTENDS Integers, FiniteSets

CONSTANTS
  Tasks,        \* tasks of the mission: numbers, in the order of their priority
  DependsOn,    \* MissionTaskDependency: the tasks that a task waits for
  MaxAttempts,  \* MissionTask.maxAttempts
  Callers,      \* transactions that may run at once
  Ops,          \* operations that the callers use
  Reported,     \* what workers report about their external work
  Delivered     \* "once": one worker reports on a task at a time; "twice": the
                \* queue delivered its job to two workers

Operations == {"claim", "outcome", "complete", "retry", "fail", "wait", "approve",
               "reject", "resume", "recover", "cancel", "stop"}

ExternalOutcome == {"NOT_STARTED", "DISPATCHING", "CONFIRMED", "FAILED",
                    "RECONCILIATION_REQUIRED"}

ASSUME MissionAssumption ==
  /\ Tasks \subseteq Nat /\ IsFiniteSet(Tasks)
  /\ DependsOn \in [Tasks -> SUBSET Tasks]
  /\ MaxAttempts \in Nat \ {0}
  /\ Ops \subseteq Operations
  /\ Reported \subseteq ExternalOutcome
  /\ Delivered \in {"once", "twice"}

\* The statuses the operations store.
TaskStatus == {"PENDING", "READY", "RUNNING", "WAITING_APPROVAL", "BLOCKED",
               "COMPLETED", "FAILED", "CANCELLED"}

MissionStatus == {"QUEUED", "RUNNING", "WAITING_APPROVAL", "BLOCKED", "RETRYING",
                  "COMPLETED", "FAILED", "CANCELLED"}

\* approvedAt and rejectedAt.
Approval == {"NONE", "APPROVED", "REJECTED"}

VARIABLES
  status, attempt, outcome, approval,  \* MissionTask rows, by task
  mission,      \* AgentMission.status
  overdue,      \* AgentMission.deadlineAt has passed
  pc,           \* the callers: between calls, or in a transaction
  call,         \* the operation and its arguments
  snap,         \* what the transaction's first reads returned
  claims,       \* ghost: how often an attempt of a task was handed to a worker
  finished,     \* ghost: the tasks that have been completed at some time
  released      \* ghost: the tasks somebody let repeat their external work, see GiveBack

rows == <<status, attempt, outcome, approval>>
tx   == <<pc, call, snap>>
ghosts == <<claims, finished, released>>
vars == <<rows, mission, overdue, tx, ghosts>>

\* A transaction's view of the mission.
Current == [status |-> status, attempt |-> attempt, outcome |-> outcome,
            approval |-> approval, mission |-> mission, overdue |-> overdue]

Views == [status: [Tasks -> TaskStatus], attempt: [Tasks -> 0..MaxAttempts],
          outcome: [Tasks -> ExternalOutcome], approval: [Tasks -> Approval],
          mission: MissionStatus, overdue: BOOLEAN]

CallType == [op: Operations, task: Tasks, attempt: 1..MaxAttempts]

TypeOK ==
  /\ status \in [Tasks -> TaskStatus]
  /\ attempt \in [Tasks -> 0..MaxAttempts]
  /\ outcome \in [Tasks -> ExternalOutcome]
  /\ approval \in [Tasks -> Approval]
  /\ mission \in MissionStatus
  /\ overdue \in BOOLEAN
  /\ pc \in [Callers -> {"idle", "read"}]
  /\ DOMAIN call = Callers /\ DOMAIN snap = Callers
  /\ \A w \in Callers : pc[w] = "read" => call[w] \in CallType /\ snap[w] \in Views
  /\ claims \in [Tasks -> [1..MaxAttempts -> Nat]]
  /\ finished \subseteq Tasks
  /\ released \subseteq Tasks

NoCall == [op |-> "none"]

\* createMission, with the tasks that depend on nothing marked ready.
Init ==
  /\ status = [t \in Tasks |-> IF DependsOn[t] = {} THEN "READY" ELSE "PENDING"]
  /\ attempt = [t \in Tasks |-> 0]
  /\ outcome = [t \in Tasks |-> "NOT_STARTED"]
  /\ approval = [t \in Tasks |-> "NONE"]
  /\ mission = "QUEUED"
  /\ overdue = FALSE
  /\ pc = [w \in Callers |-> "idle"]
  /\ call = [w \in Callers |-> NoCall]
  /\ snap = [w \in Callers |-> NoCall]
  /\ claims = [t \in Tasks |-> [n \in 1..MaxAttempts |-> 0]]
  /\ finished = {}
  /\ released = {}

-----------------------------------------------------------------------------
(* mission-state.ts *)

\* MISSION_TRANSITIONS, restricted to the statuses in use.
MissionTransitions(from) ==
  CASE from = "QUEUED"           -> {"RUNNING", "CANCELLED"}
    [] from = "RUNNING"          -> {"WAITING_APPROVAL", "BLOCKED", "RETRYING",
                                     "COMPLETED", "FAILED", "CANCELLED"}
    [] from = "WAITING_APPROVAL" -> {"RUNNING", "BLOCKED", "FAILED", "CANCELLED"}
    [] from = "BLOCKED"          -> {"RUNNING", "RETRYING", "FAILED", "CANCELLED"}
    [] from = "RETRYING"         -> {"RUNNING", "BLOCKED", "FAILED", "CANCELLED"}
    [] from = "FAILED"           -> {"QUEUED", "RETRYING"}
    [] from \in {"COMPLETED", "CANCELLED"} -> {}

\* A table in which a cancelled mission can still fail.
MutantMissionAllowed(from, to) ==
  from = to \/ to \in MissionTransitions(from) \/ (from = "CANCELLED" /\ to = "FAILED")

\* assertMissionTransition does not throw.
MissionAllowed(from, to) == from = to \/ to \in MissionTransitions(from)

\* TASK_TRANSITIONS, restricted to the statuses in use.
TaskTransitions(from) ==
  CASE from = "PENDING" -> {"READY", "CANCELLED"}
    [] from = "READY"   -> {"RUNNING", "WAITING_APPROVAL", "BLOCKED", "CANCELLED"}
    [] from = "RUNNING" -> {"WAITING_APPROVAL", "BLOCKED", "RETRYING", "READY",
                            "COMPLETED", "FAILED", "CANCELLED"}
    [] from = "WAITING_APPROVAL" -> {"READY", "RUNNING", "BLOCKED", "FAILED", "CANCELLED"}
    [] from = "BLOCKED" -> {"READY", "RETRYING", "FAILED", "CANCELLED"}
    [] from = "FAILED"  -> {"READY", "RETRYING"}
    [] from \in {"COMPLETED", "CANCELLED"} -> {}

\* assertTaskTransition does not throw.
TaskAllowed(from, to) == from = to \/ to \in TaskTransitions(from)

-----------------------------------------------------------------------------
(* Helpers of the operations *)

\* Writes a status to every task of S.
Put(st, S, v) == [t \in Tasks |-> IF t \in S THEN v ELSE st[t]]

\* A markReadyTasks that waits for one parent only.
MutantUnblocked(st) ==
  {t \in Tasks : st[t] = "PENDING" /\ \E d \in DependsOn[t] : st[d] = "COMPLETED"}

\* Pending tasks whose dependencies are all completed.
Unblocked(st) ==
  {t \in Tasks : st[t] = "PENDING" /\ \A d \in DependsOn[t] : st[d] = "COMPLETED"}

\* markReadyTasks.
MarkReady(st) == Put(st, Unblocked(st), "READY")

Done == {"COMPLETED", "CANCELLED"}

\* A check for completion that takes a failed task for a finished one.
MutantVerdict(st) ==
  IF \A t \in Tasks : st[t] \in Done \cup {"FAILED"} THEN "COMPLETED" ELSE "NONE"

\* maybeCompleteMission: how the mission ends once the tasks are as in st, if it does.
Verdict(st) ==
  IF \E t \in Tasks : st[t] = "FAILED"
  THEN IF \A t \in Tasks : st[t] \in Done \cup {"FAILED"} THEN "FAILED" ELSE "NONE"
  ELSE IF \A t \in Tasks : st[t] \in Done THEN "COMPLETED" ELSE "NONE"

\* A later read of the transaction returns what its first reads did, if nobody has
\* changed the rows S it has locked since, or what is committed now.
Later(w, S) ==
  {Current} \cup
    {v \in {snap[w]} : \A t \in S : /\ v.status[t] = status[t]
                                    /\ v.attempt[t] = attempt[t]
                                    /\ v.outcome[t] = outcome[t]
                                    /\ v.approval[t] = approval[t]}

\* Missions whose tasks can be claimed.
Open == {"QUEUED", "RUNNING", "RETRYING"}

\* findFirst: the first ready task in the order of priority.
Candidate(st) ==
  CHOOSE t \in Tasks : st[t] = "READY" /\ \A u \in Tasks : st[u] = "READY" => t =< u

HasReady(st) == \E t \in Tasks : st[t] = "READY"

\* External work that may have been done, or was.
Engaged == {"DISPATCHING", "CONFIRMED", "RECONCILIATION_REQUIRED"}

\* The task waits to be handed out, for the first time or again.
Waiting(t) == status[t] \in {"PENDING", "READY"}

Calling(w, name) == pc[w] = "read" /\ call[w].op = name

\* The transaction of w ends.
End(w) ==
  /\ pc' = [pc EXCEPT ![w] = "idle"]
  /\ call' = [call EXCEPT ![w] = NoCall]
  /\ snap' = [snap EXCEPT ![w] = NoCall]

-----------------------------------------------------------------------------
(* The operations *)

\* A worker completes, fails or suspends a task under the attempt it claimed, perhaps
\* long ago or for the second time; approvals, recovery, cancellation and the budget
\* stop come from people and sweeps at any time.  A call that would be refused on
\* its first reads leaves nothing behind and is not made.
Accepted(o, t, n) ==
  CASE o = "claim"    -> /\ mission \in Open
                         /\ overdue => MissionAllowed(mission, "FAILED")
                         /\ t = CHOOSE u \in Tasks : TRUE
                         /\ n = 1
    [] o = "outcome"  -> n =< attempt[t]
    [] o = "complete" -> n = attempt[t] /\ status[t] # "COMPLETED"
                           /\ TaskAllowed(status[t], "COMPLETED")
    [] o = "retry"    -> n = attempt[t] /\ n < MaxAttempts
                           /\ TaskAllowed(status[t], "RETRYING")
    [] o = "fail"     -> n = attempt[t] /\ TaskAllowed(status[t], "FAILED")
    [] o = "wait"     -> n = attempt[t] /\ TaskAllowed(status[t], "WAITING_APPROVAL")
    [] o \in {"approve", "reject"} -> n = 1 /\ status[t] = "WAITING_APPROVAL"
    [] o = "resume"   -> /\ n = 1 /\ status[t] = "WAITING_APPROVAL"
                         /\ approval[t] = "APPROVED"
    [] o = "recover"  -> n = 1 /\ status[t] = "RUNNING"
    [] o = "cancel"   -> n = 1 /\ MissionAllowed(mission, "CANCELLED")
                           /\ mission # "CANCELLED"
                           /\ t = CHOOSE u \in Tasks : TRUE
    [] o = "stop"     -> n = 1 /\ MissionAllowed(mission, "FAILED")
                           /\ mission # "FAILED"
                           /\ t = CHOOSE u \in Tasks : TRUE

\* What the worker of a task calls.
Reports == {"outcome", "complete", "retry", "fail", "wait"}

\* The first statements of a transaction.
Read(w) ==
  /\ pc[w] = "idle"
  /\ \E o \in Ops, t \in Tasks, n \in 1..MaxAttempts :
       /\ Accepted(o, t, n)
       /\ o \in Reports /\ Delivered = "once" =>
            \A v \in Callers : ~(pc[v] = "read" /\ call[v].op \in Reports /\ call[v].task = t)
       /\ call' = [call EXCEPT ![w] = [op |-> o, task |-> t, attempt |-> n]]
  /\ pc' = [pc EXCEPT ![w] = "read"]
  /\ snap' = [snap EXCEPT ![w] = Current]
  /\ UNCHANGED <<rows, mission, overdue, ghosts>>

\* The transaction fails, or an assertion throws, and it rolls back; a claim that finds
\* nothing to claim ends here too, and so does one that finds a ready task without
\* attempts left (READY -> FAILED is no transition of the table).
RollBack(w) ==
  /\ pc[w] = "read"
  /\ End(w)
  /\ UNCHANGED <<rows, mission, overdue, ghosts>>

\* claimNextTask after the deadline.
ClaimOverdue(w) ==
  /\ Calling(w, "claim")
  /\ snap[w].overdue
  /\ mission' = "FAILED"
  /\ End(w)
  /\ UNCHANGED <<rows, overdue, ghosts>>

\* A claim that does not check the status again when it updates the row.
MutantStillReady(t, ready) == TRUE

\* The compare-and-swap finds the task ready, or made it ready itself; it does not
\* compare the attempt.
StillReady(t, ready) == status[t] = "READY" \/ t \in ready

\* Lets one attempt too many through.
MutantWithinAttempts(n) == n - 1 =< MaxAttempts

\* The attempt about to start is one of maxAttempts.
WithinAttempts(n) == n =< MaxAttempts

\* claimNextTask: markReadyTasks by id, the first ready task, and the compare-and-swap,
\* which stores the attempt that was read, plus one.
Claim(w) ==
  /\ Calling(w, "claim")
  /\ ~snap[w].overdue
  /\ LET ready == Unblocked(snap[w].status)
         marked == Put(status, ready, "READY")
     IN \E v \in Later(w, ready) :
          LET st == Put(v.status, ready, "READY")
              t  == Candidate(st)
              n  == v.attempt[t] + 1
          IN /\ HasReady(st)
             /\ WithinAttempts(n)
             /\ IF StillReady(t, ready)
                THEN /\ status' = [marked EXCEPT ![t] = "RUNNING"]
                     /\ attempt' = [attempt EXCEPT ![t] = n]
                     /\ mission' = IF snap[w].mission = "RUNNING" THEN mission ELSE "RUNNING"
                     /\ claims' = [claims EXCEPT ![t] = [claims[t] EXCEPT ![n] = claims[t][n] + 1]]
                     /\ released' = IF outcome[t] = "RECONCILIATION_REQUIRED"
                                    THEN released ELSE released \ {t}
                ELSE status' = marked /\ UNCHANGED <<attempt, mission, claims, released>>
  /\ End(w)
  /\ UNCHANGED <<outcome, approval, overdue, finished>>

\* setTaskExternalOutcome: whoever holds the task, or held it, reports.  A worker that a
\* recovery took for dead reports on a task that waits already; one that reports its own
\* work uncertain leaves the rest to recovery.
SetOutcome(w) ==
  /\ Calling(w, "outcome")
  /\ LET t == call[w].task IN
       \E o \in Reported :
         /\ outcome' = [outcome EXCEPT ![t] = o]
         /\ released' = IF \/ o \in Engaged /\ Waiting(t)
                           \/ o = "RECONCILIATION_REQUIRED" /\ status[t] = "RUNNING"
                        THEN released \cup {t} ELSE released \ {t}
  /\ End(w)
  /\ UNCHANGED <<status, attempt, approval, mission, overdue, claims, finished>>

\* The mission ends with a verdict, if there is one and its transition is allowed;
\* otherwise the assertion throws and only RollBack is possible.
Conclude(m, verdict) ==
  IF verdict = "NONE"
  THEN UNCHANGED mission
  ELSE MissionAllowed(m, verdict) /\ mission' = verdict

\* A completeTask that looks at the tasks before it stores its own.
MutantCompleted(st, t) == st

\* The tasks once t is completed.
Completed(st, t) == Put(st, {t}, "COMPLETED")

\* completeTask.
Complete(w) ==
  /\ Calling(w, "complete")
  /\ LET t == call[w].task IN
       \E v \in Later(w, {t}) :
         LET st == Completed(v.status, t) IN
           /\ status' = Put(Put(status, {t}, "COMPLETED"), Unblocked(st), "READY")
           /\ finished' = finished \cup {t}
           /\ Conclude(v.mission, Verdict(MarkReady(st)))
  /\ End(w)
  /\ UNCHANGED <<attempt, outcome, approval, overdue, claims, released>>

\* A worker or a person makes a task ready again, whatever its external work came to.
GiveBack(t) ==
  /\ status' = Put(status, {t}, "READY")
  /\ released' = IF outcome[t] \in Engaged THEN released \cup {t} ELSE released

\* failTask, an error worth retrying: RETRYING is passed through.
Retry(w) ==
  /\ Calling(w, "retry")
  /\ LET t == call[w].task IN
       /\ GiveBack(t)
       /\ \E v \in Later(w, {t}) :
            mission' = IF v.mission = "RUNNING" THEN "RETRYING" ELSE mission
  /\ End(w)
  /\ UNCHANGED <<attempt, outcome, approval, overdue, claims, finished>>

\* failTask, for good.
Fail(w) ==
  /\ Calling(w, "fail")
  /\ LET t == call[w].task IN
       /\ status' = Put(status, {t}, "FAILED")
       /\ \E v \in Later(w, {t}) : Conclude(v.mission, Verdict(Put(v.status, {t}, "FAILED")))
  /\ End(w)
  /\ UNCHANGED <<attempt, outcome, approval, overdue, ghosts>>

\* waitForApproval.
Wait(w) ==
  /\ Calling(w, "wait")
  /\ LET t == call[w].task IN
       /\ status' = Put(status, {t}, "WAITING_APPROVAL")
       /\ approval' = Put(approval, {t}, "NONE")
       /\ \E v \in Later(w, {t}) : Conclude(v.mission, "WAITING_APPROVAL")
  /\ End(w)
  /\ UNCHANGED <<attempt, outcome, overdue, ghosts>>

\* approveMissionTask, by id.
Approve(w) ==
  /\ Calling(w, "approve")
  /\ approval' = Put(approval, {call[w].task}, "APPROVED")
  /\ End(w)
  /\ UNCHANGED <<status, attempt, outcome, mission, overdue, ghosts>>

\* rejectMissionTask: the task and the mission fail.
Reject(w) ==
  /\ Calling(w, "reject")
  /\ LET t == call[w].task IN
       /\ status' = Put(status, {t}, "FAILED")
       /\ approval' = Put(approval, {t}, "REJECTED")
       /\ \E v \in Later(w, {t}) : Conclude(v.mission, "FAILED")
  /\ End(w)
  /\ UNCHANGED <<attempt, outcome, overdue, ghosts>>

\* resumeAfterApproval.
Resume(w) ==
  /\ Calling(w, "resume")
  /\ LET t == call[w].task IN
       /\ GiveBack(t)
       /\ \E v \in Later(w, {t}) : Conclude(v.mission, "RUNNING")
  /\ End(w)
  /\ UNCHANGED <<attempt, outcome, approval, overdue, claims, finished>>

\* A recovery that retries a task whose external work is confirmed.
MutantRecovered(o) ==
  CASE o = "DISPATCHING" -> "BLOCKED" [] OTHER -> "READY"

\* What recovery makes of a running task.
Recovered(o) ==
  CASE o = "CONFIRMED" -> "COMPLETED" [] o = "DISPATCHING" -> "BLOCKED" [] OTHER -> "READY"

\* resumeAfterWorkerCrash: every task that was running, whether or not its worker died.
Recover(w) ==
  /\ Calling(w, "recover")
  /\ LET stuck == {t \in Tasks : snap[w].status[t] = "RUNNING"}
         with(o) == {t \in stuck : snap[w].outcome[t] = o}
         recovered(st) ==
           [t \in Tasks |-> IF t \in stuck THEN Recovered(snap[w].outcome[t]) ELSE st[t]]
     IN /\ status' = recovered(status)
        /\ finished' = finished \cup with("CONFIRMED")
        /\ outcome' = Put(outcome, with("DISPATCHING"), "RECONCILIATION_REQUIRED")
        /\ \E v \in Later(w, stuck) :
             IF with("CONFIRMED") # {} /\ Verdict(recovered(v.status)) # "NONE"
             THEN Conclude(v.mission, Verdict(recovered(v.status)))
             ELSE mission' = IF with("DISPATCHING") # {} /\ snap[w].mission = "RUNNING"
                             THEN "BLOCKED"
                             ELSE IF with("NOT_STARTED") # {} /\ v.mission = "RUNNING"
                             THEN "RETRYING" ELSE mission
  /\ End(w)
  /\ UNCHANGED <<attempt, approval, overdue, claims, released>>

\* cancelMission: every task that is not over, and the mission.
Cancel(w) ==
  /\ Calling(w, "cancel")
  /\ status' = Put(status, {t \in Tasks : status[t] \notin Done \cup {"FAILED"}}, "CANCELLED")
  /\ mission' = "CANCELLED"
  /\ End(w)
  /\ UNCHANGED <<attempt, outcome, approval, overdue, ghosts>>

\* stopMissionOnBudget: the mission, not its tasks.
Stop(w) ==
  /\ Calling(w, "stop")
  /\ mission' = "FAILED"
  /\ End(w)
  /\ UNCHANGED <<rows, overdue, ghosts>>

\* deadlineAt passes.
Deadline ==
  /\ ~overdue
  /\ overdue' = TRUE
  /\ UNCHANGED <<rows, mission, tx, ghosts>>

-----------------------------------------------------------------------------
Operation(w) ==
  \/ ClaimOverdue(w) \/ Claim(w) \/ SetOutcome(w) \/ Complete(w) \/ Retry(w) \/ Fail(w)
  \/ Wait(w) \/ Approve(w) \/ Reject(w) \/ Resume(w) \/ Recover(w) \/ Cancel(w) \/ Stop(w)

Next ==
  \/ \E w \in Callers : Read(w) \/ Operation(w) \/ RollBack(w)
  \/ Deadline

Spec == Init /\ [][Next]_vars

-----------------------------------------------------------------------------
(* Properties *)

\* Nothing of a task happens before every task that it depends on has been completed,
\* however stale what the transactions read is.
DependenciesFirst ==
  \A t \in Tasks : status[t] \notin {"PENDING", "CANCELLED"} => DependsOn[t] \subseteq finished

\* A completed mission has no work left: no task is open or failed.
CompletedMeansDone == mission = "COMPLETED" => \A t \in Tasks : status[t] \in Done

\* A mission whose tasks are all completed has ended, once no transaction is open.
DoneMeansEnded ==
  (\A t \in Tasks : status[t] = "COMPLETED") /\ (\A w \in Callers : pc[w] = "idle")
    => mission \in {"COMPLETED", "FAILED", "CANCELLED"}

\* One attempt of a task is handed to one worker (mission-runtime.ts:253).
ClaimedOnce == \A t \in Tasks, n \in 1..MaxAttempts : claims[t][n] =< 1

\* A mission that was completed or cancelled stays so.
EndIsFinal ==
  [][(mission \in {"COMPLETED", "CANCELLED"}) => mission' = mission]_vars

\* Crashes and recoveries, in any number and between any other operations, do not repeat
\* external work.  A task whose work is under way or confirmed gets another attempt only
\* if, since the last one began, a worker's retry or a person's resume made it ready in
\* that state (mission-runtime.ts:560 and :737 do not look), or its worker reported after
\* a recovery had taken it for dead.  If the work is uncertain, one of these must have
\* happened earlier, or the worker reported it uncertain itself; from then on recovery
\* does hand it out (mission-runtime.ts:877).  (Where transactions do not overlap.)
ReplayedOnlyOnPurpose ==
  [][\A t \in Tasks :
       attempt'[t] > attempt[t] /\ outcome[t] \in Engaged => t \in released]_vars

-----------------------------------------------------------------------------
(* What the mission promises *)

Phase == CASE mission = "COMPLETED" -> "completed"
           [] mission = "CANCELLED" -> "cancelled"
           [] mission = "FAILED"    -> "failed"
           [] OTHER                 -> "open"

Work == INSTANCE Workflow WITH
  phase  <- Phase,
  handed <- claims,
  done   <- {t \in Tasks : status[t] = "COMPLETED"}

\* The mission hands its tasks out in the order of their dependencies and only while it
\* is open, attempt by attempt, each once; the completion that leaves nothing to do, and
\* no other, completes it (maybeCompleteMission); COMPLETED, FAILED and CANCELLED are
\* final.  (In an instance where transactions do not overlap.)
MissionIsWorkflow == Work!WorkflowSpec
=============================================================================
