------------------------ MODULE MissionRuntimeProofs ------------------------
(***************************************************************************)
(* For every set of tasks, dependency relation, number of attempts and     *)
(* number of overlapping transactions: the types hold, and nothing happens *)
(* to a task before the tasks that it depends on have been completed.      *)
(* Where transactions do not overlap, the mission is a workflow; where     *)
(* they do, an attempt goes to one worker if claims cannot race.           *)
(***************************************************************************)
EXTENDS MissionRuntime, WellFoundedInduction, TLAPS

-----------------------------------------------------------------------------
(* The helpers *)

LEMMA PutType ==
  ASSUME NEW st \in [Tasks -> TaskStatus], NEW S, NEW v \in TaskStatus
  PROVE  Put(st, S, v) \in [Tasks -> TaskStatus]
BY DEF Put

LEMMA CurrentType == TypeOK => Current \in Views
BY DEF TypeOK, Current, Views

LEMMA LaterType ==
  ASSUME TypeOK, NEW w \in Callers, pc[w] = "read", NEW S, NEW v \in Later(w, S)
  PROVE  v \in Views
BY CurrentType DEF Later, TypeOK

\* The first ready task is a task and is ready, whenever one is.
LEMMA CandidateReady ==
  ASSUME NEW st, HasReady(st)
  PROVE  Candidate(st) \in Tasks /\ st[Candidate(st)] = "READY"
<1> DEFINE ready == {t \in Tasks : st[t] = "READY"}
<1>1. ready \subseteq Nat /\ ready # {}
  BY MissionAssumption DEF HasReady
<1>2. IsWellFoundedOn(OpToRel(<, Nat), Nat)
  BY NatLessThanWellFounded
<1>3. PICK t \in ready : \A u \in ready : ~(<<u, t>> \in OpToRel(<, Nat))
  <2> HIDE DEF ready
  <2> QED
    BY <1>1, <1>2, WFMin
<1>4. \A u \in ready : t =< u
  <2> TAKE u \in ready
  <2>1. u \in Nat /\ t \in Nat
    BY <1>1
  <2>2. ~(u < t)
    BY <1>3, <2>1 DEF OpToRel
  <2> QED
    BY <2>1, <2>2
<1>5. t \in Tasks /\ st[t] = "READY" /\ \A u \in Tasks : st[u] = "READY" => t =< u
  BY <1>4
<1> QED
  BY <1>5 DEF Candidate

-----------------------------------------------------------------------------
(* Type correctness *)

LEMMA TypeInit == Init => TypeOK
<1> SUFFICES ASSUME Init PROVE TypeOK
  OBVIOUS
<1>1. 0 \in 0..MaxAttempts
  BY MissionAssumption
<1>2. claims \in [Tasks -> [1..MaxAttempts -> Nat]]
  BY DEF Init
<1> QED
  BY <1>1, <1>2 DEF Init, TypeOK, TaskStatus, MissionStatus, ExternalOutcome, Approval

\* The variables of the callers after the end of a transaction.
TxOK ==
  /\ pc \in [Callers -> {"idle", "read"}]
  /\ DOMAIN call = Callers /\ DOMAIN snap = Callers
  /\ \A w \in Callers : pc[w] = "read" => call[w] \in CallType /\ snap[w] \in Views

LEMMA EndType ==
  ASSUME TypeOK, NEW w \in Callers, End(w)
  PROVE  TxOK'
BY DEF TypeOK, End, TxOK

\* A verdict that is concluded is a mission status.
LEMMA ConcludeType ==
  ASSUME TypeOK, NEW m, NEW verdict \in MissionStatus \cup {"NONE"}, Conclude(m, verdict)
  PROVE  mission' \in MissionStatus
BY DEF TypeOK, Conclude

LEMMA VerdictType == \A st : Verdict(st) \in MissionStatus \cup {"NONE"}
BY DEF Verdict, MissionStatus

LEMMA TypeStep == TypeOK /\ [Next]_vars => TypeOK'
<1> SUFFICES ASSUME TypeOK, [Next]_vars PROVE TypeOK'
  OBVIOUS
<1> USE DEF rows, tx, ghosts
<1>1. CASE UNCHANGED vars
  BY <1>1 DEF vars, TypeOK
<1>2. ASSUME NEW w \in Callers, Read(w) PROVE TypeOK'
  <2>1. PICK o \in Ops, t \in Tasks, n \in 1..MaxAttempts :
          call' = [call EXCEPT ![w] = [op |-> o, task |-> t, attempt |-> n]]
    BY <1>2 DEF Read
  <2>2. [op |-> o, task |-> t, attempt |-> n] \in CallType
    BY MissionAssumption DEF CallType
  <2>3. TxOK'
    BY <1>2, <2>1, <2>2, CurrentType DEF Read, TypeOK, TxOK
  <2> QED
    BY <1>2, <2>3 DEF Read, TypeOK, TxOK
<1>3. ASSUME NEW w \in Callers, RollBack(w) PROVE TypeOK'
  BY <1>3, EndType DEF RollBack, TypeOK, TxOK
<1>4. ASSUME NEW w \in Callers, ClaimOverdue(w) PROVE TypeOK'
  BY <1>4, EndType DEF ClaimOverdue, TypeOK, TxOK, MissionStatus
<1>5. ASSUME NEW w \in Callers, Claim(w) PROVE TypeOK'
  <2> DEFINE ready == Unblocked(snap[w].status)
             marked == Put(status, ready, "READY")
  <2>1. TxOK'
    BY <1>5, EndType DEF Claim
  <2>2. pc[w] = "read" /\ marked \in [Tasks -> TaskStatus]
    BY <1>5, PutType DEF Claim, Calling, TypeOK, TaskStatus
  <2>3. PICK v \in Later(w, ready) :
          LET st == Put(v.status, ready, "READY")
              t  == Candidate(st)
              n  == v.attempt[t] + 1
          IN /\ HasReady(st)
             /\ WithinAttempts(n)
             /\ IF StillReady(t, ready)
                THEN /\ status' = [marked EXCEPT ![t] = "RUNNING"]
                     /\ attempt' = [attempt EXCEPT ![t] = n]
                     /\ mission' = IF snap[w].mission = "RUNNING" THEN mission ELSE "RUNNING"
                     /\ claims' = [claims EXCEPT ![t] = [claims[t] EXCEPT ![n] = claims[t][n] + 1]]
                ELSE status' = marked /\ UNCHANGED <<attempt, mission, claims>>
    BY <1>5 DEF Claim
  <2> DEFINE t == Candidate(Put(v.status, ready, "READY"))
             n == v.attempt[t] + 1
  <2>4. v \in Views
    BY <2>2, <2>3, LaterType
  <2>5. t \in Tasks
    BY <2>3, CandidateReady
  <2>6. n \in 1..MaxAttempts
    <3>1. v.attempt[t] \in 0..MaxAttempts
      BY <2>4, <2>5 DEF Views
    <3>2. n =< MaxAttempts
      BY <2>3 DEF WithinAttempts
    <3> HIDE DEF t
    <3> QED
      BY <3>1, <3>2, MissionAssumption
  <2> HIDE DEF ready, n, t
  <2>7. CASE StillReady(t, ready)
    <3>1. status' = [marked EXCEPT ![t] = "RUNNING"]
          /\ attempt' = [attempt EXCEPT ![t] = n]
          /\ mission' = (IF snap[w].mission = "RUNNING" THEN mission ELSE "RUNNING")
          /\ claims' = [claims EXCEPT ![t] = [claims[t] EXCEPT ![n] = claims[t][n] + 1]]
      BY <2>3, <2>7 DEF t, n
    <3>2. status' \in [Tasks -> TaskStatus]
      <4> HIDE DEF marked
      <4> QED
        BY <3>1, <2>2 DEF TaskStatus
    <3>3. attempt' \in [Tasks -> 0..MaxAttempts]
      <4>1. n \in 0..MaxAttempts
        BY <2>6, MissionAssumption
      <4> QED
        BY <3>1, <4>1 DEF TypeOK
    <3>4. mission' \in MissionStatus
      BY <3>1 DEF TypeOK, MissionStatus
    <3>5. [claims[t] EXCEPT ![n] = claims[t][n] + 1] \in [1..MaxAttempts -> Nat]
      <4>1. claims[t] \in [1..MaxAttempts -> Nat]
        BY <2>5 DEF TypeOK
      <4>2. \A f \in [1..MaxAttempts -> Nat], k \in 1..MaxAttempts :
              [f EXCEPT ![k] = f[k] + 1] \in [1..MaxAttempts -> Nat]
        OBVIOUS
      <4> QED
        BY <4>1, <4>2, <2>6, Zenon
    <3>6. claims' \in [Tasks -> [1..MaxAttempts -> Nat]]
      BY <3>1, <3>5 DEF TypeOK
    <3> QED
      BY <1>5, <2>1, <3>2, <3>3, <3>4, <3>6 DEF Claim, TypeOK, TxOK
  <2>8. CASE ~StillReady(t, ready)
    <3>1. status' = marked /\ UNCHANGED <<attempt, mission, claims>>
      BY <2>3, <2>8 DEF t, n
    <3> QED
      BY <1>5, <2>1, <2>2, <3>1 DEF Claim, TypeOK, TxOK
  <2> QED
    BY <2>7, <2>8
<1>6. ASSUME NEW w \in Callers, SetOutcome(w) PROVE TypeOK'
  <2>1. PICK o \in Reported : outcome' = [outcome EXCEPT ![call[w].task] = o]
    BY <1>6 DEF SetOutcome
  <2>2. outcome' \in [Tasks -> ExternalOutcome]
    BY <2>1, MissionAssumption DEF TypeOK
  <2>3. call[w].task \in Tasks
    BY <1>6 DEF SetOutcome, Calling, TypeOK, CallType
  <2>4. released' \subseteq Tasks
    BY <1>6, <2>3 DEF SetOutcome, TypeOK
  <2> QED
    BY <1>6, <2>2, <2>4, EndType DEF SetOutcome, TypeOK, TxOK
<1>7. ASSUME NEW w \in Callers, Complete(w) PROVE TypeOK'
  <2> DEFINE t == call[w].task
  <2>1. pc[w] = "read" /\ t \in Tasks
    BY <1>7 DEF Complete, Calling, TypeOK, CallType
  <2>2. PICK v \in Later(w, {t}) :
          LET st == Completed(v.status, t)
          IN /\ status' = Put(Put(status, {t}, "COMPLETED"), Unblocked(st), "READY")
             /\ finished' = finished \cup {t}
             /\ Conclude(v.mission, Verdict(MarkReady(st)))
    BY <1>7 DEF Complete
  <2>3. status' \in [Tasks -> TaskStatus]
    BY <2>2, PutType DEF TypeOK, TaskStatus
  <2>4. mission' \in MissionStatus
    BY <2>2, VerdictType, ConcludeType
  <2>5. finished' \subseteq Tasks
    BY <2>1, <2>2 DEF TypeOK
  <2> QED
    BY <1>7, <2>3, <2>4, <2>5, EndType DEF Complete, TypeOK, TxOK
<1>8. ASSUME NEW w \in Callers, Retry(w) PROVE TypeOK'
  <2>1. status' \in [Tasks -> TaskStatus]
    BY <1>8, PutType DEF Retry, GiveBack, TypeOK, TaskStatus
  <2>2. mission' \in MissionStatus
    BY <1>8 DEF Retry, TypeOK, MissionStatus
  <2>3. released' \subseteq Tasks
    <3>1. call[w].task \in Tasks
      BY <1>8 DEF Retry, Calling, TypeOK, CallType
    <3> QED
      BY <1>8, <3>1 DEF Retry, GiveBack, TypeOK
  <2> QED
    BY <1>8, <2>1, <2>2, <2>3, EndType DEF Retry, TypeOK, TxOK
<1>9. ASSUME NEW w \in Callers, Fail(w) PROVE TypeOK'
  <2>1. status' \in [Tasks -> TaskStatus]
    BY <1>9, PutType DEF Fail, TypeOK, TaskStatus
  <2>2. mission' \in MissionStatus
    BY <1>9, VerdictType, ConcludeType DEF Fail
  <2> QED
    BY <1>9, <2>1, <2>2, EndType DEF Fail, TypeOK, TxOK
<1>10. ASSUME NEW w \in Callers, Wait(w) PROVE TypeOK'
  <2>1. status' \in [Tasks -> TaskStatus]
    BY <1>10, PutType DEF Wait, TypeOK, TaskStatus
  <2>2. approval' \in [Tasks -> Approval]
    BY <1>10 DEF Wait, Put, TypeOK, Approval
  <2>3. mission' \in MissionStatus
    <3>1. "WAITING_APPROVAL" \in MissionStatus
      BY DEF MissionStatus
    <3> QED
      BY <1>10, <3>1, ConcludeType DEF Wait
  <2> QED
    BY <1>10, <2>1, <2>2, <2>3, EndType DEF Wait, TypeOK, TxOK
<1>11. ASSUME NEW w \in Callers, Approve(w) PROVE TypeOK'
  <2>1. approval' \in [Tasks -> Approval]
    BY <1>11 DEF Approve, Put, TypeOK, Approval
  <2> QED
    BY <1>11, <2>1, EndType DEF Approve, TypeOK, TxOK
<1>12. ASSUME NEW w \in Callers, Reject(w) PROVE TypeOK'
  <2>1. status' \in [Tasks -> TaskStatus]
    BY <1>12, PutType DEF Reject, TypeOK, TaskStatus
  <2>2. approval' \in [Tasks -> Approval]
    BY <1>12 DEF Reject, Put, TypeOK, Approval
  <2>3. mission' \in MissionStatus
    <3>1. "FAILED" \in MissionStatus
      BY DEF MissionStatus
    <3> QED
      BY <1>12, <3>1, ConcludeType DEF Reject
  <2> QED
    BY <1>12, <2>1, <2>2, <2>3, EndType DEF Reject, TypeOK, TxOK
<1>13. ASSUME NEW w \in Callers, Resume(w) PROVE TypeOK'
  <2>1. status' \in [Tasks -> TaskStatus]
    BY <1>13, PutType DEF Resume, GiveBack, TypeOK, TaskStatus
  <2>2. mission' \in MissionStatus
    <3>1. "RUNNING" \in MissionStatus
      BY DEF MissionStatus
    <3> QED
      BY <1>13, <3>1, ConcludeType DEF Resume
  <2>3. released' \subseteq Tasks
    <3>1. call[w].task \in Tasks
      BY <1>13 DEF Resume, Calling, TypeOK, CallType
    <3> QED
      BY <1>13, <3>1 DEF Resume, GiveBack, TypeOK
  <2> QED
    BY <1>13, <2>1, <2>2, <2>3, EndType DEF Resume, TypeOK, TxOK
<1>14. ASSUME NEW w \in Callers, Recover(w) PROVE TypeOK'
  <2> DEFINE stuck == {t \in Tasks : snap[w].status[t] = "RUNNING"}
             with(o) == {t \in stuck : snap[w].outcome[t] = o}
             recovered(st) ==
               [t \in Tasks |-> IF t \in stuck THEN Recovered(snap[w].outcome[t]) ELSE st[t]]
  <2>1. status' = recovered(status)
    BY <1>14 DEF Recover
  <2>2. status' \in [Tasks -> TaskStatus]
    BY <2>1 DEF Recovered, TypeOK, TaskStatus
  <2>3. outcome' = Put(outcome, with("DISPATCHING"), "RECONCILIATION_REQUIRED")
    BY <1>14 DEF Recover
  <2>4. outcome' \in [Tasks -> ExternalOutcome]
    BY <2>3 DEF Put, TypeOK, ExternalOutcome
  <2>5. PICK v \in Later(w, stuck) :
          IF with("CONFIRMED") # {} /\ Verdict(recovered(v.status)) # "NONE"
          THEN Conclude(v.mission, Verdict(recovered(v.status)))
          ELSE mission' = IF with("DISPATCHING") # {} /\ snap[w].mission = "RUNNING"
                          THEN "BLOCKED"
                          ELSE IF with("NOT_STARTED") # {} /\ v.mission = "RUNNING"
                          THEN "RETRYING" ELSE mission
    BY <1>14 DEF Recover
  <2>6. mission' \in MissionStatus
    <3>1. \/ Conclude(v.mission, Verdict(recovered(v.status)))
          \/ mission' \in {"BLOCKED", "RETRYING", mission}
      BY <2>5
    <3> HIDE DEF recovered
    <3>2. CASE Conclude(v.mission, Verdict(recovered(v.status)))
      BY <3>2, VerdictType, ConcludeType
    <3>3. CASE mission' \in {"BLOCKED", "RETRYING", mission}
      BY <3>3 DEF TypeOK, MissionStatus
    <3> QED
      BY <3>1, <3>2, <3>3
  <2>7. finished' \subseteq Tasks
    BY <1>14 DEF Recover, TypeOK
  <2>8. UNCHANGED <<attempt, approval, overdue, claims, released>> /\ TxOK'
    BY <1>14, EndType DEF Recover
  <2> QED
    BY <2>2, <2>4, <2>6, <2>7, <2>8 DEF TypeOK, TxOK
<1>15. ASSUME NEW w \in Callers, Cancel(w) PROVE TypeOK'
  <2>1. status' \in [Tasks -> TaskStatus]
    BY <1>15, PutType DEF Cancel, TypeOK, TaskStatus
  <2> QED
    BY <1>15, <2>1, EndType DEF Cancel, TypeOK, TxOK, MissionStatus
<1>16. ASSUME NEW w \in Callers, Stop(w) PROVE TypeOK'
  BY <1>16, EndType DEF Stop, TypeOK, TxOK, MissionStatus
<1>17. CASE Deadline
  BY <1>17 DEF Deadline, TypeOK
<1> QED
  BY <1>1, <1>2, <1>3, <1>4, <1>5, <1>6, <1>7, <1>8, <1>9, <1>10, <1>11, <1>12, <1>13,
     <1>14, <1>15, <1>16, <1>17 DEF Next, Operation

\* Every variable of the mission keeps its type, whatever transactions overlap.
THEOREM MissionTypeCorrect == Spec => []TypeOK
<1> QED
  BY TypeInit, TypeStep, PTL DEF Spec

-----------------------------------------------------------------------------
(* Dependencies *)

\* The tasks of st that have moved were allowed to, given the tasks completed so far.
Justified(st, fin) ==
  \A t \in Tasks :
    /\ st[t] \notin {"PENDING", "CANCELLED"} => DependsOn[t] \subseteq fin
    /\ st[t] = "COMPLETED" => t \in fin

\* The operations that write the status of the task they were called with.
Movers == {"complete", "retry", "fail", "wait", "reject", "resume"}

\* What the database holds is justified, and so is what a transaction read and the
\* task it is about to write: the set of completed tasks only grows, so that a stale
\* read stays justified.
DependencyInv ==
  /\ TypeOK
  /\ Justified(status, finished)
  /\ \A w \in Callers : pc[w] = "read" =>
       /\ Justified(snap[w].status, finished)
       /\ call[w].op \in Movers => DependsOn[call[w].task] \subseteq finished

LEMMA JustifiedGrows ==
  ASSUME NEW st, NEW fin, NEW more, Justified(st, fin), fin \subseteq more
  PROVE  Justified(st, more)
BY DEF Justified

\* Writing any status but COMPLETED to tasks that may move.
LEMMA PutJustified ==
  ASSUME NEW st, NEW fin, NEW S, NEW v, Justified(st, fin), v # "COMPLETED",
         \A t \in S : DependsOn[t] \subseteq fin
  PROVE  Justified(Put(st, S, v), fin)
BY DEF Justified, Put

\* What markReadyTasks finds unblocked in justified rows may move.
LEMMA UnblockedMayMove ==
  ASSUME NEW st, NEW fin, Justified(st, fin)
  PROVE  \A t \in Unblocked(st) : DependsOn[t] \subseteq fin
<1> SUFFICES ASSUME NEW t \in Unblocked(st), NEW d \in DependsOn[t] PROVE d \in fin
  OBVIOUS
<1>1. t \in Tasks /\ st[d] = "COMPLETED"
  BY DEF Unblocked
<1>2. d \in Tasks
  BY <1>1, MissionAssumption
<1> QED
  BY <1>1, <1>2 DEF Justified

LEMMA LaterJustified ==
  ASSUME DependencyInv, NEW w \in Callers, pc[w] = "read", NEW S, NEW v \in Later(w, S)
  PROVE  Justified(v.status, finished)
<1>1. v = Current \/ v = snap[w]
  BY DEF Later
<1> QED
  BY <1>1 DEF DependencyInv, Current

\* Once the rows are justified and the completed tasks have only grown, the end of a
\* transaction leaves the invariant intact.
LEMMA EndKeeps ==
  ASSUME DependencyInv, TypeOK', NEW w \in Callers, End(w),
         Justified(status', finished'), finished \subseteq finished'
  PROVE  DependencyInv'
<1>1. ASSUME NEW u \in Callers, pc'[u] = "read"
      PROVE  pc[u] = "read" /\ snap'[u] = snap[u] /\ call'[u] = call[u]
  BY <1>1 DEF End, DependencyInv, TypeOK
<1>2. ASSUME NEW u \in Callers, pc'[u] = "read"
      PROVE  /\ Justified(snap'[u].status, finished')
             /\ call'[u].op \in Movers => DependsOn[call'[u].task] \subseteq finished'
  <2>1. Justified(snap[u].status, finished)
    BY <1>1, <1>2 DEF DependencyInv
  <2>2. Justified(snap[u].status, finished')
    BY <2>1, JustifiedGrows
  <2> QED
    BY <1>1, <1>2, <2>2 DEF DependencyInv
<1> QED
  BY <1>2 DEF DependencyInv

LEMMA DependencyInit == Init => DependencyInv
<1> SUFFICES ASSUME Init PROVE DependencyInv
  OBVIOUS
<1>1. Justified(status, finished)
  BY DEF Init, Justified
<1>2. \A w \in Callers : pc[w] # "read"
  BY DEF Init
<1> QED
  BY <1>1, <1>2, TypeInit DEF DependencyInv

LEMMA ReadKeeps ==
  ASSUME DependencyInv, TypeOK', NEW w \in Callers, Read(w)
  PROVE  DependencyInv'
<1>1. PICK o \in Ops, t \in Tasks, n \in 1..MaxAttempts :
        /\ Accepted(o, t, n)
        /\ call' = [call EXCEPT ![w] = [op |-> o, task |-> t, attempt |-> n]]
  BY DEF Read
<1>2. o \in Movers => DependsOn[t] \subseteq finished
  <2>1. status[t] \in TaskStatus
    BY DEF DependencyInv, TypeOK
  <2>2. o \in Movers => status[t] \notin {"PENDING", "CANCELLED"}
    BY <1>1, <2>1 DEF Accepted, Movers, TaskAllowed, TaskTransitions, TaskStatus
  <2> QED
    BY <2>2 DEF DependencyInv, Justified
<1>3. UNCHANGED <<status, finished>>
  BY DEF Read, rows, ghosts
<1>4. /\ call'[w] = [op |-> o, task |-> t, attempt |-> n]
      /\ snap'[w] = Current
  BY <1>1 DEF Read, DependencyInv, TypeOK
<1>5. ASSUME NEW u \in Callers, u # w, pc'[u] = "read"
      PROVE  pc[u] = "read" /\ snap'[u] = snap[u] /\ call'[u] = call[u]
  BY <1>1, <1>5 DEF Read, DependencyInv, TypeOK
<1>6. ASSUME NEW u \in Callers, pc'[u] = "read"
      PROVE  /\ Justified(snap'[u].status, finished)
             /\ call'[u].op \in Movers => DependsOn[call'[u].task] \subseteq finished
  <2>1. CASE u = w
    BY <1>2, <1>4, <2>1 DEF Current, DependencyInv
  <2>2. CASE u # w
    BY <1>5, <1>6, <2>2 DEF DependencyInv
  <2> QED
    BY <2>1, <2>2
<1> QED
  BY <1>3, <1>6 DEF DependencyInv

LEMMA ClaimKeeps ==
  ASSUME DependencyInv, TypeOK', NEW w \in Callers, Claim(w)
  PROVE  DependencyInv'
<1> DEFINE ready == Unblocked(snap[w].status)
           marked == Put(status, ready, "READY")
<1>1. pc[w] = "read" /\ End(w) /\ finished' = finished
  BY DEF Claim, Calling
<1>2. PICK v \in Later(w, ready) :
        LET st == Put(v.status, ready, "READY")
            t  == Candidate(st)
        IN /\ HasReady(st)
           /\ status' = marked \/ status' = [marked EXCEPT ![t] = "RUNNING"]
  BY DEF Claim
<1> DEFINE st == Put(v.status, ready, "READY")
           t == Candidate(st)
<1>3. \A u \in ready : DependsOn[u] \subseteq finished
  BY <1>1, UnblockedMayMove DEF DependencyInv
<1>4. Justified(marked, finished)
  BY <1>3, PutJustified DEF DependencyInv
<1>5. Justified(st, finished)
  BY <1>1, <1>2, <1>3, LaterJustified, PutJustified
<1>6. t \in Tasks /\ st[t] = "READY"
  BY <1>2, CandidateReady
<1>7. DependsOn[t] \subseteq finished
  <2> HIDE DEF st, t
  <2> QED
    BY <1>5, <1>6 DEF Justified
<1>8. Justified(status', finished)
  <2>1. marked = [u \in Tasks |-> IF u \in ready THEN "READY" ELSE status[u]]
    BY DEF Put
  <2> HIDE DEF ready, marked, t
  <2>2. CASE status' = marked
    BY <1>4, <2>2
  <2>3. CASE status' = [marked EXCEPT ![t] = "RUNNING"]
    BY <1>4, <1>7, <2>1, <2>3 DEF Justified
  <2> QED
    BY <1>2, <2>2, <2>3 DEF t
<1> QED
  BY <1>1, <1>8, EndKeeps

LEMMA CompleteKeeps ==
  ASSUME DependencyInv, TypeOK', NEW w \in Callers, Complete(w)
  PROVE  DependencyInv'
<1> DEFINE t == call[w].task
<1>1. pc[w] = "read" /\ End(w) /\ call[w].op \in Movers
  BY DEF Complete, Calling, Movers
<1>2. PICK v \in Later(w, {t}) :
        /\ status' = Put(Put(status, {t}, "COMPLETED"),
                         Unblocked(Completed(v.status, t)), "READY")
        /\ finished' = finished \cup {t}
  BY DEF Complete
<1>3. t \in Tasks /\ DependsOn[t] \subseteq finished
  BY <1>1 DEF DependencyInv, TypeOK, CallType
<1>4. \A s : Justified(s, finished) => Justified(Put(s, {t}, "COMPLETED"), finished \cup {t})
  BY <1>3 DEF Justified, Put
<1>5. Justified(Completed(v.status, t), finished')
  BY <1>1, <1>2, <1>4, LaterJustified DEF Completed
<1>6. \A u \in Unblocked(Completed(v.status, t)) : DependsOn[u] \subseteq finished'
  BY <1>5, UnblockedMayMove
<1>7. Justified(Put(status, {t}, "COMPLETED"), finished')
  BY <1>2, <1>4 DEF DependencyInv
<1>8. Justified(status', finished')
  BY <1>2, <1>6, <1>7, PutJustified
<1> QED
  BY <1>1, <1>2, <1>8, EndKeeps

LEMMA RecoverKeeps ==
  ASSUME DependencyInv, TypeOK', NEW w \in Callers, Recover(w)
  PROVE  DependencyInv'
<1> DEFINE stuck == {t \in Tasks : snap[w].status[t] = "RUNNING"}
           with(o) == {t \in stuck : snap[w].outcome[t] = o}
<1>1. pc[w] = "read" /\ End(w)
  BY DEF Recover, Calling
<1>2. /\ status' = [t \in Tasks |-> IF t \in stuck THEN Recovered(snap[w].outcome[t])
                                    ELSE status[t]]
      /\ finished' = finished \cup with("CONFIRMED")
  BY DEF Recover
<1>3. Justified(snap[w].status, finished) /\ Justified(status, finished)
  BY <1>1 DEF DependencyInv
<1>4. Justified(status', finished')
  <2> SUFFICES ASSUME NEW t \in Tasks
               PROVE  /\ status'[t] \notin {"PENDING", "CANCELLED"}
                           => DependsOn[t] \subseteq finished'
                      /\ status'[t] = "COMPLETED" => t \in finished'
    BY DEF Justified
  <2>1. CASE t \in stuck
    <3>1. DependsOn[t] \subseteq finished
      BY <1>3, <2>1 DEF Justified
    <3>2. status'[t] = "COMPLETED" => snap[w].outcome[t] = "CONFIRMED"
      BY <1>2, <2>1 DEF Recovered
    <3> QED
      BY <1>2, <2>1, <3>1, <3>2
  <2>2. CASE t \notin stuck
    BY <1>2, <1>3, <2>2 DEF Justified
  <2> QED
    BY <2>1, <2>2
<1> QED
  BY <1>1, <1>2, <1>4, EndKeeps

\* An operation that writes one task's status, and not COMPLETED.
LEMMA MoveKeeps ==
  ASSUME DependencyInv, TypeOK', NEW w \in Callers, pc[w] = "read", call[w].op \in Movers,
         End(w), finished' = finished,
         NEW v, v # "COMPLETED", status' = Put(status, {call[w].task}, v)
  PROVE  DependencyInv'
<1>1. \A t \in {call[w].task} : DependsOn[t] \subseteq finished
  BY DEF DependencyInv
<1>2. Justified(status', finished)
  BY <1>1, PutJustified DEF DependencyInv
<1> QED
  BY <1>2, EndKeeps

LEMMA CancelKeeps ==
  ASSUME DependencyInv, TypeOK', NEW w \in Callers, Cancel(w)
  PROVE  DependencyInv'
<1>1. End(w) /\ finished' = finished
  BY DEF Cancel, ghosts
<1>2. Justified(status', finished)
  BY DEF Cancel, Put, Justified, DependencyInv
<1> QED
  BY <1>1, <1>2, EndKeeps

LEMMA DependencyStep == DependencyInv /\ [Next]_vars => DependencyInv'
<1> SUFFICES ASSUME DependencyInv, [Next]_vars PROVE DependencyInv'
  OBVIOUS
<1>1. TypeOK'
  BY TypeStep DEF DependencyInv
<1> USE DEF rows, tx, ghosts
<1>2. CASE UNCHANGED vars
  BY <1>1, <1>2 DEF vars, DependencyInv
<1>3. CASE Deadline
  BY <1>1, <1>3 DEF Deadline, DependencyInv
<1>4. ASSUME NEW w \in Callers, Read(w) \/ Operation(w) \/ RollBack(w) PROVE DependencyInv'
  <2>1. CASE Read(w)
    BY <1>1, <2>1, ReadKeeps
  <2>2. CASE RollBack(w) \/ ClaimOverdue(w) \/ SetOutcome(w) \/ Approve(w) \/ Stop(w)
    <3>1. End(w) /\ UNCHANGED <<status, finished>>
      BY <2>2 DEF RollBack, ClaimOverdue, SetOutcome, Approve, Stop
    <3> QED
      BY <1>1, <3>1, EndKeeps DEF DependencyInv
  <2>3. CASE Claim(w)
    BY <1>1, <2>3, ClaimKeeps
  <2>4. CASE Complete(w)
    BY <1>1, <2>4, CompleteKeeps
  <2>5. CASE Retry(w) \/ Fail(w) \/ Wait(w) \/ Reject(w) \/ Resume(w)
    <3>1. pc[w] = "read" /\ call[w].op \in Movers /\ End(w) /\ finished' = finished
      BY <2>5 DEF Retry, GiveBack, Fail, Wait, Reject, Resume, Calling, Movers
    <3>2. \E v \in {"READY", "FAILED", "WAITING_APPROVAL"} :
            status' = Put(status, {call[w].task}, v)
      BY <2>5 DEF Retry, GiveBack, Fail, Wait, Reject, Resume
    <3> QED
      BY <1>1, <3>1, <3>2, MoveKeeps
  <2>6. CASE Recover(w)
    BY <1>1, <2>6, RecoverKeeps
  <2>7. CASE Cancel(w)
    BY <1>1, <2>7, CancelKeeps
  <2> QED
    BY <1>4, <2>1, <2>2, <2>3, <2>4, <2>5, <2>6, <2>7 DEF Operation
<1> QED
  BY <1>2, <1>3, <1>4 DEF Next

\* However many transactions overlap and however stale their reads are, nothing of a
\* task happens before all the tasks that it depends on have been completed.
THEOREM DependenciesCorrect == Spec => []DependenciesFirst
<1>1. DependencyInv => DependenciesFirst
  BY DEF DependencyInv, Justified, DependenciesFirst
<1> QED
  BY DependencyInit, DependencyStep, <1>1, PTL DEF Spec

-----------------------------------------------------------------------------
(* One transaction at a time: the mission and its tasks agree *)

\* No two transactions overlap.
Serial == \A v, w \in Callers : v = w

Ended == {"COMPLETED", "FAILED", "CANCELLED"}

Final == {"COMPLETED", "CANCELLED"}

\* What the open transaction read is what the database holds.
FreshView(w) ==
  /\ snap[w].status = status
  /\ snap[w].outcome = outcome
  /\ snap[w].mission = mission

\* What its first statements checked still holds.
StillAccepted(w) ==
  /\ call[w].op = "claim" => mission \in Open
  /\ call[w].op \in Movers => call[w].task \in Tasks /\ status[call[w].task] \notin Done
  /\ call[w].op = "recover" => call[w].task \in Tasks /\ status[call[w].task] = "RUNNING"
  /\ call[w].op \in {"cancel", "stop"} => mission \notin Final

AllCompletedEnds == (\A t \in Tasks : status[t] = "COMPLETED") => mission \in Ended

AgreeInv ==
  /\ CompletedMeansDone
  /\ AllCompletedEnds
  /\ \A w \in Callers : pc[w] = "read" => FreshView(w) /\ StillAccepted(w)

LEMMA LaterFresh ==
  ASSUME NEW w \in Callers, FreshView(w), NEW S, NEW v \in Later(w, S)
  PROVE  v.status = status /\ v.mission = mission
BY DEF FreshView, Later, Current

\* The only transitions out of an end are those of FAILED, to QUEUED and RETRYING.
LEMMA ConcludeKeepsEnds ==
  ASSUME TypeOK, NEW verdict, Conclude(mission, verdict)
  PROVE  /\ mission \in Final => mission' = mission
         /\ mission' \in {mission, verdict}
         /\ verdict # "NONE" => mission' = verdict
         /\ mission = "FAILED" /\ verdict \notin {"QUEUED", "RETRYING"} => mission' = mission
BY DEF Conclude, MissionAllowed, MissionTransitions, Final, TypeOK, MissionStatus

LEMMA VerdictMeans ==
  ASSUME NEW st
  PROVE  /\ Verdict(st) \in {"NONE", "COMPLETED", "FAILED"}
         /\ Verdict(st) = "COMPLETED" => \A t \in Tasks : st[t] \in Done
         /\ (\A t \in Tasks : st[t] = "COMPLETED") => Verdict(st) = "COMPLETED"
BY DEF Verdict, Done

\* An end of a transaction leaves no view behind.
LEMMA EndAgrees ==
  ASSUME TypeOK, Serial, NEW w \in Callers, End(w), CompletedMeansDone', AllCompletedEnds'
  PROVE  AgreeInv'
<1>1. \A u \in Callers : pc'[u] # "read"
  BY DEF End, Serial, TypeOK
<1> QED
  BY <1>1 DEF AgreeInv

LEMMA ReadAgrees ==
  ASSUME TypeOK, Serial, AgreeInv, NEW w \in Callers, Read(w)
  PROVE  AgreeInv'
<1>1. PICK o \in Ops, t \in Tasks, n \in 1..MaxAttempts :
        /\ Accepted(o, t, n)
        /\ call' = [call EXCEPT ![w] = [op |-> o, task |-> t, attempt |-> n]]
  BY DEF Read
<1>2. UNCHANGED <<status, outcome, mission>>
  BY DEF Read, rows
<1>3. call'[w] = [op |-> o, task |-> t, attempt |-> n] /\ snap'[w] = Current
  BY <1>1 DEF Read, TypeOK
<1>4. status[t] \in TaskStatus /\ mission \in MissionStatus
  BY DEF TypeOK
<1>5. o \in Movers => status[t] \notin Done
  BY <1>1, <1>4 DEF Accepted, Movers, TaskAllowed, TaskTransitions, TaskStatus, Done
<1>6. o = "recover" => status[t] = "RUNNING"
  BY <1>1 DEF Accepted
<1>7. (o = "claim" => mission \in Open) /\ (o \in {"cancel", "stop"} => mission \notin Final)
  BY <1>1, <1>4 DEF Accepted, MissionAllowed, MissionTransitions, MissionStatus, Final
<1>8. FreshView(w)'
  BY <1>2, <1>3 DEF FreshView, Current
<1>9. StillAccepted(w)'
  BY <1>2, <1>3, <1>5, <1>6, <1>7 DEF StillAccepted
<1>10. CompletedMeansDone' /\ AllCompletedEnds'
  BY <1>2 DEF AgreeInv, CompletedMeansDone, AllCompletedEnds
<1>11. \A u \in Callers : u = w
  BY DEF Serial
<1> QED
  BY <1>8, <1>9, <1>10, <1>11 DEF AgreeInv

LEMMA ClaimAgrees ==
  ASSUME TypeOK, AgreeInv, NEW w \in Callers, Claim(w)
  PROVE  /\ CompletedMeansDone' /\ AllCompletedEnds'
         /\ mission \in Final => mission' = mission
<1> DEFINE ready == Unblocked(snap[w].status)
           marked == Put(status, ready, "READY")
<1>1. mission \in Open
  BY DEF Claim, Calling, AgreeInv, StillAccepted
<1>2. PICK v \in Later(w, ready) :
        LET st == Put(v.status, ready, "READY")
            t  == Candidate(st)
        IN /\ HasReady(st)
           /\ \/ /\ status' = [marked EXCEPT ![t] = "RUNNING"]
                 /\ mission' = IF snap[w].mission = "RUNNING" THEN mission ELSE "RUNNING"
              \/ status' = marked /\ mission' = mission
  BY DEF Claim
<1> DEFINE t == Candidate(Put(v.status, ready, "READY"))
<1>3. t \in Tasks
  BY <1>2, CandidateReady
<1>4. mission' \in Open
  BY <1>1, <1>2 DEF Open
<1>5. ~(\A u \in Tasks : status[u] = "COMPLETED")
  BY <1>1 DEF AgreeInv, AllCompletedEnds, Open, Ended
<1>6. ~(\A u \in Tasks : status'[u] = "COMPLETED")
  <2>1. marked = [u \in Tasks |-> IF u \in ready THEN "READY" ELSE status[u]]
    BY DEF Put
  <2>2. status' = [marked EXCEPT ![t] = "RUNNING"] \/ status' = marked
    BY <1>2
  <2> HIDE DEF ready, marked, t
  <2> QED
    BY <1>3, <1>5, <2>1, <2>2
<1> QED
  BY <1>1, <1>4, <1>6 DEF CompletedMeansDone, AllCompletedEnds, Open, Final

LEMMA CompleteAgrees ==
  ASSUME TypeOK, AgreeInv, NEW w \in Callers, Complete(w)
  PROVE  /\ CompletedMeansDone' /\ AllCompletedEnds'
         /\ mission \in Final => mission' = mission
<1> DEFINE t == call[w].task
           st == Completed(status, t)
<1>1. FreshView(w) /\ t \in Tasks /\ status[t] \notin Done
  BY DEF Complete, Calling, AgreeInv, StillAccepted, Movers
<1>2. status' = MarkReady(st) /\ Conclude(mission, Verdict(MarkReady(st)))
  BY <1>1, LaterFresh DEF Complete, MarkReady, Completed
<1>3. mission # "COMPLETED"
  BY <1>1 DEF AgreeInv, CompletedMeansDone
<1>4. mission' = "COMPLETED" => \A u \in Tasks : status'[u] \in Done
  BY <1>2, <1>3, ConcludeKeepsEnds, VerdictMeans
<1>5. (\A u \in Tasks : status'[u] = "COMPLETED") => mission' = "COMPLETED"
  BY <1>2, ConcludeKeepsEnds, VerdictMeans
<1> QED
  BY <1>2, <1>4, <1>5, ConcludeKeepsEnds DEF CompletedMeansDone, AllCompletedEnds, Ended

\* An operation that takes one open task to a status that is no end.
LEMMA MoveAgrees ==
  ASSUME TypeOK, AgreeInv, NEW w \in Callers,
         Retry(w) \/ Fail(w) \/ Wait(w) \/ Reject(w) \/ Resume(w)
  PROVE  /\ CompletedMeansDone' /\ AllCompletedEnds'
         /\ mission \in Final => mission' = mission
<1> DEFINE t == call[w].task
<1>1. FreshView(w) /\ t \in Tasks /\ status[t] \notin Done
  BY DEF Retry, GiveBack, Fail, Wait, Reject, Resume, Calling, AgreeInv, StillAccepted, Movers
<1>2. mission # "COMPLETED"
  BY <1>1 DEF AgreeInv, CompletedMeansDone
<1>3. status'[t] # "COMPLETED"
  BY <1>1 DEF Retry, GiveBack, Fail, Wait, Reject, Resume, Put
<1>4. \/ mission' \in {mission, "RETRYING"} /\ (mission \in Final => mission' = mission)
      \/ Conclude(mission, "WAITING_APPROVAL") \/ Conclude(mission, "FAILED")
      \/ Conclude(mission, "RUNNING")
      \/ Conclude(mission, Verdict(Put(status, {t}, "FAILED")))
  BY <1>1, LaterFresh DEF Retry, GiveBack, Fail, Wait, Reject, Resume, Final
<1>5. Verdict(Put(status, {t}, "FAILED")) # "COMPLETED"
  <2>1. Put(status, {t}, "FAILED")[t] = "FAILED"
    BY <1>1 DEF Put
  <2> QED
    BY <1>1, <2>1, VerdictMeans DEF Done
<1>6. mission' # "COMPLETED" /\ (mission \in Final => mission' = mission)
  BY <1>2, <1>4, <1>5, ConcludeKeepsEnds
<1> QED
  BY <1>1, <1>3, <1>6 DEF CompletedMeansDone, AllCompletedEnds

LEMMA RecoverAgrees ==
  ASSUME TypeOK, AgreeInv, NEW w \in Callers, Recover(w)
  PROVE  /\ CompletedMeansDone' /\ AllCompletedEnds'
         /\ mission \in Final => mission' = mission
<1> DEFINE stuck == {t \in Tasks : status[t] = "RUNNING"}
           with(o) == {t \in stuck : outcome[t] = o}
           st == [t \in Tasks |-> IF t \in stuck THEN Recovered(outcome[t]) ELSE status[t]]
           b == call[w].task
<1>1. FreshView(w) /\ b \in stuck
  BY DEF Recover, Calling, AgreeInv, StillAccepted
<1>2. status' = st
  BY <1>1 DEF Recover, FreshView
<1>3. \/ /\ with("CONFIRMED") # {}
         /\ Conclude(mission, Verdict(st))
      \/ /\ with("CONFIRMED") = {} \/ Verdict(st) = "NONE"
         /\ \/ mission' = mission
            \/ mission = "RUNNING" /\ mission' \in {"BLOCKED", "RETRYING"}
  <2>1. PICK v \in Later(w, {t \in Tasks : snap[w].status[t] = "RUNNING"}) :
          IF with("CONFIRMED") # {} /\ Verdict([t \in Tasks |-> IF t \in stuck
                                THEN Recovered(outcome[t]) ELSE v.status[t]]) # "NONE"
          THEN Conclude(v.mission, Verdict([t \in Tasks |-> IF t \in stuck
                                THEN Recovered(outcome[t]) ELSE v.status[t]]))
          ELSE mission' = IF with("DISPATCHING") # {} /\ mission = "RUNNING"
                          THEN "BLOCKED"
                          ELSE IF with("NOT_STARTED") # {} /\ v.mission = "RUNNING"
                          THEN "RETRYING" ELSE mission
    BY <1>1 DEF Recover, FreshView
  <2>2. v.status = status /\ v.mission = mission
    BY <1>1, <2>1, LaterFresh
  <2> QED
    BY <2>1, <2>2
<1>4. mission # "COMPLETED"
  BY <1>1 DEF AgreeInv, CompletedMeansDone, Done
<1>5. mission' = "COMPLETED" => \A t \in Tasks : status'[t] \in Done
  BY <1>2, <1>3, <1>4, ConcludeKeepsEnds, VerdictMeans
<1>6. (\A t \in Tasks : status'[t] = "COMPLETED") => mission' = "COMPLETED"
  <2> SUFFICES ASSUME \A t \in Tasks : status'[t] = "COMPLETED"
               PROVE  mission' = "COMPLETED"
    OBVIOUS
  <2>1. Verdict(st) = "COMPLETED"
    BY <1>2, VerdictMeans
  <2>2. b \in with("CONFIRMED")
    <3>1. Recovered(outcome[b]) = "COMPLETED"
      BY <1>1, <1>2
    <3> QED
      BY <1>1, <3>1 DEF Recovered
  <2> HIDE DEF with, st
  <2> QED
    BY <1>3, <2>1, <2>2, ConcludeKeepsEnds
<1>7. mission \in Final => mission' = mission
  BY <1>3, ConcludeKeepsEnds DEF Final
<1> QED
  BY <1>5, <1>6, <1>7 DEF CompletedMeansDone, AllCompletedEnds, Ended

\* An end of the mission that a person, the budget or the deadline brings.
LEMMA StopAgrees ==
  ASSUME TypeOK, AgreeInv, NEW w \in Callers, ClaimOverdue(w) \/ Cancel(w) \/ Stop(w)
  PROVE  /\ CompletedMeansDone' /\ AllCompletedEnds'
         /\ mission \in Final => mission' = mission
<1>1. mission \notin Final
  BY DEF ClaimOverdue, Cancel, Stop, Calling, AgreeInv, StillAccepted, Open, Final
<1>2. mission' \in {"FAILED", "CANCELLED"}
  BY DEF ClaimOverdue, Cancel, Stop
<1> QED
  BY <1>1, <1>2 DEF CompletedMeansDone, AllCompletedEnds, Ended

\* What one step does, while transactions do not overlap.
LEMMA AgreeStep ==
  ASSUME TypeOK, Serial, AgreeInv, [Next]_vars
  PROVE  /\ AgreeInv'
         /\ mission \in Final => mission' = mission
<1> USE DEF rows, tx, ghosts
<1>1. CASE UNCHANGED vars
  <2>1. UNCHANGED <<status, outcome, mission, pc, call, snap>>
    BY <1>1 DEF vars
  <2> QED
    BY <2>1 DEF AgreeInv, CompletedMeansDone, AllCompletedEnds, FreshView, StillAccepted
<1>2. CASE Deadline
  <2>1. UNCHANGED <<status, outcome, mission, pc, call, snap>>
    BY <1>2 DEF Deadline
  <2> QED
    BY <2>1 DEF AgreeInv, CompletedMeansDone, AllCompletedEnds, FreshView, StillAccepted
<1>3. ASSUME NEW w \in Callers, Read(w) \/ Operation(w) \/ RollBack(w)
      PROVE  AgreeInv' /\ (mission \in Final => mission' = mission)
  <2>1. CASE Read(w)
    BY <2>1, ReadAgrees DEF Read
  <2>2. CASE RollBack(w) \/ SetOutcome(w) \/ Approve(w)
    <3>1. End(w) /\ UNCHANGED <<status, mission>>
      BY <2>2 DEF RollBack, SetOutcome, Approve
    <3>2. CompletedMeansDone' /\ AllCompletedEnds'
      BY <3>1 DEF AgreeInv, CompletedMeansDone, AllCompletedEnds
    <3> QED
      BY <3>1, <3>2, EndAgrees
  <2>3. CASE Claim(w)
    BY <2>3, ClaimAgrees, EndAgrees DEF Claim
  <2>4. CASE Complete(w)
    BY <2>4, CompleteAgrees, EndAgrees DEF Complete
  <2>5. CASE Retry(w) \/ Fail(w) \/ Wait(w) \/ Reject(w) \/ Resume(w)
    <3>1. End(w)
      BY <2>5 DEF Retry, GiveBack, Fail, Wait, Reject, Resume
    <3> QED
      BY <2>5, <3>1, MoveAgrees, EndAgrees
  <2>6. CASE Recover(w)
    BY <2>6, RecoverAgrees, EndAgrees DEF Recover
  <2>7. CASE ClaimOverdue(w) \/ Cancel(w) \/ Stop(w)
    <3>1. End(w)
      BY <2>7 DEF ClaimOverdue, Cancel, Stop
    <3> QED
      BY <2>7, <3>1, StopAgrees, EndAgrees
  <2> QED
    BY <1>3, <2>1, <2>2, <2>3, <2>4, <2>5, <2>6, <2>7 DEF Operation
<1> QED
  BY <1>1, <1>2, <1>3 DEF Next

LEMMA AgreeInit == ASSUME Tasks # {} PROVE Init => AgreeInv
BY DEF Init, AgreeInv, CompletedMeansDone, AllCompletedEnds

\* As long as transactions do not overlap, a mission of at least one task that is
\* completed has no open and no failed task.
THEOREM CompletedAgrees ==
  ASSUME Serial, Tasks # {}
  PROVE  Spec => []CompletedMeansDone
<1>1. TypeOK /\ AgreeInv /\ [Next]_vars => AgreeInv'
  BY AgreeStep
<1>2. AgreeInv => CompletedMeansDone
  BY DEF AgreeInv
<1> QED
  BY MissionTypeCorrect, AgreeInit, <1>1, <1>2, PTL DEF Spec

\* ... and a mission all of whose tasks are completed has ended.
THEOREM DoneEnds ==
  ASSUME Serial, Tasks # {}
  PROVE  Spec => []DoneMeansEnded
<1>1. TypeOK /\ AgreeInv /\ [Next]_vars => AgreeInv'
  BY AgreeStep
<1>2. AgreeInv => DoneMeansEnded
  BY DEF AgreeInv, AllCompletedEnds, DoneMeansEnded, Ended
<1> QED
  BY MissionTypeCorrect, AgreeInit, <1>1, <1>2, PTL DEF Spec

\* ... and COMPLETED and CANCELLED are final.
THEOREM EndsStay ==
  ASSUME Serial, Tasks # {}
  PROVE  Spec => EndIsFinal
<1>1. TypeOK /\ AgreeInv /\ [Next]_vars => AgreeInv'
  BY AgreeStep
<1>2. TypeOK /\ AgreeInv /\ [Next]_vars
        => [(mission \in {"COMPLETED", "CANCELLED"}) => mission' = mission]_vars
  BY AgreeStep DEF Final
<1> QED
  BY MissionTypeCorrect, AgreeInit, <1>1, <1>2, PTL DEF Spec, EndIsFinal

\* Work that has begun keeps a task from being handed out again, unless somebody let it.
ReplayInv ==
  \A t \in Tasks \ released :
    /\ outcome[t] \in Engaged => ~Waiting(t)
    /\ outcome[t] = "RECONCILIATION_REQUIRED" => status[t] # "RUNNING"

\* A claim takes a task that waits, and makes no other one wait.
LEMMA ClaimReplays ==
  ASSUME TypeOK, AgreeInv, ReplayInv, NEW w \in Callers, Claim(w)
  PROVE  /\ ReplayInv'
         /\ \A t \in Tasks : attempt'[t] > attempt[t] => Waiting(t)
<1> DEFINE ready == Unblocked(snap[w].status)
           marked == Put(status, ready, "READY")
<1>1. PICK v \in Later(w, ready) :
        LET st == Put(v.status, ready, "READY")
            t  == Candidate(st)
            n  == v.attempt[t] + 1
        IN /\ HasReady(st)
           /\ \/ /\ status' = [marked EXCEPT ![t] = "RUNNING"]
                 /\ attempt' = [attempt EXCEPT ![t] = n]
                 /\ released' = IF outcome[t] = "RECONCILIATION_REQUIRED"
                                THEN released ELSE released \ {t}
              \/ status' = marked /\ attempt' = attempt /\ released' = released
  BY DEF Claim
<1> DEFINE t == Candidate(Put(v.status, ready, "READY"))
<1>2. pc[w] = "read" /\ outcome' = outcome
  BY DEF Claim, Calling
<1>3. snap[w].status = status /\ v.status = status
  BY <1>1, <1>2, LaterFresh DEF AgreeInv, FreshView
<1>4. \A u \in Tasks : u \in ready => status[u] = "PENDING"
  BY <1>3 DEF Unblocked
<1>5. t \in Tasks /\ Put(v.status, ready, "READY")[t] = "READY"
  BY <1>1, CandidateReady
<1>6. Waiting(t)
  BY <1>3, <1>4, <1>5 DEF Put, Waiting
<1>7. \A u \in Tasks : marked[u] \in {"READY", status[u]} /\ (marked[u] # status[u] => status[u] = "PENDING")
  BY <1>4 DEF Put
<1>8. marked \in [Tasks -> TaskStatus]
  BY DEF Put, TypeOK, TaskStatus
<1>9. \A u \in Tasks : attempt'[u] > attempt[u] => u = t
  <2> HIDE DEF t, ready, marked
  <2>1. \A u \in Tasks : attempt[u] \in Nat
    BY DEF TypeOK
  <2>2. \A u \in Tasks : u # t => attempt'[u] = attempt[u]
    BY <1>1 DEF TypeOK, t, ready
  <2> QED
    BY <2>1, <2>2
<1>10. ReplayInv'
  <2> SUFFICES ASSUME NEW u \in Tasks, u \notin released'
               PROVE  /\ outcome[u] \in Engaged => status'[u] \notin {"PENDING", "READY"}
                      /\ outcome[u] = "RECONCILIATION_REQUIRED" => status'[u] # "RUNNING"
    BY <1>2 DEF ReplayInv, Waiting
  <2>1. CASE status' = marked /\ released' = released
    BY <1>7, <2>1 DEF ReplayInv, Waiting
  <2>2. CASE /\ status' = [marked EXCEPT ![t] = "RUNNING"]
             /\ released' = IF outcome[t] = "RECONCILIATION_REQUIRED"
                            THEN released ELSE released \ {t}
    <3> HIDE DEF t, ready, marked
    <3>1. CASE u = t
      <4>1. status'[u] = "RUNNING"
        BY <1>8, <2>2, <3>1
      <4>2. outcome[u] # "RECONCILIATION_REQUIRED"
        BY <1>6, <2>2, <3>1 DEF ReplayInv, Engaged
      <4> QED
        BY <4>1, <4>2
    <3>2. CASE u # t
      <4>1. u \notin released /\ status'[u] = marked[u]
        BY <1>8, <2>2, <3>2
      <4> QED
        BY <1>7, <4>1 DEF ReplayInv, Waiting
    <3> QED
      BY <3>1, <3>2
  <2> QED
    BY <1>1, <2>1, <2>2
<1> QED
  BY <1>6, <1>9, <1>10

\* A recovery completes confirmed work and blocks work under way; what it makes ready has
\* not begun, or is uncertain and somebody has let it repeat.
LEMMA RecoverReplays ==
  ASSUME TypeOK, AgreeInv, ReplayInv, NEW w \in Callers, Recover(w)
  PROVE  ReplayInv'
<1>1. FreshView(w) /\ released' = released
  BY DEF Recover, Calling, AgreeInv
<1>2. ASSUME NEW t \in Tasks
      PROVE  /\ status'[t] = IF status[t] = "RUNNING" THEN Recovered(outcome[t]) ELSE status[t]
             /\ outcome'[t] = IF status[t] = "RUNNING" /\ outcome[t] = "DISPATCHING"
                             THEN "RECONCILIATION_REQUIRED" ELSE outcome[t]
  BY <1>1 DEF Recover, FreshView, Put
<1> SUFFICES ASSUME NEW t \in Tasks \ released
             PROVE  /\ outcome'[t] \in Engaged => status'[t] \notin {"PENDING", "READY"}
                    /\ outcome'[t] = "RECONCILIATION_REQUIRED" => status'[t] # "RUNNING"
  BY <1>1 DEF ReplayInv, Waiting
<1>3. CASE status[t] = "RUNNING"
  <2>1. outcome[t] # "RECONCILIATION_REQUIRED"
    BY <1>3 DEF ReplayInv
  <2> QED
    BY <1>2, <1>3, <2>1 DEF Recovered, Engaged
<1>4. CASE status[t] # "RUNNING"
  BY <1>2, <1>4 DEF ReplayInv, Waiting
<1> QED
  BY <1>3, <1>4

\* Completing a task unblocks others, which nobody has begun.
LEMMA CompleteReplays ==
  ASSUME TypeOK, AgreeInv, ReplayInv, NEW w \in Callers, Complete(w)
  PROVE  ReplayInv'
<1>1. FreshView(w) /\ call[w].task \in Tasks /\ UNCHANGED <<outcome, released>>
  BY DEF Complete, Calling, AgreeInv, StillAccepted, Movers
<1>2. PICK v \in Later(w, {call[w].task}) :
        status' = Put(Put(status, {call[w].task}, "COMPLETED"),
                      Unblocked(Completed(v.status, call[w].task)), "READY")
  BY DEF Complete
<1>3. v.status = status
  BY <1>1, <1>2, LaterFresh
<1>4. ASSUME NEW t \in Tasks
      PROVE  \/ status'[t] = status[t]
             \/ status'[t] = "COMPLETED"
             \/ status[t] = "PENDING" /\ status'[t] = "READY"
  BY <1>2, <1>3 DEF Put, Completed, Unblocked
<1> QED
  BY <1>1, <1>4 DEF ReplayInv, Waiting

\* Whatever else moves a task, makes it ready on purpose or takes it out of the queue.
LEMMA MoveReplays ==
  ASSUME TypeOK, AgreeInv, ReplayInv, NEW w \in Callers,
         Retry(w) \/ Resume(w) \/ Fail(w) \/ Wait(w) \/ Reject(w) \/ Cancel(w)
  PROVE  ReplayInv'
<1>1. outcome' = outcome
  BY DEF Retry, Resume, Fail, Wait, Reject, Cancel
<1>2. CASE Retry(w) \/ Resume(w)
  <2>1. GiveBack(call[w].task)
    BY <1>2 DEF Retry, Resume
  <2> QED
    BY <1>1, <2>1 DEF GiveBack, ReplayInv, Put, Waiting
<1>3. CASE Fail(w) \/ Wait(w) \/ Reject(w) \/ Cancel(w)
  <2>1. released' = released
    BY <1>3 DEF Fail, Wait, Reject, Cancel, ghosts
  <2>2. ASSUME NEW t \in Tasks
        PROVE  status'[t] \in {status[t], "FAILED", "WAITING_APPROVAL", "CANCELLED"}
    BY <1>3 DEF Fail, Wait, Reject, Cancel, Put
  <2> QED
    BY <1>1, <2>1, <2>2 DEF ReplayInv, Waiting
<1> QED
  BY <1>2, <1>3

LEMMA OutcomeReplays ==
  ASSUME TypeOK, AgreeInv, ReplayInv, NEW w \in Callers, SetOutcome(w)
  PROVE  ReplayInv'
<1> DEFINE t == call[w].task
<1>1. status' = status
  BY DEF SetOutcome
<1>2. PICK o \in Reported :
        /\ outcome' = [outcome EXCEPT ![t] = o]
        /\ released' = IF \/ o \in Engaged /\ Waiting(t)
                          \/ o = "RECONCILIATION_REQUIRED" /\ status[t] = "RUNNING"
                       THEN released \cup {t} ELSE released \ {t}
  BY DEF SetOutcome
<1> HIDE DEF t
<1> SUFFICES ASSUME NEW u \in Tasks, u \notin released'
             PROVE  /\ outcome'[u] \in Engaged => status[u] \notin {"PENDING", "READY"}
                    /\ outcome'[u] = "RECONCILIATION_REQUIRED" => status[u] # "RUNNING"
  BY <1>1 DEF ReplayInv, Waiting
<1>3. CASE u = t
  BY <1>2, <1>3 DEF Waiting, TypeOK
<1>4. CASE u # t
  BY <1>2, <1>4 DEF ReplayInv, Waiting, TypeOK
<1> QED
  BY <1>3, <1>4

LEMMA ReplayStep ==
  ASSUME TypeOK, AgreeInv, ReplayInv, [Next]_vars
  PROVE  /\ ReplayInv'
         /\ \A t \in Tasks : attempt'[t] > attempt[t] => Waiting(t)
<1>0. \A t \in Tasks : ~(attempt[t] > attempt[t])
  BY DEF TypeOK
<1>1. ASSUME UNCHANGED <<status, outcome, attempt, released>>
      PROVE  ReplayInv' /\ \A t \in Tasks : attempt'[t] > attempt[t] => Waiting(t)
  BY <1>0, <1>1 DEF ReplayInv, Waiting
<1>2. CASE UNCHANGED vars \/ Deadline
  BY <1>1, <1>2 DEF vars, Deadline, rows, ghosts
<1>3. ASSUME NEW w \in Callers, Read(w) \/ Operation(w) \/ RollBack(w)
      PROVE  ReplayInv' /\ \A t \in Tasks : attempt'[t] > attempt[t] => Waiting(t)
  <2>1. CASE Read(w) \/ RollBack(w) \/ ClaimOverdue(w) \/ Approve(w) \/ Stop(w)
    <3>1. UNCHANGED <<status, outcome, attempt, released>>
      BY <2>1 DEF Read, RollBack, ClaimOverdue, Approve, Stop, rows, ghosts
    <3> QED
      BY <1>1, <3>1
  <2>2. CASE Claim(w)
    BY <2>2, ClaimReplays
  <2>3. CASE Complete(w)
    BY <1>0, <2>3, CompleteReplays DEF Complete
  <2>4. CASE Recover(w)
    BY <1>0, <2>4, RecoverReplays DEF Recover
  <2>5. CASE Retry(w) \/ Resume(w) \/ Fail(w) \/ Wait(w) \/ Reject(w) \/ Cancel(w)
    <3>1. attempt' = attempt
      BY <2>5 DEF Retry, Resume, Fail, Wait, Reject, Cancel
    <3> QED
      BY <1>0, <2>5, <3>1, MoveReplays
  <2>6. CASE SetOutcome(w)
    BY <1>0, <2>6, OutcomeReplays DEF SetOutcome
  <2> QED
    BY <1>3, <2>1, <2>2, <2>3, <2>4, <2>5, <2>6 DEF Operation
<1> QED
  BY <1>2, <1>3 DEF Next

\* ... and no crash, recovery or completion, in whatever order, makes a mission repeat
\* external work that nobody let it repeat.
THEOREM NothingReplayed ==
  ASSUME Serial, Tasks # {}
  PROVE  Spec => ReplayedOnlyOnPurpose
<1>1. TypeOK /\ AgreeInv /\ [Next]_vars => AgreeInv'
  BY AgreeStep
<1>2. Init => ReplayInv
  BY DEF Init, ReplayInv, Engaged
<1>3. TypeOK /\ AgreeInv /\ ReplayInv /\ [Next]_vars => ReplayInv'
  BY ReplayStep
<1>4. TypeOK /\ AgreeInv /\ ReplayInv /\ [Next]_vars =>
        [\A t \in Tasks :
           attempt'[t] > attempt[t] /\ outcome[t] \in Engaged => t \in released]_vars
  BY ReplayStep DEF ReplayInv
<1> QED
  BY MissionTypeCorrect, AgreeInit, <1>1, <1>2, <1>3, <1>4, PTL DEF Spec, ReplayedOnlyOnPurpose

-----------------------------------------------------------------------------
(* Overlapping claims: one attempt goes to one worker *)

\* No operation takes a task that was handed out back to READY on purpose.
NoReturn == Ops \cap {"retry", "resume", "recover"} = {}

AtMostTwo == \A u, v, w \in Callers : u = v \/ v = w \/ u = w

Independent == \A t \in Tasks : DependsOn[t] = {}

\* Where claims may overlap without handing an attempt out twice: one transaction at a
\* time; or nothing comes back, and a stale markReadyTasks has no third transaction to
\* surprise or no dependency to wait for.
ClaimsCannotRace == Serial \/ (NoReturn /\ (AtMostTwo \/ Independent))

\* An attempt that was handed out has been stored, and was handed out once.
HandedOnce ==
  \A t \in Tasks, n \in 1..MaxAttempts :
    claims[t][n] =< 1 /\ (claims[t][n] > 0 => n =< attempt[t])

\* Somebody has claimed t since the transaction of w read it.
Overtaken(w, t) == pc[w] = "read" /\ snap[w].attempt[t] # attempt[t]

\* A task claimed behind a reader's back is in nobody's reach: it is not ready, and no
\* other transaction is about to mark it ready.
OutOfReach(w, t) ==
  /\ status[t] \notin {"PENDING", "READY"}
  /\ \A v \in Callers : v # w /\ pc[v] = "read" => snap[v].status[t] # "PENDING"

\* A task that waits for nothing is never seen pending.
NeverPending(t) ==
  /\ status[t] # "PENDING"
  /\ \A w \in Callers : pc[w] = "read" => snap[w].status[t] # "PENDING"

\* The compare-and-swap of a claim looks at the status alone, so what it stores is the
\* next attempt only if nobody can make a task ready that a reader has seen with an
\* older attempt.
ClaimInv ==
  /\ HandedOnce
  /\ \A w \in Callers : pc[w] = "read" => call[w].op \in Ops
  /\ \A w \in Callers, t \in Tasks : Overtaken(w, t) => ~Serial /\ OutOfReach(w, t)
  /\ \A t \in Tasks : DependsOn[t] = {} => NeverPending(t)

LEMMA ClaimInit == Init => ClaimInv
<1> SUFFICES ASSUME Init PROVE ClaimInv
  OBVIOUS
<1>1. HandedOnce
  BY MissionAssumption DEF Init, HandedOnce
<1> QED
  BY <1>1 DEF Init, ClaimInv, Overtaken, NeverPending

\* What a claim that goes through stores: the next attempt of the task.
LEMMA ClaimIsNext ==
  ASSUME TypeOK, ClaimInv, NEW w \in Callers, Claim(w)
  PROVE  \/ UNCHANGED <<attempt, claims>>
         \/ \E t \in Tasks :
              /\ attempt[t] + 1 \in 1..MaxAttempts
              /\ attempt' = [attempt EXCEPT ![t] = attempt[t] + 1]
              /\ claims' = [claims EXCEPT ![t] =
                   [claims[t] EXCEPT ![attempt[t] + 1] = claims[t][attempt[t] + 1] + 1]]
              /\ status'[t] = "RUNNING"
<1> DEFINE ready == Unblocked(snap[w].status)
           marked == Put(status, ready, "READY")
<1>1. PICK v \in Later(w, ready) :
        LET st == Put(v.status, ready, "READY")
            t  == Candidate(st)
            n  == v.attempt[t] + 1
        IN /\ HasReady(st)
           /\ WithinAttempts(n)
           /\ IF StillReady(t, ready)
              THEN /\ status' = [marked EXCEPT ![t] = "RUNNING"]
                   /\ attempt' = [attempt EXCEPT ![t] = n]
                   /\ claims' = [claims EXCEPT ![t] = [claims[t] EXCEPT ![n] = claims[t][n] + 1]]
              ELSE UNCHANGED <<attempt, claims>>
  BY DEF Claim
<1> DEFINE t == Candidate(Put(v.status, ready, "READY"))
<1>2. pc[w] = "read" /\ t \in Tasks
  BY <1>1, CandidateReady DEF Claim, Calling
<1>3. CASE ~StillReady(t, ready)
  BY <1>1, <1>3
<1>4. CASE StillReady(t, ready)
  <2>1. v.attempt[t] = attempt[t]
    <3>1. v = Current \/ (v = snap[w] /\ \A u \in ready : v.attempt[u] = attempt[u])
      BY DEF Later
    <3>2. CASE t \in ready
      BY <3>1, <3>2 DEF Current
    <3>3. CASE status[t] = "READY"
      <4>1. ~Overtaken(w, t)
        BY <1>2, <3>3 DEF ClaimInv, OutOfReach
      <4> QED
        BY <1>2, <3>1, <4>1 DEF Overtaken, Current
    <3> QED
      BY <1>4, <3>2, <3>3 DEF StillReady
  <2>2. attempt[t] + 1 \in 1..MaxAttempts
    <3>1. attempt[t] + 1 =< MaxAttempts
      BY <1>1, <2>1 DEF WithinAttempts
    <3>2. attempt[t] \in 0..MaxAttempts
      BY <1>2 DEF TypeOK
    <3> HIDE DEF t
    <3> QED
      BY <3>1, <3>2, MissionAssumption
  <2>3. /\ attempt' = [attempt EXCEPT ![t] = attempt[t] + 1]
        /\ claims' = [claims EXCEPT ![t] =
             [claims[t] EXCEPT ![attempt[t] + 1] = claims[t][attempt[t] + 1] + 1]]
        /\ status' = [marked EXCEPT ![t] = "RUNNING"]
    BY <1>1, <1>4, <2>1
  <2>4. status'[t] = "RUNNING"
    <3>1. t \in DOMAIN marked
      BY <1>2 DEF Put
    <3> HIDE DEF marked, t
    <3> QED
      BY <2>3, <3>1
  <2> HIDE DEF t
  <2> QED
    BY <1>2, <2>2, <2>3, <2>4
<1> QED
  BY <1>3, <1>4

\* The other transactions store no attempt.
LEMMA OthersStoreNoAttempt ==
  ASSUME NEW w \in Callers, Operation(w) \/ RollBack(w), ~Claim(w)
  PROVE  UNCHANGED <<attempt, claims>>
BY DEF Operation, RollBack, ClaimOverdue, SetOutcome, Complete, Retry, Fail, Wait, Approve,
       Reject, Resume, Recover, Cancel, Stop, rows, ghosts

\* Where nothing comes back, a transaction makes a task ready only if it was pending, or
\* was pending when the transaction read it.
LEMMA ReadyFromPending ==
  ASSUME TypeOK, ClaimInv, NoReturn, NEW w \in Callers, Operation(w) \/ RollBack(w),
         NEW t \in Tasks, status[t] \notin {"PENDING", "READY"},
         snap[w].status[t] # "PENDING"
  PROVE  status'[t] \notin {"PENDING", "READY"}
<1>1. CASE Claim(w)
  <2> DEFINE ready == Unblocked(snap[w].status)
             marked == Put(status, ready, "READY")
  <2>1. PICK u : status' = [marked EXCEPT ![u] = "RUNNING"] \/ status' = marked
    BY <1>1 DEF Claim
  <2>2. t \notin ready
    BY DEF Unblocked
  <2>3. marked[t] = status[t] /\ t \in DOMAIN marked
    BY <2>2 DEF Put
  <2> HIDE DEF marked
  <2> QED
    BY <2>1, <2>3
<1>2. CASE Complete(w)
  <2>1. PICK v \in Later(w, {call[w].task}) :
          status' = Put(Put(status, {call[w].task}, "COMPLETED"),
                        Unblocked(Completed(v.status, call[w].task)), "READY")
    BY <1>2 DEF Complete
  <2>2. v.status[t] # "PENDING"
    BY DEF Later, Current
  <2>3. t \notin Unblocked(Completed(v.status, call[w].task))
    BY <2>2 DEF Unblocked, Completed, Put
  <2> QED
    BY <2>1, <2>3 DEF Put
<1>3. CASE Fail(w) \/ Wait(w) \/ Reject(w) \/ Cancel(w)
  BY <1>3 DEF Fail, Wait, Reject, Cancel, Put
<1>4. CASE ClaimOverdue(w) \/ SetOutcome(w) \/ Approve(w) \/ Stop(w) \/ RollBack(w)
  BY <1>4 DEF ClaimOverdue, SetOutcome, Approve, Stop, RollBack, rows
<1>5. ~(Retry(w) \/ Resume(w) \/ Recover(w))
  BY DEF Retry, Resume, Recover, Calling, ClaimInv, NoReturn
<1> QED
  BY <1>1, <1>2, <1>3, <1>4, <1>5 DEF Operation

\* Nothing becomes pending.
LEMMA NothingPends ==
  ASSUME TypeOK, NEW w \in Callers, Operation(w) \/ RollBack(w), NEW t \in Tasks,
         status[t] # "PENDING"
  PROVE  status'[t] # "PENDING"
<1>1. CASE Claim(w)
  <2> DEFINE marked == Put(status, Unblocked(snap[w].status), "READY")
  <2>1. PICK u : status' = [marked EXCEPT ![u] = "RUNNING"] \/ status' = marked
    BY <1>1 DEF Claim
  <2>2. marked[t] # "PENDING" /\ t \in DOMAIN marked
    BY DEF Put
  <2> HIDE DEF marked
  <2> QED
    BY <2>1, <2>2
<1>2. CASE Complete(w)
  BY <1>2 DEF Complete, Put
<1>3. CASE Recover(w)
  BY <1>3 DEF Recover, Recovered
<1>4. CASE Retry(w) \/ Fail(w) \/ Wait(w) \/ Reject(w) \/ Resume(w) \/ Cancel(w)
  BY <1>4 DEF Retry, GiveBack, Fail, Wait, Reject, Resume, Cancel, Put
<1>5. CASE ClaimOverdue(w) \/ SetOutcome(w) \/ Approve(w) \/ Stop(w) \/ RollBack(w)
  BY <1>5 DEF ClaimOverdue, SetOutcome, Approve, Stop, RollBack, rows
<1> QED
  BY <1>1, <1>2, <1>3, <1>4, <1>5 DEF Operation

LEMMA ClaimReadKeeps ==
  ASSUME TypeOK, ClaimInv, NEW w \in Callers, Read(w)
  PROVE  ClaimInv'
<1>1. UNCHANGED <<status, attempt, claims>>
  BY DEF Read, rows, ghosts
<1>2. pc'[w] = "read" /\ snap'[w] = Current /\ call'[w].op \in Ops
  BY DEF Read, TypeOK
<1>3. \A v \in Callers : v # w => pc'[v] = pc[v] /\ snap'[v] = snap[v] /\ call'[v] = call[v]
  BY DEF Read, TypeOK
<1>4. HandedOnce'
  BY <1>1 DEF ClaimInv, HandedOnce
<1>5. \A v \in Callers : pc'[v] = "read" => call'[v].op \in Ops
  BY <1>2, <1>3 DEF ClaimInv
<1>6. ASSUME NEW v \in Callers, NEW t \in Tasks, pc'[v] = "read",
             snap'[v].attempt[t] # attempt'[t]
      PROVE  /\ ~Serial
             /\ status'[t] \notin {"PENDING", "READY"}
             /\ \A u \in Callers : u # v /\ pc'[u] = "read" => snap'[u].status[t] # "PENDING"
  <2>1. v # w
    BY <1>1, <1>2, <1>6 DEF Current
  <2>2. Overtaken(v, t)
    BY <1>1, <1>3, <1>6, <2>1 DEF Overtaken
  <2>3. ~Serial /\ OutOfReach(v, t)
    BY <2>2 DEF ClaimInv
  <2> QED
    BY <1>1, <1>2, <1>3, <2>3 DEF OutOfReach, Current
<1>7. ASSUME NEW t \in Tasks, DependsOn[t] = {}
      PROVE  /\ status'[t] # "PENDING"
             /\ \A v \in Callers : pc'[v] = "read" => snap'[v].status[t] # "PENDING"
  BY <1>1, <1>2, <1>3, <1>7 DEF ClaimInv, NeverPending, Current
<1> QED
  BY <1>4, <1>5, <1>6, <1>7 DEF ClaimInv, Overtaken, OutOfReach, NeverPending

LEMMA ClaimEndKeeps ==
  ASSUME TypeOK, ClaimInv, ClaimsCannotRace, NEW w \in Callers, Operation(w) \/ RollBack(w)
  PROVE  ClaimInv'
<1>1. End(w) /\ pc[w] = "read"
  BY DEF Operation, RollBack, ClaimOverdue, Claim, SetOutcome, Complete, Retry, Fail, Wait,
         Approve, Reject, Resume, Recover, Cancel, Stop, Calling
<1>2. pc'[w] # "read"
      /\ \A v \in Callers : v # w => pc'[v] = pc[v] /\ snap'[v] = snap[v] /\ call'[v] = call[v]
  BY <1>1 DEF End, TypeOK
<1>3. \/ UNCHANGED <<attempt, claims>>
      \/ \E t \in Tasks :
           /\ attempt[t] + 1 \in 1..MaxAttempts
           /\ attempt' = [attempt EXCEPT ![t] = attempt[t] + 1]
           /\ claims' = [claims EXCEPT ![t] =
                [claims[t] EXCEPT ![attempt[t] + 1] = claims[t][attempt[t] + 1] + 1]]
           /\ status'[t] = "RUNNING"
  BY ClaimIsNext, OthersStoreNoAttempt
<1>4. HandedOnce'
  <2>1. CASE UNCHANGED <<attempt, claims>>
    BY <2>1 DEF ClaimInv, HandedOnce
  <2>2. ASSUME NEW t \in Tasks,
               attempt[t] + 1 \in 1..MaxAttempts,
               attempt' = [attempt EXCEPT ![t] = attempt[t] + 1],
               claims' = [claims EXCEPT ![t] =
                 [claims[t] EXCEPT ![attempt[t] + 1] = claims[t][attempt[t] + 1] + 1]]
        PROVE  HandedOnce'
    <3> SUFFICES ASSUME NEW u \in Tasks, NEW n \in 1..MaxAttempts
                 PROVE  claims'[u][n] =< 1 /\ (claims'[u][n] > 0 => n =< attempt'[u])
      BY DEF HandedOnce
    <3>1. claims[u][n] \in Nat /\ claims[u][n] =< 1 /\ (claims[u][n] > 0 => n =< attempt[u])
      BY DEF ClaimInv, HandedOnce, TypeOK
    <3>2. attempt[u] \in Nat /\ attempt[t] \in Nat
      BY DEF TypeOK
    <3>3. CASE u # t
      <4>1. claims'[u] = claims[u] /\ attempt'[u] = attempt[u]
        BY <2>2, <3>3 DEF TypeOK
      <4> QED
        BY <3>1, <4>1
    <3>4. CASE u = t
      <4>1. attempt'[t] = attempt[t] + 1
        BY <2>2 DEF TypeOK
      <4>2. claims'[t] = [claims[t] EXCEPT ![attempt[t] + 1] = claims[t][attempt[t] + 1] + 1]
        BY <2>2 DEF TypeOK
      <4>3. claims[t] \in [1..MaxAttempts -> Nat]
        BY DEF TypeOK
      <4>4. CASE n = attempt[t] + 1
        <5>1. claims[t][n] = 0
          BY <3>1, <3>2, <3>4, <4>4
        <5>2. claims'[t] = [claims[t] EXCEPT ![n] = claims[t][n] + 1]
          BY <4>2, <4>4
        <5>3. claims'[t][n] = 1
          <6>1. claims[t][n] + 1 = 1
            BY <5>1
          <6>2. n \in DOMAIN claims[t]
            BY <4>3
          <6> QED
            BY <5>2, <6>1, <6>2, Zenon
        <5> QED
          BY <3>2, <3>4, <4>1, <4>4, <5>3
      <4>5. CASE n # attempt[t] + 1
        <5>1. claims'[t][n] = claims[t][n]
          BY <4>2, <4>3, <4>5
        <5> QED
          BY <3>1, <3>2, <3>4, <4>1, <5>1
      <4> QED
        BY <4>4, <4>5
    <3> QED
      BY <3>3, <3>4
  <2> QED
    BY <1>3, <2>1, <2>2
<1>5. \A v \in Callers : pc'[v] = "read" => call'[v].op \in Ops
  BY <1>2 DEF ClaimInv
<1>6. ASSUME NEW v \in Callers, NEW t \in Tasks, pc'[v] = "read",
             snap'[v].attempt[t] # attempt'[t]
      PROVE  /\ ~Serial
             /\ status'[t] \notin {"PENDING", "READY"}
             /\ \A u \in Callers : u # v /\ pc'[u] = "read" => snap'[u].status[t] # "PENDING"
  <2>1. v # w /\ pc[v] = "read" /\ snap'[v] = snap[v] /\ ~Serial
    BY <1>2, <1>6 DEF Serial
  <2>2. NoReturn /\ (AtMostTwo \/ Independent)
    BY <2>1 DEF ClaimsCannotRace
  <2>3. CASE attempt'[t] = attempt[t]
    <3>1. OutOfReach(v, t)
      BY <1>6, <2>1, <2>3 DEF ClaimInv, Overtaken
    <3>2. status'[t] \notin {"PENDING", "READY"}
      BY <1>1, <2>1, <2>2, <3>1, ReadyFromPending DEF OutOfReach
    <3> QED
      BY <1>2, <2>1, <3>1, <3>2 DEF OutOfReach
  <2>4. CASE attempt'[t] # attempt[t]
    <3>1. status'[t] = "RUNNING"
      BY <1>3, <2>4 DEF TypeOK
    <3>2. ASSUME NEW u \in Callers, u # v, pc'[u] = "read"
          PROVE  snap'[u].status[t] # "PENDING"
      <4>1. u # w /\ pc[u] = "read" /\ snap'[u] = snap[u]
        BY <1>2, <3>2
      <4>2. Independent
        BY <2>1, <2>2, <3>2, <4>1 DEF AtMostTwo
      <4> QED
        BY <4>1, <4>2 DEF Independent, ClaimInv, NeverPending
    <3> QED
      BY <2>1, <3>1, <3>2
  <2> QED
    BY <2>3, <2>4
<1>7. ASSUME NEW t \in Tasks, DependsOn[t] = {}
      PROVE  /\ status'[t] # "PENDING"
             /\ \A v \in Callers : pc'[v] = "read" => snap'[v].status[t] # "PENDING"
  BY <1>2, <1>7, NothingPends DEF ClaimInv, NeverPending
<1> QED
  BY <1>4, <1>5, <1>6, <1>7 DEF ClaimInv, Overtaken, OutOfReach, NeverPending

LEMMA ClaimStep == ClaimsCannotRace /\ TypeOK /\ ClaimInv /\ [Next]_vars => ClaimInv'
<1> SUFFICES ASSUME ClaimsCannotRace, TypeOK, ClaimInv, [Next]_vars PROVE ClaimInv'
  OBVIOUS
<1>1. CASE Deadline \/ UNCHANGED vars
  <2>1. UNCHANGED <<status, attempt, pc, call, snap, claims>>
    BY <1>1 DEF Deadline, vars, rows, tx, ghosts
  <2> QED
    BY <2>1 DEF ClaimInv, HandedOnce, Overtaken, OutOfReach, NeverPending
<1>2. ASSUME NEW w \in Callers, Read(w) \/ Operation(w) \/ RollBack(w) PROVE ClaimInv'
  BY <1>2, ClaimReadKeeps, ClaimEndKeeps
<1> QED
  BY <1>1, <1>2 DEF Next

\* An attempt of a task is handed to one worker (mission-runtime.ts:253) as long as two
\* transactions at most overlap, or no task waits for another, and nothing is retried,
\* resumed or recovered meanwhile; and always when transactions do not overlap.
THEOREM ClaimsCorrect ==
  ASSUME ClaimsCannotRace
  PROVE  Spec => []ClaimedOnce
<1>1. TypeOK /\ ClaimInv /\ [Next]_vars => ClaimInv'
  BY ClaimStep
<1>2. ClaimInv => ClaimedOnce
  BY DEF ClaimInv, HandedOnce, ClaimedOnce
<1> QED
  BY MissionTypeCorrect, ClaimInit, <1>1, <1>2, PTL DEF Spec
-----------------------------------------------------------------------------
(* One transaction at a time: the mission is a workflow *)

Completes(S) ==
  \A t \in Tasks : status'[t] = "COMPLETED" <=> status[t] = "COMPLETED" \/ t \in S

Runs(S) == \A t \in Tasks : status'[t] = "RUNNING" => status[t] = "RUNNING" \/ t \in S

CancelsNothing == \A t \in Tasks : status'[t] = "CANCELLED" => status[t] = "CANCELLED"

KeepsOpen == mission' = mission \/ (mission \notin Ended /\ mission' \notin Ended)

\* What a step can mean for the workflow: nothing, ...
Still ==
  /\ Completes({}) /\ Runs({}) /\ CancelsNothing /\ KeepsOpen
  /\ UNCHANGED <<attempt, claims, finished>>

\* ... the next attempt of t begins, ...
HandsOut(t) ==
  /\ status[t] # "COMPLETED"
  /\ \A d \in DependsOn[t] : status[d] = "COMPLETED"
  /\ mission \notin Ended /\ mission' \notin Ended
  /\ attempt[t] + 1 \in 1..MaxAttempts
  /\ attempt' = [attempt EXCEPT ![t] = attempt[t] + 1]
  /\ claims' = [claims EXCEPT ![t] =
       [claims[t] EXCEPT ![attempt[t] + 1] = claims[t][attempt[t] + 1] + 1]]
  /\ Completes({}) /\ Runs({t}) /\ CancelsNothing
  /\ UNCHANGED finished

\* ... the tasks of S are done, ...
ReportsOn(S) ==
  /\ S \subseteq Tasks /\ S # {}
  /\ \A t \in S : status[t] = "RUNNING"
  /\ Completes(S) /\ Runs({}) /\ CancelsNothing
  /\ finished' = finished \cup S
  /\ UNCHANGED <<attempt, claims>>
  /\ IF \A t \in Tasks : status'[t] = "COMPLETED"
     THEN mission \notin Ended /\ mission' = "COMPLETED"
     ELSE KeepsOpen \/ (mission \notin Ended /\ mission' = "FAILED")

\* ... or the mission ends without having done everything.
Stops ==
  /\ mission \notin Ended
  /\ \/ mission' = "FAILED" /\ CancelsNothing
     \/ mission' = "CANCELLED" /\ \A t \in Tasks : status'[t] # "RUNNING"
  /\ Completes({}) /\ Runs({})
  /\ UNCHANGED <<attempt, claims, finished>>

\* The attempts that were stored have been handed out, one after the other.
HandedInOrder ==
  /\ \A t \in Tasks, n \in 1..MaxAttempts : n =< attempt[t] => claims[t][n] = 1
  /\ \A t \in Tasks : status[t] = "RUNNING" => attempt[t] > 0

\* Tasks are cancelled with their mission, and then nothing is under way.
CancelledTogether ==
  /\ mission = "CANCELLED" => \A t \in Tasks : status[t] # "RUNNING"
  /\ mission # "CANCELLED" => \A t \in Tasks : status[t] # "CANCELLED"

\* What else the open transaction has checked.
StillDue(w) ==
  /\ call[w].op = "complete" => status[call[w].task] = "RUNNING"
  /\ call[w].op \in {"cancel", "stop"} => mission \notin Ended

WorkInv ==
  /\ TypeOK /\ DependencyInv /\ AgreeInv /\ ClaimInv
  /\ HandedInOrder
  /\ CancelledTogether
  /\ \A t \in finished : status[t] = "COMPLETED"
  /\ \A w \in Callers : pc[w] = "read" => StillDue(w)

LEMMA WorkInit == ASSUME Tasks # {} PROVE Init => WorkInv
<1> SUFFICES ASSUME Init PROVE WorkInv
  OBVIOUS
<1>1. TypeOK /\ DependencyInv /\ AgreeInv /\ ClaimInv
  BY TypeInit, DependencyInit, AgreeInit, ClaimInit
<1>2. HandedInOrder
  <2> SUFFICES ASSUME NEW t \in Tasks, NEW n \in 1..MaxAttempts, n =< attempt[t]
               PROVE  FALSE
    BY DEF HandedInOrder, Init
  <2> QED
    BY MissionAssumption DEF Init
<1>3. CancelledTogether
  BY DEF Init, CancelledTogether
<1> QED
  BY <1>1, <1>2, <1>3 DEF Init, WorkInv

\* A claim hands out the next attempt of a task whose dependencies are completed.
LEMMA ClaimHandsOut ==
  ASSUME WorkInv, NEW w \in Callers, Claim(w)
  PROVE  Still \/ \E t \in Tasks : HandsOut(t)
<1> DEFINE ready == Unblocked(status)
           marked == Put(status, ready, "READY")
<1>1. FreshView(w) /\ mission \in Open /\ pc[w] = "read"
  BY DEF Claim, Calling, WorkInv, AgreeInv, StillAccepted
<1>2. PICK v \in Later(w, ready) :
        LET st == Put(v.status, ready, "READY")
            t  == Candidate(st)
            n  == v.attempt[t] + 1
        IN /\ HasReady(st)
           /\ WithinAttempts(n)
           /\ \/ /\ status' = [marked EXCEPT ![t] = "RUNNING"]
                 /\ attempt' = [attempt EXCEPT ![t] = n]
                 /\ mission' = IF mission = "RUNNING" THEN mission ELSE "RUNNING"
                 /\ claims' = [claims EXCEPT ![t] = [claims[t] EXCEPT ![n] = claims[t][n] + 1]]
              \/ status' = marked /\ UNCHANGED <<attempt, mission, claims>>
  BY <1>1 DEF Claim, FreshView
<1>3. v.status = status
  BY <1>1, <1>2, LaterFresh
<1> DEFINE t == Candidate(marked)
           n == attempt[t] + 1
<1>4. HasReady(marked) /\ t \in Tasks /\ marked[t] = "READY"
  BY <1>2, <1>3, CandidateReady
<1>5. marked = [u \in Tasks |-> IF u \in ready THEN "READY" ELSE status[u]]
  BY DEF Put
<1>6. \A u \in Tasks : /\ marked[u] = "COMPLETED" <=> status[u] = "COMPLETED"
                       /\ marked[u] = "RUNNING" => status[u] = "RUNNING"
                       /\ marked[u] = "CANCELLED" => status[u] = "CANCELLED"
  BY <1>5 DEF Unblocked
<1>7. finished' = finished
  BY DEF Claim
<1>8. mission \notin Ended
  BY <1>1 DEF Open, Ended
<1>9. CASE status' = marked /\ UNCHANGED <<attempt, mission, claims>>
  BY <1>6, <1>7, <1>9 DEF Still, Completes, Runs, CancelsNothing, KeepsOpen
<1>10. CASE ~(status' = marked /\ UNCHANGED <<attempt, mission, claims>>)
  <2>1. v.attempt[t] = attempt[t]
    <3>1. v = Current \/ v = snap[w]
      BY <1>2 DEF Later
    <3>2. CASE v = snap[w] /\ Overtaken(w, t)
      <4>1. status[t] \notin {"PENDING", "READY"}
        BY <1>4, <3>2 DEF WorkInv, ClaimInv, OutOfReach
      <4> QED
        BY <1>4, <1>5, <4>1 DEF Unblocked
    <3> QED
      BY <1>1, <3>1, <3>2 DEF Current, Overtaken
  <2>2. /\ WithinAttempts(n)
        /\ status' = [marked EXCEPT ![t] = "RUNNING"]
        /\ attempt' = [attempt EXCEPT ![t] = n]
        /\ mission' = IF mission = "RUNNING" THEN mission ELSE "RUNNING"
        /\ claims' = [claims EXCEPT ![t] = [claims[t] EXCEPT ![n] = claims[t][n] + 1]]
    BY <1>2, <1>3, <1>10, <2>1
  <2>3. n \in 1..MaxAttempts
    <3>1. attempt[t] \in 0..MaxAttempts
      BY <1>4 DEF WorkInv, TypeOK
    <3>2. n =< MaxAttempts
      BY <2>2 DEF WithinAttempts
    <3> HIDE DEF t
    <3> QED
      BY <3>1, <3>2, MissionAssumption
  <2>4. \A d \in DependsOn[t] : status[d] = "COMPLETED"
    <3>1. CASE t \in ready
      BY <3>1 DEF Unblocked
    <3>2. CASE t \notin ready
      <4>1. status[t] = "READY"
        BY <1>4, <1>5, <3>2
      <4>2. DependsOn[t] \subseteq finished
        BY <1>4, <4>1 DEF WorkInv, DependencyInv, Justified
      <4> QED
        BY <4>2 DEF WorkInv
    <3> QED
      BY <3>1, <3>2
  <2>5. status[t] # "COMPLETED"
    BY <1>4, <1>6
  <2>6. mission' \notin Ended
    BY <1>1, <2>2 DEF Ended
  <2>7. Completes({}) /\ Runs({t}) /\ CancelsNothing
    <3> HIDE DEF t, marked
    <3>1. \A u \in Tasks : status'[u] = IF u = t THEN "RUNNING" ELSE marked[u]
      BY <1>4, <1>5, <2>2
    <3> QED
      BY <1>6, <2>5, <3>1 DEF Completes, Runs, CancelsNothing
  <2> HIDE DEF t
  <2> QED
    BY <1>4, <1>7, <1>8, <2>2, <2>3, <2>4, <2>5, <2>6, <2>7 DEF HandsOut
<1> QED
  BY <1>9, <1>10
\* A verdict that is concluded in an open or failed mission.
LEMMA ConcludeEnds ==
  ASSUME TypeOK, NEW verdict, Conclude(mission, verdict)
  PROVE  /\ verdict = "COMPLETED" => mission' = "COMPLETED" /\ mission \in {"RUNNING", "COMPLETED"}
         /\ verdict = "NONE" => mission' = mission
         /\ verdict = "FAILED" =>
              mission' = "FAILED" /\ (mission = "FAILED" \/ mission \notin Ended)
         /\ verdict \in {"RUNNING", "WAITING_APPROVAL"} =>
              mission' = mission \/ (mission \notin Ended /\ mission' \notin Ended)
BY DEF Conclude, MissionAllowed, MissionTransitions, Ended, TypeOK, MissionStatus

\* A completion, or a recovery that found confirmed work, reports these tasks; the one
\* that leaves nothing to do completes the mission.
LEMMA ReportConcludes ==
  ASSUME WorkInv, NEW S \in SUBSET Tasks, S # {}, \A t \in S : status[t] = "RUNNING",
         Completes(S), CancelsNothing,
         \/ Conclude(mission, Verdict(status'))
         \/ Verdict(status') = "NONE" /\ KeepsOpen
  PROVE  IF \A t \in Tasks : status'[t] = "COMPLETED"
         THEN mission \notin Ended /\ mission' = "COMPLETED"
         ELSE KeepsOpen \/ (mission \notin Ended /\ mission' = "FAILED")
<1>1. mission \notin Final
  BY DEF WorkInv, CancelledTogether, AgreeInv, CompletedMeansDone, Final, Done
<1>2. CASE \A t \in Tasks : status'[t] = "COMPLETED"
  <2>1. Verdict(status') = "COMPLETED"
    BY <1>2, VerdictMeans
  <2>2. mission' = "COMPLETED" /\ mission = "RUNNING"
    BY <1>1, <2>1, ConcludeEnds DEF WorkInv, Final
  <2> QED
    BY <1>2, <2>2 DEF Ended
<1>3. CASE ~(\A t \in Tasks : status'[t] = "COMPLETED")
  <2>1. Verdict(status') # "COMPLETED"
    <3>1. \A t \in Tasks : status'[t] # "CANCELLED"
      BY <1>1 DEF CancelsNothing, WorkInv, CancelledTogether, Final
    <3> QED
      BY <1>3, <3>1, VerdictMeans DEF Done
  <2>2. Verdict(status') \in {"NONE", "FAILED"}
    BY <2>1, VerdictMeans
  <2> QED
    BY <1>3, <2>2, ConcludeEnds DEF WorkInv, KeepsOpen
<1> QED
  BY <1>2, <1>3

LEMMA CompleteReports ==
  ASSUME WorkInv, NEW w \in Callers, Complete(w)
  PROVE  ReportsOn({call[w].task})
<1> DEFINE t == call[w].task
           st == Completed(status, t)
<1>1. FreshView(w) /\ t \in Tasks /\ status[t] = "RUNNING"
  BY DEF Complete, Calling, WorkInv, AgreeInv, StillAccepted, Movers, StillDue
<1>2. status' = MarkReady(st) /\ Conclude(mission, Verdict(MarkReady(st)))
  BY <1>1, LaterFresh DEF Complete, MarkReady, Completed
<1>3. \A u \in Tasks : status'[u] = IF u \in Unblocked(st) THEN "READY"
                                    ELSE IF u = t THEN "COMPLETED" ELSE status[u]
  BY <1>2 DEF MarkReady, Completed, Put
<1>4. \A u \in Unblocked(st) : u # t /\ status[u] = "PENDING"
  BY DEF Unblocked, Completed, Put
<1>5. Completes({t}) /\ Runs({}) /\ CancelsNothing
  BY <1>3, <1>4 DEF Completes, Runs, CancelsNothing
<1>6. UNCHANGED <<attempt, claims>> /\ finished' = finished \cup {t}
  BY DEF Complete
<1>7. {t} \in SUBSET Tasks /\ {t} # {} /\ \A u \in {t} : status[u] = "RUNNING"
  BY <1>1
<1>8. Conclude(mission, Verdict(status'))
  BY <1>2
<1> HIDE DEF t
<1>9. IF \A u \in Tasks : status'[u] = "COMPLETED"
      THEN mission \notin Ended /\ mission' = "COMPLETED"
      ELSE KeepsOpen \/ (mission \notin Ended /\ mission' = "FAILED")
  BY <1>5, <1>7, <1>8, ReportConcludes
<1>10. ReportsOn({t})
  BY <1>5, <1>6, <1>7, <1>9 DEF ReportsOn
<1> QED
  BY <1>10 DEF t

LEMMA RecoverReports ==
  ASSUME WorkInv, NEW w \in Callers, Recover(w)
  PROVE  Still \/ \E S \in SUBSET Tasks : ReportsOn(S)
<1> DEFINE stuck == {t \in Tasks : status[t] = "RUNNING"}
           with(o) == {t \in stuck : outcome[t] = o}
           st == [t \in Tasks |-> IF t \in stuck THEN Recovered(outcome[t]) ELSE status[t]]
           S == with("CONFIRMED")
<1>1. FreshView(w)
  BY DEF Recover, Calling, WorkInv, AgreeInv
<1>2. status' = st /\ finished' = finished \cup S /\ UNCHANGED <<attempt, claims>>
  BY <1>1 DEF Recover, FreshView
<1>3. \/ S # {} /\ Conclude(mission, Verdict(st))
      \/ /\ S = {} \/ Verdict(st) = "NONE"
         /\ \/ mission' = mission
            \/ mission = "RUNNING" /\ mission' \in {"BLOCKED", "RETRYING"}
  <2>1. PICK v \in Later(w, {t \in Tasks : snap[w].status[t] = "RUNNING"}) :
          IF S # {} /\ Verdict([t \in Tasks |-> IF t \in stuck
                                THEN Recovered(outcome[t]) ELSE v.status[t]]) # "NONE"
          THEN Conclude(v.mission, Verdict([t \in Tasks |-> IF t \in stuck
                                THEN Recovered(outcome[t]) ELSE v.status[t]]))
          ELSE mission' = IF with("DISPATCHING") # {} /\ mission = "RUNNING"
                          THEN "BLOCKED"
                          ELSE IF with("NOT_STARTED") # {} /\ v.mission = "RUNNING"
                          THEN "RETRYING" ELSE mission
    BY <1>1 DEF Recover, FreshView
  <2>2. v.status = status /\ v.mission = mission
    BY <1>1, <2>1, LaterFresh
  <2> QED
    BY <2>1, <2>2
<1>4. \A t \in stuck : Recovered(outcome[t]) \in {"COMPLETED", "BLOCKED", "READY"}
                       /\ (Recovered(outcome[t]) = "COMPLETED" <=> outcome[t] = "CONFIRMED")
  BY DEF Recovered
<1>5. Completes(S) /\ Runs({}) /\ CancelsNothing
  BY <1>2, <1>4 DEF Completes, Runs, CancelsNothing
<1>6. S \in SUBSET Tasks /\ \A t \in S : status[t] = "RUNNING"
  OBVIOUS
<1>7. S # {} => \/ Conclude(mission, Verdict(status'))
                \/ Verdict(status') = "NONE" /\ KeepsOpen
  BY <1>2, <1>3 DEF KeepsOpen, Ended
<1>8. S = {} => KeepsOpen
  BY <1>3 DEF KeepsOpen, Ended
<1> HIDE DEF S
<1>9. CASE S = {}
  BY <1>2, <1>5, <1>8, <1>9 DEF Still
<1>10. CASE S # {}
  <2>1. IF \A u \in Tasks : status'[u] = "COMPLETED"
        THEN mission \notin Ended /\ mission' = "COMPLETED"
        ELSE KeepsOpen \/ (mission \notin Ended /\ mission' = "FAILED")
    BY <1>5, <1>6, <1>7, <1>10, ReportConcludes
  <2> QED
    BY <1>2, <1>5, <1>6, <1>10, <2>1 DEF ReportsOn
<1> QED
  BY <1>9, <1>10

\* An operation that takes one open task to a status that is no end.
LEMMA MoveStops ==
  ASSUME WorkInv, NEW w \in Callers,
         Retry(w) \/ Fail(w) \/ Wait(w) \/ Reject(w) \/ Resume(w)
  PROVE  Still \/ Stops
<1> DEFINE t == call[w].task
<1>1. FreshView(w) /\ t \in Tasks /\ status[t] \notin Done
  BY DEF Retry, GiveBack, Fail, Wait, Reject, Resume, Calling, WorkInv, AgreeInv, StillAccepted, Movers
<1>2. UNCHANGED <<attempt, claims, finished>>
  BY DEF Retry, GiveBack, Fail, Wait, Reject, Resume, ghosts
<1>3. Completes({}) /\ Runs({}) /\ CancelsNothing
  <2>1. \E v \in {"READY", "FAILED", "WAITING_APPROVAL"} : status' = Put(status, {t}, v)
    BY DEF Retry, GiveBack, Fail, Wait, Reject, Resume
  <2> QED
    BY <1>1, <2>1 DEF Put, Completes, Runs, CancelsNothing, Done
<1>4. \/ mission' = IF mission = "RUNNING" THEN "RETRYING" ELSE mission
      \/ Conclude(mission, "WAITING_APPROVAL") \/ Conclude(mission, "FAILED")
      \/ Conclude(mission, "RUNNING")
      \/ Conclude(mission, Verdict(Put(status, {t}, "FAILED")))
  BY <1>1, LaterFresh DEF Retry, GiveBack, Fail, Wait, Reject, Resume
<1>5. Verdict(Put(status, {t}, "FAILED")) \in {"NONE", "FAILED"}
  <2>1. Put(status, {t}, "FAILED")[t] = "FAILED"
    BY <1>1 DEF Put
  <2> QED
    BY <1>1, <2>1, VerdictMeans DEF Done
<1>6. KeepsOpen \/ (mission \notin Ended /\ mission' = "FAILED")
  <2> HIDE DEF t
  <2> QED
    BY <1>4, <1>5, ConcludeEnds DEF WorkInv, KeepsOpen, Ended
<1> QED
  BY <1>2, <1>3, <1>6 DEF Still, Stops

LEMMA EndStops ==
  ASSUME WorkInv, NEW w \in Callers, ClaimOverdue(w) \/ Cancel(w) \/ Stop(w)
  PROVE  Stops
<1>1. mission \notin Ended
  BY DEF ClaimOverdue, Cancel, Stop, Calling, WorkInv, AgreeInv, StillAccepted, StillDue,
         Open, Ended
<1>2. UNCHANGED <<attempt, claims, finished>>
  BY DEF ClaimOverdue, Cancel, Stop, rows, ghosts
<1>3. CASE ClaimOverdue(w) \/ Stop(w)
  <2>1. mission' = "FAILED" /\ status' = status
    BY <1>3 DEF ClaimOverdue, Stop, rows
  <2> QED
    BY <1>1, <1>2, <2>1 DEF Stops, Completes, Runs, CancelsNothing
<1>4. CASE Cancel(w)
  BY <1>1, <1>2, <1>4 DEF Cancel, Put, Stops, Completes, Runs, Done
<1> QED
  BY <1>3, <1>4

\* Every step of the mission, while transactions do not overlap.
LEMMA WorkSteps ==
  ASSUME WorkInv, [Next]_vars
  PROVE  \/ Still \/ Stops
         \/ \E t \in Tasks : HandsOut(t)
         \/ \E S \in SUBSET Tasks : ReportsOn(S)
<1>1. CASE UNCHANGED <<status, attempt, mission, claims, finished>>
  BY <1>1 DEF Still, Completes, Runs, CancelsNothing, KeepsOpen, ghosts
<1>2. CASE UNCHANGED vars \/ Deadline
  BY <1>1, <1>2 DEF vars, rows, ghosts, Deadline
<1>3. ASSUME NEW w \in Callers, Read(w) \/ RollBack(w) \/ SetOutcome(w) \/ Approve(w)
      PROVE  Still
  <2>1. UNCHANGED <<status, attempt, mission, claims, finished>>
    BY <1>3 DEF Read, RollBack, SetOutcome, Approve, rows, ghosts
  <2> QED
    BY <2>1 DEF Still, Completes, Runs, CancelsNothing, KeepsOpen, ghosts
<1>4. ASSUME NEW w \in Callers, Complete(w)
      PROVE  \E S \in SUBSET Tasks : ReportsOn(S)
  BY <1>4, CompleteReports DEF ReportsOn
<1>5. CASE \E w \in Callers : Read(w) \/ Operation(w) \/ RollBack(w)
  BY <1>3, <1>4, <1>5, ClaimHandsOut, RecoverReports, MoveStops, EndStops DEF Operation
<1> QED
  BY <1>2, <1>5 DEF Next
\* The next attempt is handed out after the ones before.
LEMMA HandsOutInOrder ==
  ASSUME WorkInv, NEW t \in Tasks, HandsOut(t)
  PROVE  HandedInOrder'
<1> DEFINE n == attempt[t] + 1
<1>1. attempt \in [Tasks -> 0..MaxAttempts] /\ claims \in [Tasks -> [1..MaxAttempts -> Nat]]
  BY DEF WorkInv, TypeOK
<1>2. attempt'[t] = n /\ \A u \in Tasks : u # t => attempt'[u] = attempt[u]
  BY <1>1 DEF HandsOut
<1>3. claims'[t] = [claims[t] EXCEPT ![n] = claims[t][n] + 1]
      /\ \A u \in Tasks : u # t => claims'[u] = claims[u]
  BY <1>1 DEF HandsOut
<1>4. n \in 1..MaxAttempts /\ claims[t][n] = 0
  <2>1. n \in 1..MaxAttempts /\ attempt[t] \in Nat
    BY <1>1 DEF HandsOut
  <2>2. claims[t][n] \in Nat /\ (claims[t][n] > 0 => n =< attempt[t])
    BY <1>1, <2>1 DEF WorkInv, ClaimInv, HandedOnce
  <2> QED
    BY <2>1, <2>2
<1>5. claims'[t][n] = 1
  <2>1. claims[t][n] + 1 = 1
    BY <1>4
  <2>2. n \in DOMAIN claims[t]
    BY <1>1, <1>4
  <2> QED
    BY <1>3, <2>1, <2>2, Zenon
<1>6. ASSUME NEW u \in Tasks, NEW k \in 1..MaxAttempts, k =< attempt'[u]
      PROVE  claims'[u][k] = 1
  <2>1. CASE u # t
    BY <1>2, <1>3, <1>6, <2>1 DEF WorkInv, HandedInOrder
  <2>2. CASE u = t /\ k = n
    BY <1>5, <2>2
  <2>3. CASE u = t /\ k # n
    <3>1. k =< attempt[t]
      BY <1>1, <1>2, <1>6, <2>3
    <3>2. claims'[t][k] = claims[t][k]
      BY <1>1, <1>3, <2>3
    <3> QED
      BY <2>3, <3>1, <3>2 DEF WorkInv, HandedInOrder
  <2> QED
    BY <2>1, <2>2, <2>3
<1>7. ASSUME NEW u \in Tasks, status'[u] = "RUNNING"
      PROVE  attempt'[u] > 0
  <2>1. CASE u = t
    BY <1>2, <1>4, <2>1
  <2>2. CASE u # t
    <3>1. status[u] = "RUNNING"
      BY <1>7, <2>2 DEF HandsOut, Runs
    <3> QED
      BY <1>2, <2>2, <3>1 DEF WorkInv, HandedInOrder
  <2> QED
    BY <2>1, <2>2
<1> QED
  BY <1>6, <1>7 DEF HandedInOrder

\* What the open transaction checked holds until it ends.
LEMMA DueStep ==
  ASSUME WorkInv, Serial, [Next]_vars
  PROVE  \A w \in Callers : pc'[w] = "read" => StillDue(w)'
<1>1. CASE UNCHANGED <<status, mission, pc, call>>
  BY <1>1 DEF WorkInv, StillDue
<1>2. CASE UNCHANGED vars \/ Deadline
  BY <1>1, <1>2 DEF vars, rows, tx, Deadline
<1>3. ASSUME NEW w \in Callers, Operation(w) \/ RollBack(w)
      PROVE  \A u \in Callers : pc'[u] # "read"
  <2>1. End(w)
    BY <1>3 DEF Operation, RollBack, ClaimOverdue, Claim, SetOutcome, Complete, Retry, Fail,
                Wait, Approve, Reject, Resume, Recover, Cancel, Stop
  <2> QED
    BY <2>1 DEF End, Serial, WorkInv, TypeOK
<1>4. ASSUME NEW w \in Callers, Read(w)
      PROVE  \A u \in Callers : StillDue(u)'
  <2>1. PICK o \in Ops, t \in Tasks, n \in 1..MaxAttempts :
          /\ Accepted(o, t, n)
          /\ call' = [call EXCEPT ![w] = [op |-> o, task |-> t, attempt |-> n]]
    BY <1>4 DEF Read
  <2>2. UNCHANGED <<status, mission>>
    BY <1>4 DEF Read, rows
  <2>3. call'[w] = [op |-> o, task |-> t, attempt |-> n]
    BY <2>1 DEF WorkInv, TypeOK
  <2>4. status[t] \in TaskStatus /\ mission \in MissionStatus
    BY DEF WorkInv, TypeOK
  <2>5. o = "complete" => status[t] = "RUNNING"
    BY <2>1, <2>4 DEF Accepted, TaskAllowed, TaskTransitions, TaskStatus
  <2>6. o \in {"cancel", "stop"} => mission \notin Ended
    BY <2>1, <2>4 DEF Accepted, MissionAllowed, MissionTransitions, MissionStatus, Ended
  <2>7. StillDue(w)'
    BY <2>2, <2>3, <2>5, <2>6 DEF StillDue
  <2> QED
    BY <2>7 DEF Serial
<1> QED
  BY <1>2, <1>3, <1>4 DEF Next

LEMMA WorkStep ==
  ASSUME WorkInv, Serial, [Next]_vars
  PROVE  WorkInv'
<1>1. TypeOK' /\ DependencyInv' /\ AgreeInv' /\ ClaimInv'
  BY TypeStep, DependencyStep, AgreeStep, ClaimStep DEF WorkInv, ClaimsCannotRace
<1>2. \A w \in Callers : pc'[w] = "read" => StillDue(w)'
  BY DueStep
<1>3. mission = "CANCELLED" => mission' = "CANCELLED"
  BY AgreeStep DEF WorkInv, Final
<1>4. finished' \subseteq Tasks
  BY <1>1 DEF TypeOK
<1>5. /\ HandedInOrder'
      /\ CancelledTogether'
      /\ \A t \in finished' : status'[t] = "COMPLETED"
  <2>1. CASE Still
    BY <1>3, <1>4, <2>1 DEF Still, Completes, Runs, CancelsNothing, KeepsOpen, Ended, WorkInv,
          HandedInOrder, CancelledTogether
  <2>2. ASSUME NEW t \in Tasks, HandsOut(t)
        PROVE  CancelledTogether' /\ \A u \in finished' : status'[u] = "COMPLETED"
    BY <1>4, <2>2 DEF HandsOut, Completes, Runs, CancelsNothing, Ended, WorkInv,
          CancelledTogether
  <2>3. ASSUME NEW S \in SUBSET Tasks, ReportsOn(S)
        PROVE  /\ HandedInOrder'
               /\ CancelledTogether'
               /\ \A u \in finished' : status'[u] = "COMPLETED"
    <3>1. mission # "CANCELLED" /\ mission' # "CANCELLED"
      BY <2>3 DEF ReportsOn, KeepsOpen, Ended, WorkInv, CancelledTogether
    <3>2. CancelledTogether'
      BY <2>3, <3>1 DEF ReportsOn, CancelsNothing, WorkInv, CancelledTogether
    <3>3. HandedInOrder'
      BY <2>3 DEF ReportsOn, Runs, WorkInv, HandedInOrder
    <3>4. \A u \in finished' : status'[u] = "COMPLETED"
      BY <1>4, <2>3 DEF ReportsOn, Completes, WorkInv
    <3> QED
      BY <3>2, <3>3, <3>4
  <2>4. CASE Stops
    BY <1>4, <2>4 DEF Stops, Completes, Runs, CancelsNothing, Ended, WorkInv,
          HandedInOrder, CancelledTogether
  <2> QED
    BY <2>1, <2>2, <2>3, <2>4, WorkSteps, HandsOutInOrder
<1> QED
  BY <1>1, <1>2, <1>5 DEF WorkInv

DoneTasks == {t \in Tasks : status[t] = "COMPLETED"}

LEMMA PhaseOf ==
  ASSUME TypeOK
  PROVE  /\ Phase \in {"open", "completed", "failed", "cancelled"}
         /\ Phase = "open" <=> mission \notin Ended
         /\ mission = "COMPLETED" <=> Phase = "completed"
         /\ mission = "FAILED" <=> Phase = "failed"
         /\ mission = "CANCELLED" <=> Phase = "cancelled"
BY DEF TypeOK, MissionStatus, Phase, Ended

\* Each step is one of the workflow's, or nothing happens in it.
LEMMA WorkflowStep ==
  ASSUME WorkInv, WorkInv', [Next]_vars
  PROVE  [Work!WorkflowNext]_<<Phase, claims, DoneTasks>>
<1>1. TypeOK /\ TypeOK'
  BY DEF WorkInv
<1>2. KeepsOpen => Phase' = Phase
  <2>1. mission \notin Ended => Phase = "open"
    BY DEF Phase, Ended
  <2>2. mission' \notin Ended => Phase' = "open"
    BY DEF Phase, Ended
  <2>3. mission' = mission => Phase' = Phase
    BY DEF Phase
  <2> QED
    BY <2>1, <2>2, <2>3 DEF KeepsOpen
<1>3. \A S \in SUBSET Tasks : Completes(S) => DoneTasks' = DoneTasks \cup S
  BY DEF Completes, DoneTasks
<1>4. CASE Still
  BY <1>2, <1>3, <1>4 DEF Still
<1>5. CASE Stops
  <2>1. Phase = "open" /\ Phase' \in {"failed", "cancelled"}
    BY <1>1, <1>5 DEF Stops, Phase, Ended
  <2>2. DoneTasks' = DoneTasks /\ claims' = claims
    BY <1>3, <1>5 DEF Stops
  <2>3. Work!GiveUp
    BY <2>1, <2>2 DEF Work!GiveUp, DoneTasks
  <2> QED
    BY <2>3 DEF Work!WorkflowNext
<1>6. ASSUME NEW t \in Tasks, HandsOut(t)
      PROVE  [Work!WorkflowNext]_<<Phase, claims, DoneTasks>>
  <2> DEFINE n == attempt[t] + 1
  <2>1. n \in 1..MaxAttempts /\ attempt[t] \in Nat
    BY <1>1, <1>6 DEF HandsOut, TypeOK
  <2>2. claims[t][n] = 0
    <3>1. claims[t][n] \in Nat /\ (claims[t][n] > 0 => n =< attempt[t])
      BY <1>1, <2>1 DEF WorkInv, ClaimInv, HandedOnce, TypeOK
    <3> QED
      BY <2>1, <3>1
  <2>3. n > 1 => claims[t][n - 1] = 1
    <3> SUFFICES ASSUME n > 1 PROVE claims[t][n - 1] = 1
      OBVIOUS
    <3>1. n - 1 = attempt[t] /\ attempt[t] \in 1..MaxAttempts
      BY <2>1, MissionAssumption
    <3> QED
      BY <3>1 DEF WorkInv, HandedInOrder
  <2>4. t \notin DoneTasks /\ DependsOn[t] \subseteq DoneTasks
    BY <1>6, MissionAssumption DEF HandsOut, DoneTasks
  <2>5. Phase = "open" /\ Phase' = Phase
    BY <1>1, <1>6, PhaseOf DEF HandsOut, Phase, Ended
  <2>6. DoneTasks' = DoneTasks
    BY <1>3, <1>6 DEF HandsOut
  <2>7. claims' = [claims EXCEPT ![t] = [claims[t] EXCEPT ![n] = claims[t][n] + 1]]
    BY <1>6 DEF HandsOut
  <2> HIDE DEF n
  <2>8. Work!HandOut(t, n)
    BY <2>2, <2>3, <2>4, <2>5, <2>6, <2>7 DEF Work!HandOut, DoneTasks
  <2> QED
    BY <2>1, <2>8 DEF Work!WorkflowNext
<1>7. ASSUME NEW S \in SUBSET Tasks, ReportsOn(S)
      PROVE  [Work!WorkflowNext]_<<Phase, claims, DoneTasks>>
  <2>1. mission \notin Final
    BY <1>7 DEF ReportsOn, WorkInv, CancelledTogether, AgreeInv, CompletedMeansDone, Final, Done
  <2>2. Phase \in {"open", "failed"}
    BY <1>1, <2>1, PhaseOf DEF Final
  <2>3. S \cap DoneTasks = {}
    BY <1>7 DEF ReportsOn, DoneTasks
  <2>4. ASSUME NEW t \in S
        PROVE  \E n \in 1..MaxAttempts : claims[t][n] = 1
    <3>1. attempt[t] \in 0..MaxAttempts /\ attempt[t] > 0
      BY <1>1, <1>7 DEF ReportsOn, WorkInv, HandedInOrder, TypeOK
    <3>2. attempt[t] \in 1..MaxAttempts /\ attempt[t] =< attempt[t]
      BY <3>1, MissionAssumption
    <3>3. claims[t][attempt[t]] = 1
      BY <1>7, <3>2 DEF WorkInv, HandedInOrder
    <3> QED
      BY <3>2, <3>3
  <2>5. DoneTasks' = DoneTasks \cup S /\ claims' = claims
    BY <1>3, <1>7 DEF ReportsOn
  <2>6. DoneTasks' = Tasks <=> \A t \in Tasks : status'[t] = "COMPLETED"
    BY DEF DoneTasks
  <2>7. IF DoneTasks' = Tasks
        THEN Phase = "open" /\ Phase' = "completed"
        ELSE Phase' = Phase \/ Phase' = "failed"
    <3>1. CASE DoneTasks' = Tasks
      <4>1. mission \notin Ended /\ mission' = "COMPLETED"
        BY <1>7, <2>6, <3>1 DEF ReportsOn
      <4> QED
        BY <1>1, <3>1, <4>1 DEF Phase, Ended
    <3>2. CASE DoneTasks' # Tasks
      <4>1. KeepsOpen \/ mission' = "FAILED"
        BY <1>7, <2>6, <3>2 DEF ReportsOn
      <4> QED
        BY <1>2, <3>2, <4>1 DEF Phase
    <3> QED
      BY <3>1, <3>2
  <2>8. Work!Report(S)
    BY <2>2, <2>3, <2>4, <2>5, <2>7 DEF Work!Report, DoneTasks
  <2>9. S # {}
    BY <1>7 DEF ReportsOn
  <2> QED
    BY <2>8, <2>9 DEF Work!WorkflowNext
<1> QED
  BY <1>4, <1>5, <1>6, <1>7, WorkSteps

\* As long as transactions do not overlap, the mission implements Workflow, for any
\* non-empty set of tasks, any dependencies and any use of the twelve operations.
THEOREM MissionDoesWorkflow ==
  ASSUME Serial, Tasks # {}
  PROVE  Spec => MissionIsWorkflow
<1>1. Init => Work!WorkflowInit
  BY DEF Init, Work!WorkflowInit, Phase
<1>2. WorkInv /\ [Next]_vars => WorkInv'
  BY WorkStep
<1>3. WorkInv /\ WorkInv' /\ [Next]_vars
        => [Work!WorkflowNext]_<<Phase, claims, {t \in Tasks : status[t] = "COMPLETED"}>>
  BY WorkflowStep DEF DoneTasks
<1> QED
  BY WorkInit, <1>1, <1>2, <1>3, PTL DEF Spec, MissionIsWorkflow, Work!WorkflowSpec
=============================================================================
