------------------------------ MODULE Workflow ------------------------------
(***************************************************************************)
(* What the author of a mission may rely on: the tasks are handed out in   *)
(* the order of their dependencies and while the mission is open, attempt  *)
(* by attempt and each attempt to one worker; the mission is completed by  *)
(* the report that leaves nothing to do, by no other and at once; and it   *)
(* ends one time.                                                          *)
(***************************************************************************)
EXTENDS Integers

CONSTANTS Tasks, DependsOn, MaxAttempts

VARIABLES
  phase,   \* open, or how the mission ended
  handed,  \* how many workers got an attempt of a task
  done     \* the tasks whose work is done

WorkflowInit ==
  /\ phase = "open"
  /\ handed = [t \in Tasks |-> [n \in 1..MaxAttempts |-> 0]]
  /\ done = {}

\* A worker gets the next attempt of a task.
HandOut(t, n) ==
  /\ phase = "open"
  /\ t \notin done /\ DependsOn[t] \subseteq done
  /\ handed[t][n] = 0
  /\ n > 1 => handed[t][n - 1] = 1
  /\ handed' = [handed EXCEPT ![t] = [handed[t] EXCEPT ![n] = handed[t][n] + 1]]
  /\ UNCHANGED <<phase, done>>

\* Workers report the tasks of S; a stopped mission still hears of those under way.
Report(S) ==
  /\ phase \in {"open", "failed"}
  /\ S \cap done = {}
  /\ \A t \in S : \E n \in 1..MaxAttempts : handed[t][n] = 1
  /\ done' = done \cup S
  /\ IF done' = Tasks
     THEN phase = "open" /\ phase' = "completed"
     ELSE phase' = phase \/ phase' = "failed"
  /\ UNCHANGED handed

\* A task that cannot be done, the budget, the deadline or a person ends the mission.
GiveUp ==
  /\ phase = "open"
  /\ phase' \in {"failed", "cancelled"}
  /\ UNCHANGED <<handed, done>>

WorkflowNext ==
  \/ \E t \in Tasks, n \in 1..MaxAttempts : HandOut(t, n)
  \/ \E S \in (SUBSET Tasks) \ {{}} : Report(S)
  \/ GiveUp

WorkflowSpec == WorkflowInit /\ [][WorkflowNext]_<<phase, handed, done>>
=============================================================================
