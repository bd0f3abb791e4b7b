---------------------------- MODULE AgentRunsProofs ----------------------------
(* Proofs about AgentRuns, for any number of calls, users, answers and faults. *)
EXTENDS AgentRuns, TLAPS

\* What only the type says of a call.
LEMMA CallTyped ==
  ASSUME TypeOK, NEW c \in Calls
  PROVE  /\ call[c] \in Call
         /\ call[c].pc \in CallPC /\ call[c].origin \in Origins
         /\ call[c].attempt \in 1..2 /\ call[c].at \in Nat
         /\ call[c].verdict \in Ended \cup Awaiting
BY DEF TypeOK, Call, JobAttempts

LEMMA NoCallTyped == NoCall \in Call
BY DEF NoCall, Call, CallPC, Working, Origins, Ended, Awaiting, JobAttempts

\* Replacing the record of one call.
LEMMA CallUpdate ==
  ASSUME TypeOK, NEW c \in Calls, NEW r \in Call, call' = [call EXCEPT ![c] = r]
  PROVE  /\ call' \in [Calls -> Call]
         /\ call'[c] = r
         /\ \A d \in Calls \ {c} : call'[d] = call[d]
BY DEF TypeOK

\* A call moves on.
LEMMA GotoTyped ==
  ASSUME TypeOK, NEW c \in Calls, NEW p \in CallPC, Goto(c, p)
  PROVE  /\ call' \in [Calls -> Call]
         /\ call'[c] = [call[c] EXCEPT !.pc = p]
         /\ \A d \in Calls \ {c} : call'[d] = call[d]
<1>1. call[c] \in Call
  BY DEF TypeOK
<1>2. [call[c] EXCEPT !.pc = p] \in Call
  BY <1>1 DEF Call
<1>3. call' = [call EXCEPT ![c] = [call[c] EXCEPT !.pc = p]]
  BY DEF Goto
<1> QED
  BY <1>2, <1>3, CallUpdate

\* A call returns.
LEMMA ReturnTyped ==
  ASSUME TypeOK, NEW c \in Calls, Return(c)
  PROVE  /\ call' \in [Calls -> Call]
         /\ call'[c] = NoCall \/ call'[c] = [call[c] EXCEPT !.pc = "note"]
         /\ \A d \in Calls \ {c} : call'[d] = call[d]
<1>1. call[c] \in Call
  BY DEF TypeOK
<1>2. [call[c] EXCEPT !.pc = "note"] \in Call
  BY <1>1 DEF Call, CallPC
<1>3. CASE call[c].origin = "reclaim"
  BY <1>3, NoCallTyped, CallUpdate DEF Return
<1>4. CASE call[c].origin # "reclaim"
  BY <1>2, <1>4, CallUpdate DEF Return
<1> QED
  BY <1>3, <1>4

\* A call decides how the run ends.
LEMMA VerdictTyped ==
  ASSUME TypeOK, NEW c \in Calls, NEW v \in Ended \cup Awaiting,
         call' = [call EXCEPT ![c] = [call[c] EXCEPT !.pc = "finish", !.verdict = v]]
  PROVE  /\ call' \in [Calls -> Call]
         /\ call'[c] = [call[c] EXCEPT !.pc = "finish", !.verdict = v]
         /\ \A d \in Calls \ {c} : call'[d] = call[d]
<1>1. call[c] \in Call
  BY DEF TypeOK
<1>2. [call[c] EXCEPT !.pc = "finish", !.verdict = v] \in Call
  BY <1>1 DEF Call, CallPC, Working
<1> QED
  BY <1>2, CallUpdate

LEMMA FreshTyped ==
  ASSUME TypeOK, NEW o \in Origins, NEW a \in 1..2
  PROVE  Fresh(o, a) \in Call /\ Fresh(o, a).pc = "read" /\ Fresh(o, a).origin = o
BY NoCallTyped DEF Fresh, Call, CallPC, NoCall, TypeOK, JobAttempts

\* A call begins.
LEMMA BeginTyped ==
  ASSUME TypeOK, NEW c \in Calls, NEW o \in Origins, NEW a \in 1..2, Begin(c, o, a)
  PROVE  /\ call' \in [Calls -> Call]
         /\ call'[c].pc = "read" /\ call'[c].origin = o
         /\ \A d \in Calls \ {c} : call'[d] = call[d]
<1>1. call' = [call EXCEPT ![c] = Fresh(o, a)]
  BY DEF Begin
<1>2. Fresh(o, a) \in Call /\ Fresh(o, a).pc = "read" /\ Fresh(o, a).origin = o
  BY FreshTyped
<1> QED
  BY <1>1, <1>2, CallUpdate

-----------------------------------------------------------------------------
\* What the invariants need of the single calls.

\* A call about to write COMPLETED has done, or seen, all the work.
EarnedVerdict(c) ==
  call[c].pc = "finish" /\ call[c].verdict = "COMPLETED" => worked

\* The inductive invariant: an open run has not been claimed for a search since it
\* was put to PENDING.
AgentInv ==
  /\ TypeOK
  /\ searches =< 1
  /\ status \in Open => searches = 0
  /\ CompletedMeansWorked
  /\ \A c \in Calls : EarnedVerdict(c)

\* An action of call c that leaves the other calls alone preserves the invariant if
\* it preserves what concerns the run and c.
LEMMA InvFrame ==
  ASSUME AgentInv, TypeOK', NEW c \in Calls,
         \A d \in Calls \ {c} : call'[d] = call[d],
         worked => worked', searches' =< 1,
         status' \in Open => searches' = 0, CompletedMeansWorked',
         EarnedVerdict(c)'
  PROVE  AgentInv'
<1>1. \A d \in Calls : EarnedVerdict(d)'
  BY DEF AgentInv, EarnedVerdict
<1> QED
  BY <1>1 DEF AgentInv

\* The same for an action that begins no call and moves none.
LEMMA InvStill ==
  ASSUME AgentInv, TypeOK', call' = call, worked' = worked,
         status' \in Open => searches' = 0, searches' =< 1, CompletedMeansWorked'
  PROVE  AgentInv'
BY DEF AgentInv, EarnedVerdict

LEMMA InitInv == ASSUME AgentRunsAssumption, Init PROVE AgentInv
<1>1. TypeOK
  BY NoCallTyped DEF Init, TypeOK, AgentRunsAssumption, Status, Open, Ended, Awaiting,
     JobAttempts
<1> QED
  BY <1>1 DEF Init, AgentInv, CompletedMeansWorked, EarnedVerdict, NoCall, Open

LEMMA CallStepInv ==
  ASSUME AgentRunsAssumption, AgentInv, NEW c \in Calls, CallStep(c)
  PROVE  AgentInv'
<1> USE DEF Open
<1>0. TypeOK /\ call[c] \in Call
  BY DEF AgentInv, TypeOK
<1>1. CASE Note(c)
  <2>1. call' \in [Calls -> Call] /\ call'[c] = NoCall
        /\ \A d \in Calls \ {c} : call'[d] = call[d]
    BY <1>0, <1>1, NoCallTyped, CallUpdate DEF Note
  <2>2. TypeOK'
    BY <1>0, <1>1, <2>1 DEF Note, TypeOK, run, people, ghosts
  <2> QED
    BY <1>1, <2>1, <2>2, InvFrame DEF Note, run, ghosts, NoCall, AgentInv,
       EarnedVerdict, CompletedMeansWorked
<1>2. CASE ReadRun(c)
  <2> DEFINE r == [call[c] EXCEPT !.pc = "count", !.mode = kind, !.planned = planned]
  <2>1. r \in Call /\ r.pc = "count"
    BY <1>0 DEF Call, CallPC, TypeOK
  <2>2. CASE status \in Open
    <3>1. call' = [call EXCEPT ![c] = r]
      BY <1>2, <2>2 DEF ReadRun
    <3> HIDE DEF r
    <3>2. call' \in [Calls -> Call] /\ call'[c] = r
          /\ \A d \in Calls \ {c} : call'[d] = call[d]
      BY <1>0, <2>1, <3>1, CallUpdate
    <3>3. TypeOK'
      BY <1>0, <1>2, <3>2 DEF ReadRun, TypeOK, run, people, ghosts
    <3> QED
      BY <1>2, <2>1, <3>2, <3>3, InvFrame DEF ReadRun, run, ghosts, AgentInv,
         EarnedVerdict, CompletedMeansWorked
  <2>3. CASE status \notin Open
    <3>1. call' \in [Calls -> Call]
          /\ (call'[c] = NoCall \/ call'[c] = [call[c] EXCEPT !.pc = "note"])
          /\ \A d \in Calls \ {c} : call'[d] = call[d]
      BY <1>0, <1>2, <2>3, ReturnTyped DEF ReadRun
    <3>2. TypeOK'
      BY <1>0, <1>2, <3>1 DEF ReadRun, TypeOK, run, people, ghosts
    <3> QED
      BY <1>0, <1>2, <3>1, <3>2, InvFrame DEF ReadRun, run, ghosts, AgentInv,
         EarnedVerdict, CompletedMeansWorked, NoCall, Call
  <2> QED
    BY <2>2, <2>3
<1>3. CASE CountSteps(c)
  <2>1. CASE Entry(c) = "none"
    <3>1. call' \in [Calls -> Call]
          /\ (call'[c] = NoCall \/ call'[c] = [call[c] EXCEPT !.pc = "note"])
          /\ \A d \in Calls \ {c} : call'[d] = call[d]
      BY <1>0, <1>3, <2>1, ReturnTyped DEF CountSteps
    <3>2. TypeOK'
      BY <1>0, <1>3, <3>1 DEF CountSteps, TypeOK, run, people, ghosts
    <3> QED
      BY <1>0, <1>3, <3>1, <3>2, InvFrame DEF CountSteps, run, ghosts, AgentInv,
         EarnedVerdict, CompletedMeansWorked, NoCall, Call
  <2>2. CASE Entry(c) # "none"
    <3>1. ~steps /\ Entry(c) \in {"crm", "quickClaim", "claim"}
      BY <2>2 DEF Entry
    <3>3. Entry(c) \in CallPC /\ Goto(c, Entry(c))
      BY <1>3, <2>2, <3>1 DEF CountSteps, CallPC, Working
    <3> HIDE DEF Entry
    <3>4. call' \in [Calls -> Call] /\ call'[c] = [call[c] EXCEPT !.pc = Entry(c)]
          /\ \A d \in Calls \ {c} : call'[d] = call[d]
      BY <1>0, <3>3, GotoTyped
    <3>5. TypeOK'
      BY <1>0, <1>3, <3>4 DEF CountSteps, TypeOK, run, people, ghosts
    <3>6. call'[c].pc = Entry(c)
      BY <1>0, <3>4 DEF Call
    <3> QED
      BY <1>3, <3>1, <3>4, <3>5, <3>6, InvFrame DEF CountSteps, run, ghosts,
         AgentInv, EarnedVerdict, CompletedMeansWorked
  <2> QED
    BY <2>1, <2>2
<1>4. CASE CrmDesk(c)
  <2>1. PICK v \in {"COMPLETED"} :
          call' = [call EXCEPT ![c] = [call[c] EXCEPT !.pc = "finish", !.verdict = v]]
    BY <1>4 DEF CrmDesk
  <2>2. call' \in [Calls -> Call]
        /\ call'[c] = [call[c] EXCEPT !.pc = "finish", !.verdict = v]
        /\ \A d \in Calls \ {c} : call'[d] = call[d]
    BY <1>0, <2>1, VerdictTyped DEF Ended, Awaiting
  <2>8. TypeOK'
    BY <1>0, <1>4, <2>1, <2>2 DEF CrmDesk, TypeOK, run, people, ghosts
  <2> QED
    BY <1>0, <1>4, <2>1, <2>8, InvFrame, <2>2 DEF CrmDesk, run, ghosts, AgentInv,
       EarnedVerdict, CompletedMeansWorked, Call
<1>5. CASE QuickClaim(c)
  <2>1. CASE QuickClaimable
    <3>1. call' \in [Calls -> Call] /\ call'[c] = [call[c] EXCEPT !.pc = "quickStep"]
          /\ \A d \in Calls \ {c} : call'[d] = call[d]
      BY <1>0, <1>5, <2>1, GotoTyped DEF QuickClaim, CallPC, Working
    <3>2. TypeOK'
      BY <1>0, <1>5, <2>1, <3>1 DEF QuickClaim, TypeOK, people, ghosts, Status
    <3>3. searches = 0 /\ searches' = searches + 1 /\ status' = "RUNNING"
      BY <1>5, <2>1 DEF QuickClaim, QuickClaimable, AgentInv
    <3>4. EarnedVerdict(c)'
      BY <1>0, <1>5, <2>1, <3>1 DEF QuickClaim, AgentInv, EarnedVerdict, Call
    <3> QED
      BY <1>5, <2>1, <3>1, <3>2, <3>3, <3>4, InvFrame DEF QuickClaim,
         CompletedMeansWorked
  <2>2. CASE ~QuickClaimable
    <3>1. call' \in [Calls -> Call] /\ call'[c] = [call[c] EXCEPT !.pc = "claim"]
          /\ \A d \in Calls \ {c} : call'[d] = call[d]
      BY <1>0, <1>5, <2>2, GotoTyped DEF QuickClaim, CallPC, Working
    <3>2. TypeOK'
      BY <1>0, <1>5, <2>2, <3>1 DEF QuickClaim, TypeOK, people, ghosts
    <3> QED
      BY <1>0, <1>5, <2>2, <3>1, <3>2, InvFrame DEF QuickClaim, ghosts, AgentInv,
         EarnedVerdict, CompletedMeansWorked, Call
  <2> QED
    BY <2>1, <2>2
<1>6. CASE QuickStep(c)
  <2>1. call' \in [Calls -> Call] /\ call'[c] = [call[c] EXCEPT !.pc = "quickRun"]
        /\ \A d \in Calls \ {c} : call'[d] = call[d]
    BY <1>0, <1>6, GotoTyped DEF QuickStep, CallPC, Working
  <2>8. TypeOK'
    BY <1>0, <1>6, <2>1 DEF QuickStep, TypeOK, run, people, ghosts
  <2> QED
    BY <1>0, <1>6, <2>1, <2>8, InvFrame DEF QuickStep, run, ghosts, AgentInv,
       EarnedVerdict, CompletedMeansWorked, Call
<1>7. CASE QuickRun(c)
  <2>1. PICK v \in Ended :
          /\ call' = [call EXCEPT ![c] = [call[c] EXCEPT !.pc = "finish", !.verdict = v]]
          /\ worked' = (worked \/ v = "COMPLETED")
    BY <1>7 DEF QuickRun
  <2>2. call' \in [Calls -> Call]
        /\ call'[c] = [call[c] EXCEPT !.pc = "finish", !.verdict = v]
        /\ \A d \in Calls \ {c} : call'[d] = call[d]
    BY <1>0, <2>1, VerdictTyped DEF Ended, Awaiting
  <2>8. TypeOK'
    BY <1>0, <1>7, <2>1, <2>2 DEF QuickRun, TypeOK, run, people, ghosts
  <2> QED
    BY <1>0, <1>7, <2>1, <2>8, InvFrame, <2>2 DEF QuickRun, run, ghosts, AgentInv,
       EarnedVerdict, CompletedMeansWorked, Call
<1>8. CASE Claim(c)
  <2>1. CASE Claimable
    <3>1. call' \in [Calls -> Call] /\ call'[c] = [call[c] EXCEPT !.pc = "plan"]
          /\ \A d \in Calls \ {c} : call'[d] = call[d]
      BY <1>0, <1>8, <2>1, GotoTyped DEF Claim, CallPC, Working
    <3>2. TypeOK'
      BY <1>0, <1>8, <2>1, <3>1 DEF Claim, TypeOK, people, ghosts, Status
    <3> QED
      BY <1>0, <1>8, <2>1, <3>1, <3>2, InvFrame DEF Claim, Claimable, ghosts,
         AgentInv, EarnedVerdict, CompletedMeansWorked, Call
  <2>2. CASE ~Claimable
    <3>1. call' \in [Calls -> Call]
          /\ (call'[c] = NoCall \/ call'[c] = [call[c] EXCEPT !.pc = "note"])
          /\ \A d \in Calls \ {c} : call'[d] = call[d]
      BY <1>0, <1>8, <2>2, ReturnTyped DEF Claim
    <3>2. TypeOK'
      BY <1>0, <1>8, <2>2, <3>1 DEF Claim, TypeOK, people, ghosts
    <3> QED
      BY <1>0, <1>8, <2>2, <3>1, <3>2, InvFrame DEF Claim, ghosts, AgentInv,
         EarnedVerdict, CompletedMeansWorked, Call, NoCall
  <2> QED
    BY <2>1, <2>2
<1>9. CASE Plan(c)
  <2>1. call' \in [Calls -> Call] /\ call'[c] = [call[c] EXCEPT !.pc = "loop"]
        /\ \A d \in Calls \ {c} : call'[d] = call[d]
    BY <1>0, <1>9, GotoTyped DEF Plan, CallPC, Working
  <2>8. TypeOK'
    BY <1>0, <1>9, <2>1 DEF Plan, TypeOK, run, people, ghosts, Status
  <2> QED
    BY <1>0, <1>9, <2>1, <2>8, InvFrame DEF Plan, run, ghosts, AgentInv, EarnedVerdict,
       CompletedMeansWorked, Call
<1>10. CASE AskUser(c)
  <2>1. call' \in [Calls -> Call]
        /\ (call'[c] = NoCall \/ call'[c] = [call[c] EXCEPT !.pc = "note"])
        /\ \A d \in Calls \ {c} : call'[d] = call[d]
    BY <1>0, <1>10, ReturnTyped DEF AskUser
  <2>8. TypeOK'
    BY <1>0, <1>10, <2>1 DEF AskUser, TypeOK, run, people, ghosts, Status, Awaiting
  <2> QED
    BY <1>0, <1>10, <2>1, <2>8, InvFrame DEF AskUser, run, ghosts, AgentInv,
       EarnedVerdict, CompletedMeansWorked, Call, NoCall
<1>11. CASE StopBefore(c)
  <2>1. PICK v \in {"PARTIAL", "FAILED"} :
          call' = [call EXCEPT ![c] = [call[c] EXCEPT !.pc = "finish", !.verdict = v]]
    BY <1>11 DEF StopBefore, StopVerdict
  <2>2. call' \in [Calls -> Call]
        /\ call'[c] = [call[c] EXCEPT !.pc = "finish", !.verdict = v]
        /\ \A d \in Calls \ {c} : call'[d] = call[d]
    BY <1>0, <2>1, VerdictTyped DEF Ended, Awaiting
  <2>8. TypeOK'
    BY <1>0, <1>11, <2>1, <2>2 DEF StopBefore, TypeOK, run, people, ghosts
  <2> QED
    BY <1>0, <1>11, <2>1, <2>8, InvFrame, <2>2 DEF StopBefore, run, ghosts, AgentInv,
       EarnedVerdict, CompletedMeansWorked, Call
<1>12. CASE SkipOptional(c)
  <2>1. PICK v \in {"COMPLETED"} :
          call' = [call EXCEPT ![c] = [call[c] EXCEPT !.pc = "finish", !.verdict = v]]
    BY <1>12 DEF SkipOptional
  <2>2. call' \in [Calls -> Call]
        /\ call'[c] = [call[c] EXCEPT !.pc = "finish", !.verdict = v]
        /\ \A d \in Calls \ {c} : call'[d] = call[d]
    BY <1>0, <2>1, VerdictTyped DEF Ended, Awaiting
  <2>8. TypeOK'
    BY <1>0, <1>12, <2>1, <2>2 DEF SkipOptional, TypeOK, run, people, ghosts
  <2> QED
    BY <1>0, <1>12, <2>1, <2>8, InvFrame, <2>2 DEF SkipOptional, run, ghosts, AgentInv,
       EarnedVerdict, CompletedMeansWorked, Call
<1>13. CASE StartStep(c)
  <2>1. call' \in [Calls -> Call] /\ call'[c] = [call[c] EXCEPT !.pc = "step"]
        /\ \A d \in Calls \ {c} : call'[d] = call[d]
    BY <1>0, <1>13, GotoTyped DEF StartStep, CallPC, Working
  <2>8. TypeOK'
    BY <1>0, <1>13, <2>1 DEF StartStep, TypeOK, run, people, ghosts
  <2> QED
    BY <1>0, <1>13, <2>1, <2>8, InvFrame DEF StartStep, run, ghosts, AgentInv,
       EarnedVerdict, CompletedMeansWorked, Call
<1>14. CASE StepDone(c)
  <2> DEFINE r == [call[c] EXCEPT !.pc = "loop", !.at = call[c].at + 1]
  <2>1. r \in Call /\ r.pc = "loop"
    <3>1. call[c].at + 1 \in Nat
      BY <1>0, CallTyped
    <3> QED
      BY <1>0, <3>1 DEF Call, CallPC, Working
  <2>2. call' = [call EXCEPT ![c] = r]
    BY <1>14 DEF StepDone
  <2> HIDE DEF r
  <2>3. call' \in [Calls -> Call] /\ call'[c] = r
        /\ \A d \in Calls \ {c} : call'[d] = call[d]
    BY <1>0, <2>1, <2>2, CallUpdate
  <2>4. TypeOK'
    BY <1>0, <1>14, <2>3 DEF StepDone, TypeOK, run, people, ghosts
  <2> QED
    BY <1>14, <2>1, <2>3, <2>4, InvFrame DEF StepDone, run, ghosts, AgentInv,
       EarnedVerdict, CompletedMeansWorked
<1>15. CASE StepProposes(c)
  <2>1. PICK v \in {"AWAITING_PROMPT_CONFIRM"} :
          call' = [call EXCEPT ![c] = [call[c] EXCEPT !.pc = "finish", !.verdict = v]]
    BY <1>15 DEF StepProposes
  <2>2. call' \in [Calls -> Call]
        /\ call'[c] = [call[c] EXCEPT !.pc = "finish", !.verdict = v]
        /\ \A d \in Calls \ {c} : call'[d] = call[d]
    BY <1>0, <2>1, VerdictTyped DEF Ended, Awaiting
  <2>8. TypeOK'
    BY <1>0, <1>15, <2>1, <2>2 DEF StepProposes, TypeOK, run, people, ghosts
  <2> QED
    BY <1>0, <1>15, <2>1, <2>8, InvFrame, <2>2 DEF StepProposes, run, ghosts, AgentInv,
       EarnedVerdict, CompletedMeansWorked, Call
<1>16. CASE StepFails(c)
  <2>1. PICK v \in {"PARTIAL", "FAILED"} :
          call' = [call EXCEPT ![c] = [call[c] EXCEPT !.pc = "finish", !.verdict = v]]
    BY <1>16 DEF StepFails
  <2>2. call' \in [Calls -> Call]
        /\ call'[c] = [call[c] EXCEPT !.pc = "finish", !.verdict = v]
        /\ \A d \in Calls \ {c} : call'[d] = call[d]
    BY <1>0, <2>1, VerdictTyped DEF Ended, Awaiting
  <2>8. TypeOK'
    BY <1>0, <1>16, <2>1, <2>2 DEF StepFails, TypeOK, run, people, ghosts
  <2> QED
    BY <1>0, <1>16, <2>1, <2>8, InvFrame, <2>2 DEF StepFails, run, ghosts, AgentInv,
       EarnedVerdict, CompletedMeansWorked, Call
<1>17. CASE LoopDone(c)
  <2>1. PICK v \in {"COMPLETED", "PARTIAL"} :
          call' = [call EXCEPT ![c] = [call[c] EXCEPT !.pc = "finish", !.verdict = v]]
    BY <1>17 DEF LoopDone
  <2>2. call' \in [Calls -> Call]
        /\ call'[c] = [call[c] EXCEPT !.pc = "finish", !.verdict = v]
        /\ \A d \in Calls \ {c} : call'[d] = call[d]
    BY <1>0, <2>1, VerdictTyped DEF Ended, Awaiting
  <2>8. TypeOK'
    BY <1>0, <1>17, <2>1, <2>2 DEF LoopDone, TypeOK, run, people, ghosts
  <2> QED
    BY <1>0, <1>17, <2>1, <2>8, InvFrame, <2>2 DEF LoopDone, run, ghosts, AgentInv,
       EarnedVerdict, CompletedMeansWorked, Call
<1>18. CASE FinishRun(c)
  <2>1. call' \in [Calls -> Call]
        /\ (call'[c] = NoCall \/ call'[c] = [call[c] EXCEPT !.pc = "note"])
        /\ \A d \in Calls \ {c} : call'[d] = call[d]
    BY <1>0, <1>18, ReturnTyped DEF FinishRun
  <2>8. TypeOK'
    BY <1>0, <1>18, <2>1 DEF FinishRun, TypeOK, run, people, ghosts, Status, Call
  <2> QED
    BY <1>0, <1>18, <2>1, <2>8, InvFrame DEF FinishRun, run, ghosts, AgentInv,
       EarnedVerdict, CompletedMeansWorked, Call, NoCall, Ended, Awaiting
<1>19. CASE Salvage(c)
  <2>1. call' \in [Calls -> Call] /\ call'[c] = NoCall
        /\ \A d \in Calls \ {c} : call'[d] = call[d]
    BY <1>0, <1>19, NoCallTyped, CallUpdate DEF Salvage
  <2>8. TypeOK'
    BY <1>0, <1>19, <2>1 DEF Salvage, TypeOK, run, people, ghosts, Status, Ended
  <2> QED
    BY <1>0, <1>19, <2>1, <2>8, InvFrame DEF Salvage, run, ghosts, AgentInv,
       EarnedVerdict, CompletedMeansWorked, Call, NoCall, Salvageable
<1>20. CASE GiveUp(c)
  <2>1. call' \in [Calls -> Call] /\ call'[c] = NoCall
        /\ \A d \in Calls \ {c} : call'[d] = call[d]
    BY <1>0, <1>20, NoCallTyped, CallUpdate DEF GiveUp
  <2>8. TypeOK'
    BY <1>0, <1>20, <2>1 DEF GiveUp, TypeOK, run, people, ghosts, Status, Ended
  <2> QED
    BY <1>0, <1>20, <2>1, <2>8, InvFrame DEF GiveUp, run, ghosts, AgentInv,
       EarnedVerdict, CompletedMeansWorked, Call, NoCall
<1> QED
  BY <1>1, <1>2, <1>3, <1>4, <1>5, <1>6, <1>7, <1>8, <1>9, <1>10, <1>11, <1>12, <1>13,
     <1>14, <1>15, <1>16, <1>17, <1>18, <1>19, <1>20 DEF CallStep

\* One more job of an attempt.
LEMMA QueueMore ==
  ASSUME TypeOK, NEW a \in 1..2, queue' = [queue EXCEPT ![a] = queue[a] + 1]
  PROVE  queue' \in [1..2 -> Nat]
BY DEF TypeOK, JobAttempts

LEMMA QueueLess ==
  ASSUME TypeOK, NEW a \in 1..2, queue[a] > 0,
         queue' = [queue EXCEPT ![a] = queue[a] - 1]
  PROVE  queue' \in [1..2 -> Nat]
BY DEF TypeOK, JobAttempts

LEMMA CallFaultInv ==
  ASSUME AgentRunsAssumption, AgentInv, NEW c \in Calls, CallFault(c)
  PROVE  AgentInv'
<1> USE DEF Open
<1>0. TypeOK /\ call[c] \in Call
  BY DEF AgentInv, TypeOK
<1>1. CASE Throw(c)
  <2> DEFINE o == call[c].origin
             r == CASE o = "sync" /\ call[c].attempt < 2 -> Fresh("sync", 2)
                    [] o = "sync" /\ ~(call[c].attempt < 2) ->
                         [call[c] EXCEPT !.pc = "salvage"]
                    [] o = "local" -> [call[c] EXCEPT !.pc = "giveUp"]
                    [] OTHER -> NoCall
  <2>1. r \in Call /\ r.pc \in {"read", "salvage", "giveUp", "idle"}
    <3>1. CASE o = "sync" /\ call[c].attempt < 2
      <4>1. r = Fresh("sync", 2)
        BY <3>1
      <4>2. "sync" \in Origins /\ 2 \in 1..2
        BY DEF Origins
      <4> HIDE DEF r
      <4> QED
        BY <1>0, <4>1, <4>2, FreshTyped
    <3>2. CASE o = "sync" /\ ~(call[c].attempt < 2)
      BY <1>0, <3>2 DEF Call, CallPC
    <3>3. CASE o = "local"
      BY <1>0, <3>3 DEF Call, CallPC
    <3>4. CASE o # "sync" /\ o # "local"
      BY <3>4, NoCallTyped DEF NoCall
    <3> QED
      BY <3>1, <3>2, <3>3, <3>4
  <2>2. call' = [call EXCEPT ![c] = r]
    BY <1>1 DEF Throw, JobAttempts
  <2>3. queue' \in [1..2 -> Nat]
    <3>1. CASE o = "job" /\ call[c].attempt < 2
      <4>1. call[c].attempt + 1 \in 1..2
        BY <1>0, <3>1, CallTyped
      <4> QED
        BY <1>0, <1>1, <3>1, <4>1, QueueMore DEF Throw, JobAttempts
    <3>2. CASE ~(o = "job" /\ call[c].attempt < 2)
      BY <1>0, <1>1, <3>2 DEF Throw, TypeOK, JobAttempts
    <3> QED
      BY <3>1, <3>2
  <2> HIDE DEF r
  <2>4. call' \in [Calls -> Call] /\ call'[c] = r
        /\ \A d \in Calls \ {c} : call'[d] = call[d]
    BY <1>0, <2>1, <2>2, CallUpdate
  <2>5. TypeOK'
    BY <1>0, <1>1, <2>3, <2>4 DEF Throw, Fault, TypeOK, run, people, ghosts, JobAttempts
  <2> QED
    BY <1>1, <2>1, <2>4, <2>5, InvFrame DEF Throw, run, ghosts, AgentInv,
       EarnedVerdict, CompletedMeansWorked
<1>2. CASE Die(c)
  <2>1. call' \in [Calls -> Call] /\ call'[c] = NoCall
        /\ \A d \in Calls \ {c} : call'[d] = call[d]
    BY <1>0, <1>2, NoCallTyped, CallUpdate DEF Die
  <2>2. queue' \in [1..2 -> Nat]
    BY <1>0, <1>2, CallTyped, QueueMore DEF Die, TypeOK, JobAttempts
  <2>3. TypeOK'
    BY <1>0, <1>2, <2>1, <2>2 DEF Die, Fault, TypeOK, run, people, ghosts, JobAttempts
  <2> QED
    BY <1>2, <2>1, <2>3, InvFrame DEF Die, run, ghosts, AgentInv, EarnedVerdict,
       CompletedMeansWorked, NoCall
<1>3. CASE Redeliver(c)
  <2>1. queue' \in [1..2 -> Nat]
    BY <1>0, <1>3, CallTyped, QueueMore DEF Redeliver
  <2>2. TypeOK'
    BY <1>0, <1>3, <2>1 DEF Redeliver, Fault, TypeOK, run, people, ghosts, JobAttempts
  <2> QED
    BY <1>3, <2>2, InvStill DEF Redeliver, run, ghosts, AgentInv, CompletedMeansWorked
<1> QED
  BY <1>1, <1>2, <1>3 DEF CallFault

\* An action that begins call c and changes nothing else the invariants look at.
LEMMA BeginInv ==
  ASSUME AgentInv, TypeOK', NEW c \in Calls, NEW o \in Origins, NEW a \in 1..2,
         Begin(c, o, a), UNCHANGED run, UNCHANGED ghosts
  PROVE  AgentInv'
<1>1. call'[c].pc = "read"
      /\ \A d \in Calls \ {c} : call'[d] = call[d]
  BY BeginTyped DEF AgentInv
<1>2. EarnedVerdict(c)'
  BY <1>1 DEF EarnedVerdict
<1> QED
  BY <1>1, <1>2, InvFrame DEF AgentInv, run, ghosts, CompletedMeansWorked

LEMMA QueueInv ==
  ASSUME AgentRunsAssumption, AgentInv, Work \/ \E a \in 1..JobAttempts : LoseJob(a)
  PROVE  AgentInv'
<1>0. TypeOK
  BY DEF AgentInv
<1>1. CASE Work
  <2>1. PICK c \in Calls, a \in 1..2 : TakeJob(c, a)
    BY <1>1 DEF Work, JobAttempts
  <2>2. call' \in [Calls -> Call]
    BY <1>0, <2>1, BeginTyped DEF TakeJob, Origins
  <2>3. queue' \in [1..2 -> Nat]
    BY <1>0, <2>1, QueueLess DEF TakeJob
  <2>4. TypeOK'
    BY <1>0, <2>1, <2>2, <2>3 DEF TakeJob, TypeOK, run, people, ghosts, JobAttempts
  <2> QED
    BY <2>1, <2>4, BeginInv DEF TakeJob, Origins
<1>2. ASSUME NEW a \in 1..JobAttempts, LoseJob(a) PROVE AgentInv'
  <2>1. queue' \in [1..2 -> Nat]
    BY <1>0, <1>2, QueueLess DEF LoseJob, JobAttempts
  <2>2. TypeOK'
    BY <1>0, <1>2, <2>1 DEF LoseJob, Fault, TypeOK, run, people, ghosts, JobAttempts
  <2> QED
    BY <1>2, <2>2, InvStill DEF LoseJob, run, ghosts, AgentInv, CompletedMeansWorked
<1> QED
  BY <1>1, <1>2

LEMMA WebInv ==
  ASSUME AgentRunsAssumption, AgentInv,
         CreateRun \/ WebStep \/ DispatchRefused \/ WebDies
  PROVE  AgentInv'
<1>0. TypeOK
  BY DEF AgentInv
<1>1. CASE CreateRun
  <2>1. TypeOK'
    BY <1>0, <1>1 DEF CreateRun, TypeOK, people, Status, Open
  <2> QED
    BY <1>1, <2>1, InvStill DEF CreateRun, AgentInv, CompletedMeansWorked
<1>2. CASE DispatchDurable
  <2>1. queue' \in [1..2 -> Nat]
    BY <1>0, <1>2, QueueMore DEF DispatchDurable, Enqueue
  <2>2. TypeOK'
    BY <1>0, <1>2, <2>1 DEF DispatchDurable, TypeOK, run, people, ghosts, JobAttempts
  <2> QED
    BY <1>2, <2>2, InvStill DEF DispatchDurable, run, ghosts, AgentInv,
       CompletedMeansWorked
<1>3. CASE ReclaimStops \/ ReclaimWaits \/ WebDies
  <2>1. TypeOK'
    BY <1>0, <1>3 DEF ReclaimStops, ReclaimWaits, WebDies, Fault, TypeOK, run, people,
       ghosts
  <2> QED
    BY <1>3, <2>1, InvStill DEF ReclaimStops, ReclaimWaits, WebDies, run, ghosts,
       AgentInv, CompletedMeansWorked
<1>4. CASE DispatchSync \/ DispatchLocal \/ Reclaim
  <2>1. PICK c \in Calls, o \in Origins : Begin(c, o, 1)
    BY <1>4 DEF DispatchSync, DispatchLocal, Reclaim, Origins
  <2>2. call' \in [Calls -> Call]
    BY <1>0, <2>1, BeginTyped
  <2>3. TypeOK'
    BY <1>0, <1>4, <2>2 DEF DispatchSync, DispatchLocal, Reclaim, TypeOK, run, people,
       ghosts
  <2> QED
    BY <1>4, <2>1, <2>3, BeginInv DEF DispatchSync, DispatchLocal, Reclaim
<1>5. CASE DispatchRefused
  <2>1. PICK c \in Calls, o \in {"local"}, a \in {1} : Begin(c, o, a)
    BY <1>5 DEF DispatchRefused
  <2>2. o \in Origins /\ a \in 1..2
    BY DEF Origins
  <2>3. call' \in [Calls -> Call]
    BY <1>0, <2>1, <2>2, BeginTyped
  <2>4. queue' \in [1..2 -> Nat]
    BY <1>0, <1>5, QueueMore DEF DispatchRefused, Enqueue, TypeOK, JobAttempts
  <2>5. TypeOK'
    BY <1>0, <1>5, <2>3, <2>4 DEF DispatchRefused, Fault, TypeOK, run, people, ghosts,
       JobAttempts
  <2> QED
    BY <1>5, <2>1, <2>2, <2>5, BeginInv DEF DispatchRefused
<1> QED
  BY <1>1, <1>2, <1>3, <1>4, <1>5 DEF WebStep

LEMMA UserInv ==
  ASSUME AgentRunsAssumption, AgentInv, NEW u \in Users,
         UserReads(u) \/ UserStep(u) \/ UserRefused(u)
  PROVE  AgentInv'
<1>0. TypeOK
  BY DEF AgentInv
<1>1. CASE UserReads(u)
  <2>1. TypeOK'
    BY <1>0, <1>1 DEF UserReads, TypeOK, run, ghosts
  <2> QED
    BY <1>1, <2>1, InvStill DEF UserReads, run, ghosts, AgentInv, CompletedMeansWorked
<1>2. CASE UserWrites(u)
  <2>1. kind' \in {"crm", "quick", "deep", "image"}
    BY <1>0, <1>2 DEF UserWrites, TypeOK, AgentRunsAssumption
  <2>2. TypeOK'
    BY <1>0, <1>2, <2>1 DEF UserWrites, TypeOK, Status, Open
  <2> QED
    BY <1>2, <2>2, InvStill DEF UserWrites, AgentInv, CompletedMeansWorked
<1>3. CASE UserExecutes(u)
  <2>1. PICK c \in Calls, o \in {"sync"}, a \in {1} : Begin(c, o, a)
    BY <1>3 DEF UserExecutes
  <2>2. o \in Origins /\ a \in 1..2
    BY DEF Origins
  <2>3. call' \in [Calls -> Call]
    BY <1>0, <2>1, <2>2, BeginTyped
  <2>4. TypeOK'
    BY <1>0, <1>3, <2>3 DEF UserExecutes, TypeOK, run, ghosts
  <2> QED
    BY <1>3, <2>1, <2>2, <2>4, BeginInv DEF UserExecutes
<1>4. CASE UserEnqueues(u)
  <2>1. queue' \in [1..2 -> Nat]
    BY <1>0, <1>4, QueueMore DEF UserEnqueues, Enqueue
  <2>2. TypeOK'
    BY <1>0, <1>4, <2>1 DEF UserEnqueues, TypeOK, run, ghosts, JobAttempts
  <2> QED
    BY <1>4, <2>2, InvStill DEF UserEnqueues, run, ghosts, AgentInv, CompletedMeansWorked
<1>5. CASE UserRefused(u)
  <2>1. TypeOK'
    BY <1>0, <1>5 DEF UserRefused, Fault, TypeOK, run, ghosts
  <2> QED
    BY <1>5, <2>1, InvStill DEF UserRefused, run, ghosts, AgentInv, CompletedMeansWorked
<1> QED
  BY <1>1, <1>2, <1>3, <1>4, <1>5 DEF UserStep

LEMMA StepInv ==
  ASSUME AgentRunsAssumption, AgentInv, [Next]_vars
  PROVE  AgentInv'
<1>1. CASE Next
  BY <1>1, CallStepInv, CallFaultInv, QueueInv, WebInv, UserInv DEF Next
<1>2. CASE UNCHANGED vars
  BY <1>2 DEF vars, run, people, ghosts, AgentInv, TypeOK, CompletedMeansWorked,
     EarnedVerdict
<1> QED
  BY <1>1, <1>2

LEMMA Invariant == ASSUME AgentRunsAssumption PROVE Spec => []AgentInv
<1>1. Init => AgentInv
  BY AgentRunsAssumption, InitInv
<1>2. AgentInv /\ [Next]_vars => AgentInv'
  BY AgentRunsAssumption, StepInv
<1> QED
  BY <1>1, <1>2, PTL DEF Spec

-----------------------------------------------------------------------------
\* Every variable of the run, its calls, its queue and its people keeps its type.
THEOREM AgentTypeCorrect == Spec => []TypeOK
<1>1. AgentInv => TypeOK
  BY DEF AgentInv
<1> QED
  BY <1>1, Invariant, AgentRunsAssumption, PTL

\* Between two openings of a run at most one call claims it for a quick search,
\* however many jobs, retries, reclaims and answers overlap: the claim's condition is
\* false from the first claim until the run is put to PENDING again.
THEOREM OneSearch == Spec => []OneSearchPerOpening
<1>1. AgentInv => OneSearchPerOpening
  BY DEF AgentInv, OneSearchPerOpening
<1> QED
  BY <1>1, Invariant, AgentRunsAssumption, PTL

\* COMPLETED is only ever written after some call has done all the work.
THEOREM CompletedEarned == Spec => []CompletedMeansWorked
<1>1. AgentInv => CompletedMeansWorked
  BY DEF AgentInv
<1> QED
  BY <1>1, Invariant, AgentRunsAssumption, PTL

\* PLANNING is never written over RUNNING.
THEOREM RunningKept == Spec => NeverBackToPlanning
<1>1. AgentInv /\ [Next]_vars => [status = "RUNNING" => status' # "PLANNING"]_vars
  <2> SUFFICES ASSUME AgentInv, [Next]_vars, status = "RUNNING", status' = "PLANNING"
               PROVE  FALSE
    BY DEF vars
  <2>1. CASE \E c \in Calls : CallStep(c)
    <3>1. PICK c \in Calls : CallStep(c)
      BY <2>1
    <3>2. call[c].verdict \in Ended \cup Awaiting
      BY CallTyped DEF AgentInv
    <3> QED
      BY <3>1, <3>2 DEF CallStep, Note, ReadRun, CountSteps, CrmDesk, QuickClaim,
         QuickStep, QuickRun, Claim, Claimable, Open, Plan, AskUser, StopBefore,
         SkipOptional, StartStep, StepDone, StepProposes, StepFails, LoopDone,
         FinishRun, Salvage, GiveUp, run, Ended, Awaiting
  <2>2. CASE \E c \in Calls : CallFault(c)
    BY <2>2 DEF CallFault, Throw, Die, Redeliver, run
  <2>3. CASE Work \/ \E a \in 1..JobAttempts : LoseJob(a)
    BY <2>3 DEF Work, TakeJob, LoseJob, run
  <2>4. CASE CreateRun \/ WebStep \/ DispatchRefused \/ WebDies
    BY <2>4 DEF CreateRun, WebStep, DispatchRefused, WebDies, DispatchSync,
       DispatchDurable, DispatchLocal, ReclaimStops, Reclaim, ReclaimWaits, run
  <2>5. CASE \E u \in Users : UserReads(u) \/ UserStep(u) \/ UserRefused(u)
    BY <2>5 DEF UserReads, UserStep, UserWrites, UserExecutes, UserEnqueues,
       UserRefused, run
  <2>6. CASE UNCHANGED vars
    BY <2>6 DEF vars, run
  <2> QED
    BY <2>1, <2>2, <2>3, <2>4, <2>5, <2>6 DEF Next
<1> QED
  BY <1>1, Invariant, AgentRunsAssumption, PTL DEF Spec, NeverBackToPlanning
-----------------------------------------------------------------------------
\* Until the request has dispatched its run nobody else has touched it.
EarlyInv ==
  web \in {"new", "dispatch"} =>
    /\ status \in {"NONE", "PENDING"}
    /\ \A c \in Calls : call[c].pc = "idle"
    /\ \A a \in 1..JobAttempts : queue[a] = 0
    /\ \A u \in Users : user[u].pc = "idle"

LEMMA EarlyStep == ASSUME TypeOK, EarlyInv, [Next]_vars PROVE EarlyInv'
<1>1. CASE \E c \in Calls : CallStep(c) \/ CallFault(c)
  <2>1. PICK c \in Calls : CallStep(c) \/ CallFault(c)
    BY <1>1
  <2>2. call[c].pc # "idle"
    BY <2>1 DEF CallStep, CallFault, Note, ReadRun, CountSteps, CrmDesk, QuickClaim,
       QuickStep, QuickRun, Claim, Plan, AskUser, StopBefore, SkipOptional, StartStep,
       StepDone, StepProposes, StepFails, LoopDone, FinishRun, Salvage, GiveUp, Throw,
       Die, Redeliver
  <2>3. web' = web
    BY <2>1 DEF CallStep, CallFault, Note, ReadRun, CountSteps, CrmDesk, QuickClaim,
       QuickStep, QuickRun, Claim, Plan, AskUser, StopBefore, SkipOptional, StartStep,
       StepDone, StepProposes, StepFails, LoopDone, FinishRun, Salvage, GiveUp, Throw,
       Die, Redeliver
  <2> QED
    BY <2>2, <2>3 DEF EarlyInv
<1>2. CASE Work \/ \E a \in 1..JobAttempts : LoseJob(a)
  <2>1. PICK a \in 1..JobAttempts : queue[a] > 0 /\ web' = web
    BY <1>2 DEF Work, TakeJob, LoseJob
  <2> QED
    BY <2>1 DEF EarlyInv
<1>3. CASE CreateRun
  BY <1>3 DEF CreateRun, people, EarlyInv
<1>4. CASE WebStep \/ DispatchRefused \/ WebDies
  <2>1. web' \in {"watch", "done"}
    BY <1>4 DEF WebStep, DispatchRefused, WebDies, DispatchSync, DispatchDurable,
       DispatchLocal, ReclaimStops, Reclaim, ReclaimWaits
  <2> QED
    BY <2>1 DEF EarlyInv
<1>5. CASE \E u \in Users : UserReads(u) \/ UserStep(u) \/ UserRefused(u)
  <2>1. PICK u \in Users : UserReads(u) \/ UserStep(u) \/ UserRefused(u)
    BY <1>5
  <2>2. status \in Awaiting \/ user[u].pc # "idle"
    BY <2>1 DEF UserReads, UserStep, UserWrites, UserExecutes, UserEnqueues, UserRefused
  <2>3. web' = web
    BY <2>1 DEF UserReads, UserStep, UserWrites, UserExecutes, UserEnqueues, UserRefused
  <2> QED
    BY <2>2, <2>3 DEF EarlyInv, Awaiting
<1>6. CASE UNCHANGED vars
  BY <1>6 DEF vars, run, people, EarlyInv
<1> QED
  BY <1>1, <1>2, <1>3, <1>4, <1>5, <1>6 DEF Next

LEMMA Undisturbed == ASSUME AgentRunsAssumption PROVE Spec => []EarlyInv
<1>1. Init => EarlyInv
  BY DEF Init, EarlyInv, NoCall
<1>2. TypeOK /\ EarlyInv /\ [Next]_vars => EarlyInv'
  BY EarlyStep
<1>3. AgentInv => TypeOK
  BY DEF AgentInv
<1> QED
  BY <1>1, <1>2, <1>3, Invariant, AgentRunsAssumption, PTL DEF Spec

\* A step that leaves the verdict alone keeps a settled run settled if the one call it
\* moves does not come near a write.
LEMMA SettledFrame ==
  ASSUME Settled, NEW c \in Calls, status' = status,
         \A u \in Users : user'[u].pc # "write",
         \A d \in Calls \ {c} : call'[d] = call[d], ~MayStillWrite(c)'
  PROVE  status' = status /\ Settled'
BY DEF Settled, MayStillWrite

LEMMA SettledStill ==
  ASSUME Settled, status' = status, \A u \in Users : user'[u].pc # "write", call' = call
  PROVE  status' = status /\ Settled'
BY DEF Settled, MayStillWrite

\* A call of somebody who is not the local fallback begins.
LEMMA SettledBegin ==
  ASSUME TypeOK, Settled, status' = status, \A u \in Users : user'[u].pc # "write",
         NEW c \in Calls, NEW o \in {"sync", "job", "reclaim"}, NEW a \in 1..2,
         Begin(c, o, a)
  PROVE  status' = status /\ Settled'
<1>1. o \in Origins
  BY DEF Origins
<1>2. /\ call'[c].pc = "read" /\ call'[c].origin = o
      /\ \A d \in Calls \ {c} : call'[d] = call[d]
  BY <1>1, BeginTyped
<1> QED
  BY <1>2, SettledFrame DEF MayStillWrite, Working

LEMMA SettledCall ==
  ASSUME TypeOK, Settled, NEW c \in Calls, CallStep(c)
  PROVE  status' = status /\ Settled'
<1>1. status \in Ended /\ status \notin Open /\ ~MayStillWrite(c)
  BY DEF Settled, Ended, Open
<1>2. call[c] \in Call
  BY DEF TypeOK
<1>3. Note(c) \/ ReadRun(c) \/ CountSteps(c) \/ QuickClaim(c) \/ Claim(c) \/ Salvage(c)
  BY <1>1 DEF MayStillWrite, Working, CallStep, CrmDesk, QuickStep, QuickRun, Plan,
     AskUser, StopBefore, SkipOptional, StartStep, StepDone, StepProposes, StepFails,
     LoopDone, FinishRun, GiveUp
<1>4. \A u \in Users : user'[u].pc # "write"
  BY <1>3 DEF Note, ReadRun, CountSteps, QuickClaim, Claim, Salvage, people, Settled
<1>5. status' = status
  BY <1>1, <1>3 DEF Note, ReadRun, CountSteps, QuickClaim, QuickClaimable, Claim,
     Claimable, Salvage, Salvageable, run, Ended, Open
<1>6. CASE Note(c) \/ Salvage(c)
  <2>1. call' = [call EXCEPT ![c] = NoCall]
    BY <1>6 DEF Note, Salvage
  <2>2. call'[c] = NoCall /\ \A d \in Calls \ {c} : call'[d] = call[d]
    BY <2>1, NoCallTyped, CallUpdate
  <2> QED
    BY <1>4, <1>5, <2>2, SettledFrame DEF MayStillWrite, NoCall, Working
<1>7. CASE Return(c)
  <2>1. /\ call'[c] = NoCall \/ call'[c] = [call[c] EXCEPT !.pc = "note"]
        /\ \A d \in Calls \ {c} : call'[d] = call[d]
    BY <1>7, ReturnTyped
  <2>2. call[c].pc # "idle"
    BY <1>3 DEF Note, ReadRun, CountSteps, QuickClaim, Claim, Salvage
  <2>3. ~MayStillWrite(c)'
    BY <1>1, <1>2, <2>1, <2>2 DEF MayStillWrite, NoCall, Working, Call
  <2> QED
    BY <1>4, <1>5, <2>1, <2>3, SettledFrame
<1>8. ASSUME NEW p \in {"quickClaim", "claim"}, Goto(c, p), call[c].pc # "idle"
      PROVE  status' = status /\ Settled'
  <2>1. p \in CallPC
    BY DEF CallPC
  <2>2. /\ call'[c] = [call[c] EXCEPT !.pc = p]
        /\ \A d \in Calls \ {c} : call'[d] = call[d]
    BY <1>8, <2>1, GotoTyped
  <2>3. ~MayStillWrite(c)'
    BY <1>1, <1>2, <1>8, <2>2 DEF MayStillWrite, Working, Call
  <2> QED
    BY <1>4, <1>5, <2>2, <2>3, SettledFrame
<1>9. CASE ReadRun(c)
  BY <1>1, <1>7, <1>9 DEF ReadRun
<1>10. CASE CountSteps(c)
  <2>1. call[c].mode # "crm" /\ call[c].pc # "idle"
    BY <1>1, <1>10 DEF CountSteps, MayStillWrite
  <2>2. Entry(c) \in {"none", "quickClaim", "claim"}
    BY <2>1 DEF Entry
  <2> QED
    BY <1>7, <1>8, <1>10, <2>1, <2>2 DEF CountSteps
<1>11. CASE QuickClaim(c)
  BY <1>1, <1>8, <1>11 DEF QuickClaim, QuickClaimable
<1>12. CASE Claim(c)
  BY <1>1, <1>7, <1>12 DEF Claim, Claimable
<1> QED
  BY <1>3, <1>6, <1>9, <1>10, <1>11, <1>12

LEMMA SettledFault ==
  ASSUME TypeOK, Settled, NEW c \in Calls, CallFault(c)
  PROVE  status' = status /\ Settled'
<1>1. status' = status /\ \A u \in Users : user'[u].pc # "write"
  BY DEF CallFault, Throw, Die, Redeliver, run, people, Settled
<1>2. ~MayStillWrite(c)
  BY DEF Settled
<1>3. call[c] \in Call /\ call[c].attempt \in 1..2
  BY CallTyped
<1>4. CASE Throw(c)
  <2>1. call[c].origin # "local"
    BY <1>2, <1>4 DEF Throw, MayStillWrite
  <2>2. \/ call' = [call EXCEPT ![c] = Fresh("sync", 2)]
        \/ call' = [call EXCEPT ![c] = [call[c] EXCEPT !.pc = "salvage"]]
        \/ call' = [call EXCEPT ![c] = NoCall]
    BY <1>4, <2>1 DEF Throw, JobAttempts
  <2>3. CASE call' = [call EXCEPT ![c] = Fresh("sync", 2)]
    <3>1. /\ Fresh("sync", 2) \in Call
          /\ Fresh("sync", 2).pc = "read" /\ Fresh("sync", 2).origin = "sync"
      BY FreshTyped DEF Origins
    <3>2. call'[c] = Fresh("sync", 2) /\ \A d \in Calls \ {c} : call'[d] = call[d]
      BY <2>3, <3>1, CallUpdate
    <3> QED
      BY <1>1, <3>1, <3>2, SettledFrame DEF MayStillWrite, Working
  <2>4. CASE call' = [call EXCEPT ![c] = [call[c] EXCEPT !.pc = "salvage"]]
    <3>1. [call[c] EXCEPT !.pc = "salvage"] \in Call
      BY <1>3 DEF Call, CallPC
    <3>2. /\ call'[c] = [call[c] EXCEPT !.pc = "salvage"]
          /\ \A d \in Calls \ {c} : call'[d] = call[d]
      BY <2>4, <3>1, CallUpdate
    <3> QED
      BY <1>1, <1>3, <2>1, <3>2, SettledFrame DEF MayStillWrite, Working, Call
  <2>5. CASE call' = [call EXCEPT ![c] = NoCall]
    <3>1. call'[c] = NoCall /\ \A d \in Calls \ {c} : call'[d] = call[d]
      BY <2>5, NoCallTyped, CallUpdate
    <3> QED
      BY <1>1, <3>1, SettledFrame DEF MayStillWrite, Working, NoCall
  <2> QED
    BY <2>2, <2>3, <2>4, <2>5
<1>5. CASE Die(c)
  <2>1. call'[c] = NoCall /\ \A d \in Calls \ {c} : call'[d] = call[d]
    BY <1>5, NoCallTyped, CallUpdate DEF Die
  <2> QED
    BY <1>1, <2>1, SettledFrame DEF MayStillWrite, Working, NoCall
<1>6. CASE Redeliver(c)
  BY <1>1, <1>6, SettledStill DEF Redeliver
<1> QED
  BY <1>4, <1>5, <1>6 DEF CallFault

LEMMA SettledOthers ==
  ASSUME TypeOK, EarlyInv, Settled,
         \/ Work \/ \E a \in 1..JobAttempts : LoseJob(a)
         \/ CreateRun \/ WebStep \/ DispatchRefused \/ WebDies
         \/ \E u \in Users : UserReads(u) \/ UserStep(u) \/ UserRefused(u)
  PROVE  status' = status /\ Settled'
<1>1. web \notin {"new", "dispatch"} /\ status \notin Awaiting
  BY DEF EarlyInv, Settled, Ended, Awaiting
<1>2. CASE Work
  <2>1. PICK c \in Calls, a \in 1..2 : TakeJob(c, a)
    BY <1>2 DEF Work, JobAttempts
  <2> QED
    BY <2>1, SettledBegin DEF TakeJob, run, people, Settled
<1>3. CASE \E a \in 1..JobAttempts : LoseJob(a)
  BY <1>3, SettledStill DEF LoseJob, run, people, Settled
<1>4. CASE CreateRun \/ WebStep \/ DispatchRefused \/ WebDies
  <2>1. ReclaimStops \/ Reclaim \/ ReclaimWaits \/ WebDies
    BY <1>1, <1>4 DEF CreateRun, WebStep, DispatchRefused, DispatchSync, DispatchDurable,
       DispatchLocal
  <2>2. CASE Reclaim
    <3>1. PICK c \in Calls : Begin(c, "reclaim", 1)
      BY <2>2 DEF Reclaim
    <3> QED
      BY <2>2, <3>1, SettledBegin DEF Reclaim, run, people, Settled
  <2>3. CASE ReclaimStops \/ ReclaimWaits \/ WebDies
    BY <2>3, SettledStill DEF ReclaimStops, ReclaimWaits, WebDies, run, people, Settled
  <2> QED
    BY <2>1, <2>2, <2>3
<1>5. ASSUME NEW u \in Users, UserReads(u) \/ UserStep(u) \/ UserRefused(u)
      PROVE  status' = status /\ Settled'
  <2>1. UserExecutes(u) \/ UserEnqueues(u) \/ UserRefused(u)
    BY <1>1, <1>5 DEF UserReads, UserStep, UserWrites, Settled
  <2>2. user' = [user EXCEPT ![u].pc = "idle"] /\ status' = status
    BY <2>1 DEF UserExecutes, UserEnqueues, UserRefused, run
  <2>3. \A v \in Users : user'[v].pc # "write"
    BY <2>2 DEF Settled, TypeOK
  <2>4. CASE UserExecutes(u)
    <3>1. PICK c \in Calls : Begin(c, "sync", 1)
      BY <2>4 DEF UserExecutes
    <3> QED
      BY <2>2, <2>3, <3>1, SettledBegin
  <2>5. CASE UserEnqueues(u) \/ UserRefused(u)
    BY <2>2, <2>3, <2>5, SettledStill DEF UserEnqueues, UserRefused
  <2> QED
    BY <2>1, <2>4, <2>5
<1> QED
  BY <1>2, <1>3, <1>4, <1>5

\* Once a run has ended and nobody is on the way to a write by id, the verdict is final:
\* the claims and the salvage name the statuses they take, a call that reads the row or
\* begins later returns, and only the request that created the run starts the fallback
\* that writes FAILED without looking.
THEOREM VerdictKept == Spec => VerdictStays
<1>1. AgentInv /\ EarlyInv /\ [Next]_vars =>
        [Settled => status' = status /\ Settled']_vars
  <2> SUFFICES ASSUME AgentInv, EarlyInv, Next, Settled
               PROVE  status' = status /\ Settled'
    BY DEF vars
  <2>1. TypeOK
    BY DEF AgentInv
  <2> QED
    BY <2>1, SettledCall, SettledFault, SettledOthers DEF Next
<1> QED
  BY <1>1, Invariant, Undisturbed, AgentRunsAssumption, PTL DEF Spec, VerdictStays
=============================================================================
