--------------------------- MODULE FollowUpsProofs ---------------------------
(* The follow-ups drive the outbound dispatch the way its own specification    *)
(* allows, and SENT means that the provider accepted the message, for any      *)
(* number of follow-ups, requests, sweeps and people and any bounds.           *)
EXTENDS FollowUps, OutboundDispatchProofs

USE OutboundAssumption, FollowUpAssumption
USE DEF rows, leasing, contact, local, bounds, ghosts
USE DEF frame, mine, world, marks

-----------------------------------------------------------------------------
(* Type correctness *)

\* A sweep that is not idle has a row in hand, a person a request.
SweepsOK ==
  \A s \in Sweeps :
    /\ step[s] \in {"idle", "check", "request", "write", "wait"}
    /\ step[s] # "idle" => cur[s] \in Rows
PeopleOK ==
  \A p \in People :
    /\ step[p] \in {"idle", "decide", "call", "wait"}
    /\ step[p] # "idle" => subject[p] \in Requests

\* The locals of sweeps and people.
MineOK ==
  /\ step \in [Calls -> Step]
  /\ todo \in [Calls -> SUBSET Rows]
  /\ cur \in [Calls -> Rows \cup {NoKey}]
  /\ subject \in [Calls -> Requests \cup {NoRequest}]
  /\ decision \in [Calls -> {"APPROVED", "REJECTED"}]
  /\ answer \in [Calls -> Answer]
  /\ SweepsOK /\ PeopleOK

\* Everything else.
FrameOK ==
  /\ status \in [Rows -> RowStatus]
  /\ pending \subseteq Requests /\ rejected \subseteq Requests
  /\ schedule \in {"no", "create"}
  /\ cancels \in Nat /\ aborts \in Nat
  /\ endorsed \subseteq Rows /\ vetoed \subseteq Calls /\ met \subseteq Rows
  /\ intime \subseteq Rows /\ crowded \subseteq Rows

LEMMA FollowUpTypeParts == MineOK /\ FrameOK => FollowUpTypeOK
BY DEF MineOK, FrameOK, FollowUpTypeOK

LEMMA AboutRows == \A r \in Requests : About[r] \in Rows
BY DEF Rows

LEMMA LeaveType ==
  ASSUME MineOK, NEW c \in Calls, Leave(c)
  PROVE  MineOK'
BY DEF MineOK, SweepsOK, PeopleOK, Leave, Goto, Step, Answer

\* A sweep that turns to its next row keeps its locals typed.
LEMMA TurnType ==
  ASSUME MineOK, NEW s \in Sweeps, NEW S \in SUBSET Rows, Turn(s, S),
         UNCHANGED <<subject, decision>>,
         answer' = answer \/ answer' = [answer EXCEPT ![s] = "refused"]
  PROVE  MineOK'
<1>1. PICK f \in S : cur' = [cur EXCEPT ![s] = f] /\ todo' = [todo EXCEPT ![s] = S \ {f}]
  BY DEF Turn
<1>2. step' = [step EXCEPT ![s] = "check"]
  BY DEF Turn, Goto
<1>3. answer' \in [Calls -> Answer]
  BY DEF MineOK, Answer
<1> QED
  BY <1>1, <1>2, <1>3 DEF MineOK, SweepsOK, PeopleOK, Step

\* Every step of the sweeps and the people keeps their locals typed.
LEMMA MineStep == LocalOK /\ MineOK /\ FrameOK /\ [FNext]_allvars => MineOK'
<1> SUFFICES ASSUME LocalOK, MineOK, FrameOK, [FNext]_allvars PROVE MineOK'
  OBVIOUS
<1>1. CASE UNCHANGED mine
  BY <1>1 DEF MineOK, SweepsOK, PeopleOK
<1>2. ASSUME NEW c \in Calls, Leave(c) PROVE MineOK'
  BY <1>2, LeaveType
<1>3. ASSUME NEW s \in Sweeps, Select(s) PROVE MineOK'
  BY <1>3, TurnType DEF Select
<1>4. ASSUME NEW s \in Sweeps, CheckRefuses(s) \/ CheckSends(s) \/ CheckAsks(s) \/ Request(s)
      PROVE MineOK'
  <2>1. PICK next \in {"write", "wait", "request"} : step' = [step EXCEPT ![s] = next]
    BY <1>4 DEF CheckRefuses, CheckSends, Ask, CheckAsks, Request, Goto
  <2>2. step[s] # "idle" /\ UNCHANGED <<todo, cur, subject, decision, answer>>
    BY <1>4 DEF CheckRefuses, CheckSends, Ask, CheckAsks, Request
  <2> QED
    BY <2>1, <2>2 DEF MineOK, SweepsOK, PeopleOK, Step
<1>5. ASSUME NEW s \in Sweeps, WriteCancelled(s) \/ WriteOutcome(s) PROVE MineOK'
  <2>1. PICK st : Store(s, st)
    BY <1>5 DEF WriteCancelled, WriteOutcome
  <2>2. CASE Leave(s)
    BY <2>2, LeaveType
  <2>3. CASE ~Leave(s)
    <3>1. todo[s] \in SUBSET Rows
      BY DEF MineOK
    <3> QED
      BY <2>1, <2>3, <3>1, TurnType DEF Store
  <2> QED
    BY <2>2, <2>3
<1>6. ASSUME NEW p \in People, ReadRequest(p) PROVE MineOK'
  <2>1. PICK r \in pending : subject' = [subject EXCEPT ![p] = r]
    BY <1>6 DEF ReadRequest
  <2>2. PICK d \in {"APPROVED", "REJECTED"} : decision' = [decision EXCEPT ![p] = d]
    BY <1>6 DEF ReadRequest
  <2>3. step' = [step EXCEPT ![p] = "decide"] /\ UNCHANGED <<todo, cur, answer>>
    BY <1>6 DEF ReadRequest, Goto
  <2> QED
    BY <2>1, <2>2, <2>3 DEF MineOK, FrameOK, SweepsOK, PeopleOK, Step
<1>7. ASSUME NEW p \in People, StoreApproval(p) \/ PersonCalls(p) PROVE MineOK'
  <2>1. PICK next \in {"call", "wait"} : step' = [step EXCEPT ![p] = next]
    BY <1>7 DEF StoreApproval, PersonCalls, Ask, Goto
  <2>2. step[p] # "idle" /\ UNCHANGED <<todo, cur, subject, decision, answer>>
    BY <1>7 DEF StoreApproval, PersonCalls, Ask
  <2> QED
    BY <2>1, <2>2 DEF MineOK, SweepsOK, PeopleOK, Step
<1>8. ASSUME NEW c \in Calls, DispatchStep(c) \/ DispatchThrows(c) PROVE MineOK'
  <2>1. PICK a \in Answer : answer' = [answer EXCEPT ![c] = a]
    BY <1>8 DEF DispatchStep, DispatchThrows, Heard, Answered, MineOK, Answer
  <2>2. UNCHANGED <<step, todo, cur, subject, decision>>
    BY <1>8 DEF DispatchStep, DispatchThrows
  <2> QED
    BY <2>1, <2>2 DEF MineOK, SweepsOK, PeopleOK
<1> QED
  BY <1>1, <1>2, <1>3, <1>4, <1>5, <1>6, <1>7, <1>8
     DEF FNext, SweepStep, PersonStep, StoreRejection, MarkSent, DispatchDies, Escape,
         Abort, Cancel, Handoff, Reschedule, CancelPending, Create, Message, fvars, allvars

\* Every step keeps the rows, the requests and the counters typed.
LEMMA FrameStep == LocalOK /\ MineOK /\ FrameOK /\ [FNext]_allvars => FrameOK'
<1> SUFFICES ASSUME LocalOK, MineOK, FrameOK, [FNext]_allvars PROVE FrameOK'
  OBVIOUS
<1> USE DEF FrameOK
<1>1. CASE UNCHANGED <<frame, world, marks>>
  BY <1>1
<1>2. CASE Cancel \/ Handoff \/ Reschedule \/ Create
  <2>1. status' \in [Rows -> RowStatus]
    BY <1>2 DEF Cancel, Handoff, Reschedule, CancelPending, Create, RowStatus
  <2>2. intime' \subseteq Rows
    BY <1>2 DEF Cancel, Handoff, Reschedule, CancelPending, Create
  <2> QED
    BY <1>2, <2>1, <2>2 DEF Cancel, Handoff, Reschedule, CancelPending, Create
<1>3. ASSUME NEW s \in Sweeps, Select(s) PROVE FrameOK'
  <2>1. met' \subseteq Rows
    BY <1>3 DEF Select
  <2> QED
    BY <1>3, <2>1 DEF Select
<1>4. ASSUME NEW c \in Calls, NEW f \in Rows, NEW r, Ask(c, f, r) PROVE FrameOK'
  <2>1. crowded' \subseteq Rows /\ vetoed' \subseteq Calls
    BY <1>4 DEF Ask
  <2> QED
    BY <1>4, <2>1 DEF Ask
<1>5. ASSUME NEW s \in Sweeps, CheckSends(s) PROVE FrameOK'
  BY <1>4, <1>5 DEF CheckSends, MineOK, SweepsOK
<1>6. ASSUME NEW p \in People, PersonCalls(p) PROVE FrameOK'
  BY <1>4, <1>6, AboutRows DEF PersonCalls, MineOK, PeopleOK
<1>7. ASSUME NEW s \in Sweeps, Request(s) PROVE FrameOK'
  <2>1. pending' \subseteq Requests
    BY <1>7 DEF Request
  <2> QED
    BY <1>7, <2>1 DEF Request
<1>8. ASSUME NEW s \in Sweeps, WriteCancelled(s) \/ WriteOutcome(s) PROVE FrameOK'
  <2>1. PICK st \in RowStatus : Store(s, st)
    BY <1>8 DEF WriteCancelled, WriteOutcome, StoredAs, MineOK, Answer, RowStatus
  <2>2. status' \in [Rows -> RowStatus]
    BY <2>1 DEF Store
  <2> QED
    BY <2>1, <2>2 DEF Store
<1>9. ASSUME NEW p \in People, StoreApproval(p) \/ StoreRejection(p) PROVE FrameOK'
  <2>1. subject[p] \in Requests
    BY <1>9 DEF StoreApproval, StoreRejection, MineOK, PeopleOK
  <2>2. pending' \subseteq Requests /\ rejected' \subseteq Requests
    BY <1>9, <2>1 DEF StoreApproval, StoreRejection
  <2>3. endorsed' \subseteq Rows
    BY <1>9, <2>1, AboutRows DEF StoreApproval, StoreRejection
  <2> QED
    BY <1>9, <2>2, <2>3 DEF StoreApproval, StoreRejection
<1>10. ASSUME NEW p \in People, MarkSent(p) PROVE FrameOK'
  <2>1. status' \in [Rows -> RowStatus]
    BY <1>10 DEF MarkSent, RowStatus
  <2> QED
    BY <1>10, <2>1 DEF MarkSent
<1>11. ASSUME NEW c \in Calls, Abort(c) PROVE FrameOK'
  BY <1>11 DEF Abort
<1> QED
  BY <1>1, <1>2, <1>3, <1>5, <1>6, <1>7, <1>8, <1>9, <1>10, <1>11
     DEF FNext, SweepStep, PersonStep, CheckRefuses, CheckAsks, ReadRequest, DispatchStep,
         DispatchThrows, DispatchDies, Escape, Message, fvars, allvars

-----------------------------------------------------------------------------
(* The follow-ups as users of the dispatch *)

\* What follow-ups, sweeps and people do to the dispatch is what its callers and
\* surroundings may do.
LEMMA DispatchSimulation == MineOK /\ [FNext]_allvars => [Next]_vars
<1> SUFFICES ASSUME MineOK, [FNext]_allvars PROVE [Next]_vars
  OBVIOUS
<1>1. CASE UNCHANGED vars
  BY <1>1
<1>2. ASSUME NEW s \in Sweeps, CheckSends(s) PROVE Next
  <2>1. cur[s] \in Keys /\ StartWith(s, cur[s], NoRequest)
    BY <1>2 DEF CheckSends, Ask, MineOK, SweepsOK, Rows
  <2>2. Start(s)
    BY <2>1 DEF Start
  <2> QED
    BY <2>2 DEF Next
<1>3. ASSUME NEW p \in People, PersonCalls(p) PROVE Next
  <2>1. subject[p] \in Requests /\ About[subject[p]] \in Keys
    BY <1>3 DEF PersonCalls, MineOK, PeopleOK
  <2>2. Start(p)
    BY <1>3, <2>1 DEF PersonCalls, Ask, Start
  <2> QED
    BY <2>2 DEF Next
<1>4. ASSUME NEW p \in People, StoreApproval(p) \/ StoreRejection(p), ~ UNCHANGED vars
      PROVE Next
  <2>1. subject[p] \in Requests
    BY <1>4 DEF StoreApproval, StoreRejection, MineOK, PeopleOK
  <2>2. Approve(subject[p]) \/ Overrule(subject[p])
    BY <1>4 DEF StoreApproval, StoreRejection
  <2> QED
    BY <2>1, <2>2 DEF Next
<1>5. ASSUME NEW c \in Calls, DispatchStep(c) \/ DispatchThrows(c) \/ DispatchDies(c)
      PROVE Next
  BY <1>5 DEF DispatchStep, DispatchThrows, DispatchDies, Next
<1>6. CASE Message \/ Handoff
  BY <1>6 DEF Message, Handoff, Next
<1> QED
  BY <1>1, <1>2, <1>3, <1>4, <1>5, <1>6
     DEF FNext, SweepStep, PersonStep, Select, CheckRefuses, CheckAsks, Request,
         WriteCancelled, WriteOutcome, Store, ReadRequest, MarkSent, Escape, Abort, Cancel, Handoff,
         Reschedule, CancelPending, Create, allvars

LEMMA FInitTypes == FInit => Init /\ MineOK /\ FrameOK
BY DEF FInit, MineOK, SweepsOK, PeopleOK, FrameOK, Step, Answer, RowStatus

\* Everything the follow-ups keep has its type in every behaviour.
THEOREM FollowUpTypeCorrect == FSpec => []FollowUpTypeOK
<1> DEFINE Typed == LocalOK /\ SharedOK /\ MineOK /\ FrameOK
<1>1. FInit => Typed
  BY FInitTypes, InitTypes
<1>2. Typed /\ [FNext]_allvars => Typed'
  BY DispatchSimulation, LocalStep, SharedStep, MineStep, FrameStep
<1>3. Typed => FollowUpTypeOK
  BY FollowUpTypeParts
<1> QED
  BY <1>1, <1>2, <1>3, PTL DEF FSpec

\* Sweeps and people implement the callers of OutboundDispatch: with the follow-ups'
\* own state hidden, every behaviour is one of the dispatch's, whose theorems hold here.
THEOREM FollowUpsUseDispatch == FSpec => Spec
<1> DEFINE Typed == LocalOK /\ MineOK /\ FrameOK /\ SharedOK
<1>1. FInit => Init /\ Typed
  BY FInitTypes, InitTypes
<1>2. Typed /\ [FNext]_allvars => Typed' /\ [Next]_vars
  BY DispatchSimulation, LocalStep, SharedStep, MineStep, FrameStep
<1> QED
  BY <1>1, <1>2, PTL DEF FSpec, Spec

\* What sweeps and people send is CONFIRMED only if the provider has it, and a dispatch that
\* begins after the opt-out sends nothing, whichever of them began it.
COROLLARY FollowUpsStayTruthful == FSpec => []ConfirmedMeansSent /\ []LateCallsNeverSend
<1> QED
  BY FollowUpsUseDispatch, OverlapCorrect, PTL

-----------------------------------------------------------------------------
(* What SENT means *)

\* The row whose message the sweep or the person sends.
RowOf(c) == IF c \in Sweeps THEN cur[c] ELSE About[subject[c]]

\* Calls run while somebody waits for them, each on the row in hand.
Waiting ==
  \A c \in Calls :
    /\ step[c] # "wait" => pc[c] = "idle" /\ answer[c] = "refused"
    /\ pc[c] # "idle" => key[c] = RowOf(c)

\* A dispatch that is taken for a success has reached the provider.
TrueAnswer == \A c \in Calls : step[c] = "wait" /\ answer[c] = "ok" => sends[RowOf(c)] > 0

SentInv == TrueReply /\ Waiting /\ TrueAnswer /\ SentMeansSent

\* A step of the sweep or the person c.
Own(c) ==
  \/ c \in Sweeps /\ SweepStep(c)
  \/ c \in People /\ PersonStep(c)
  \/ DispatchThrows(c) \/ DispatchDies(c) \/ Escape(c) \/ Abort(c)

\* What c's properties are about.
Same(c) ==
  /\ pc'[c] = pc[c] /\ key'[c] = key[c]
  /\ step'[c] = step[c] /\ todo'[c] = todo[c] /\ cur'[c] = cur[c]
  /\ subject'[c] = subject[c] /\ answer'[c] = answer[c]

\* One sweep or one person moves at a time.
LEMMA OneActs ==
  ASSUME LocalOK, MineOK, [FNext]_allvars, NEW c \in Calls
  PROVE  Own(c) \/ Same(c)
<1> USE DEF Same
<1>1. ASSUME NEW d \in Calls, d # c, Leave(d), pc'[c] = pc[c], key'[c] = key[c]
      PROVE Same(c)
  BY <1>1 DEF Leave, Goto, MineOK
<1>2. ASSUME NEW d \in Calls, d # c, NEW f \in Rows, NEW r \in Requests \cup {NoRequest},
             Ask(d, f, r)
      PROVE Same(c)
  <2>1. Start(d)
    BY <1>2 DEF Ask, Start, Rows
  <2>2. pc'[c] = pc[c] /\ key'[c] = key[c]
    BY <1>2, <2>1, OthersKeep
  <2> QED
    BY <1>2, <2>2 DEF Ask, Goto, MineOK
<1>3. ASSUME NEW s \in Sweeps, s # c, SweepStep(s) PROVE Same(c)
  <2>1. CASE Select(s)
    BY <1>3, <2>1 DEF Select, Turn, Goto, MineOK, vars
  <2>2. CASE WriteCancelled(s) \/ WriteOutcome(s)
    <3>1. PICK st : Store(s, st)
      BY <2>2 DEF WriteCancelled, WriteOutcome
    <3>2. pc'[c] = pc[c] /\ key'[c] = key[c]
      BY <3>1 DEF Store, vars
    <3> QED
      BY <1>1, <1>3, <3>1, <3>2 DEF Store, Turn, Goto, MineOK
  <2>3. CASE CheckSends(s)
    BY <1>2, <1>3, <2>3 DEF CheckSends, MineOK, SweepsOK
  <2>4. CASE DispatchStep(s)
    <3>1. pc'[c] = pc[c] /\ key'[c] = key[c]
      BY <1>3, <2>4, OthersKeep DEF DispatchStep
    <3> QED
      BY <1>3, <2>4, <3>1 DEF DispatchStep, MineOK
  <2>5. CASE CheckRefuses(s) \/ CheckAsks(s) \/ Request(s)
    BY <1>3, <2>5 DEF CheckRefuses, CheckAsks, Request, Goto, MineOK, vars
  <2> QED
    BY <1>3, <2>1, <2>2, <2>3, <2>4, <2>5 DEF SweepStep
<1>4. ASSUME NEW p \in People, p # c, PersonStep(p) PROVE Same(c)
  <2>1. CASE ReadRequest(p)
    BY <1>4, <2>1 DEF ReadRequest, Goto, MineOK, vars
  <2>2. CASE StoreApproval(p)
    BY <1>4, <2>2 DEF StoreApproval, Approve, Goto, MineOK
  <2>3. CASE StoreRejection(p)
    <3>1. pc'[c] = pc[c] /\ key'[c] = key[c]
      BY <2>3 DEF StoreRejection, Overrule, vars
    <3> QED
      BY <1>1, <1>4, <2>3, <3>1 DEF StoreRejection
  <2>4. CASE PersonCalls(p)
    BY <1>2, <1>4, <2>4, AboutRows DEF PersonCalls, MineOK, PeopleOK
  <2>5. CASE DispatchStep(p)
    <3>1. pc'[c] = pc[c] /\ key'[c] = key[c]
      BY <1>4, <2>5, OthersKeep DEF DispatchStep
    <3> QED
      BY <1>4, <2>5, <3>1 DEF DispatchStep, MineOK
  <2>6. CASE MarkSent(p)
    BY <1>1, <1>4, <2>6 DEF MarkSent, vars
  <2> QED
    BY <1>4, <2>1, <2>2, <2>3, <2>4, <2>5, <2>6 DEF PersonStep
<1>5. ASSUME NEW d \in Calls, d # c, DispatchThrows(d) \/ DispatchDies(d) \/ Escape(d) \/ Abort(d)
      PROVE Same(c)
  <2>1. pc'[c] = pc[c] /\ key'[c] = key[c]
    BY <1>5, OthersKeep DEF DispatchThrows, DispatchDies, Escape, Abort, vars
  <2> QED
    BY <1>1, <1>5, <2>1 DEF DispatchThrows, DispatchDies, Escape, Abort, MineOK
<1>6. CASE UNCHANGED <<pc, key, mine>>
  BY <1>6
<1> QED
  BY <1>3, <1>4, <1>5, <1>6
     DEF Own, FNext, Cancel, Handoff, Reschedule, CancelPending, Create, Message, Activity, vars,
         fvars, allvars

\* Whoever asks for a message waits for the call, which is about the row in hand.
LEMMA AskWaits ==
  ASSUME LocalOK, MineOK, Waiting, NEW c \in Calls, NEW r, step[c] # "wait",
         Ask(c, RowOf(c), r)
  PROVE  step'[c] = "wait" /\ answer'[c] = "refused" /\ key'[c] = RowOf(c)'
BY DEF Ask, StartWith, Goto, LocalOK, MineOK, Waiting, RowOf

LEMMA LeaveIdle ==
  ASSUME MineOK, NEW c \in Calls, Leave(c)
  PROVE  step'[c] = "idle" /\ answer'[c] = "refused"
BY DEF Leave, Goto, MineOK

\* What the steps of the sweep or the person c do to its own call.
LEMMA OwnWaits ==
  ASSUME LocalOK, MineOK, FrameOK, Waiting, NEW c \in Calls, Own(c)
  PROVE  /\ step'[c] # "wait" => pc'[c] = "idle" /\ answer'[c] = "refused"
         /\ pc'[c] # "idle" => key'[c] = RowOf(c)'
         /\ step'[c] = "wait" /\ answer'[c] = "ok" =>
              /\ step[c] = "wait" /\ RowOf(c)' = RowOf(c)
              /\ answer[c] = "ok" \/ (DispatchStep(c) /\ Heard(c) = "ok")
<1>0. /\ step[c] # "wait" => pc[c] = "idle" /\ answer[c] = "refused"
      /\ pc[c] # "idle" => key[c] = RowOf(c)
  BY DEF Waiting
<1>1. CASE DispatchStep(c) \/ DispatchThrows(c)
  <2>1. step' = step /\ cur' = cur /\ subject' = subject /\ step[c] = "wait"
    BY <1>1 DEF DispatchStep, DispatchThrows
  <2>2. RowOf(c)' = RowOf(c)
    BY <2>1 DEF RowOf
  <2>3. pc[c] # "idle" /\ ~Start(c)
    BY <1>1 DEF DispatchStep, DispatchThrows, CallStep, Throw, Start, StartWith, Approval,
       Lookup, Interrupt, Gate1, ReadConversation, Prepare, Invalidate, LeaseLook,
       LeaseUpdate, LeaseCreate, Recheck, Gate2, Credential, Fail, Dispatch, Send,
       Conclude, Release
  <2>4. UNCHANGED key \/ Return(c)
    BY <1>1, <2>3, OwnStep DEF DispatchStep, DispatchThrows
  <2>5. pc'[c] # "idle" => key'[c] = key[c]
    BY <2>4 DEF Return, Go, LocalOK
  <2>6. answer'[c] = "ok" => answer[c] = "ok" \/ (DispatchStep(c) /\ Heard(c) = "ok")
    BY <1>1 DEF DispatchStep, DispatchThrows, MineOK
  <2> QED
    BY <1>0, <2>1, <2>2, <2>3, <2>5, <2>6
<1>2. CASE DispatchDies(c)
  BY <1>2, LeaveIdle DEF DispatchDies, Crash, Return, Go, LocalOK
<1>3. CASE Escape(c) \/ Abort(c)
  BY <1>0, <1>3, LeaveIdle DEF Escape, Abort, vars
<1>4. CASE c \in Sweeps /\ CheckSends(c)
  <2>1. Ask(c, RowOf(c), NoRequest) /\ step[c] # "wait"
    BY <1>4 DEF CheckSends, RowOf
  <2> QED
    BY <2>1, AskWaits
<1>5. CASE c \in People /\ PersonCalls(c)
  <2>1. Ask(c, RowOf(c), subject[c]) /\ step[c] # "wait"
    BY <1>5 DEF PersonCalls, RowOf
  <2> QED
    BY <2>1, AskWaits
<1>6. CASE c \in Sweeps /\ (WriteCancelled(c) \/ WriteOutcome(c))
  <2>1. PICK st : Store(c, st)
    BY <1>6 DEF WriteCancelled, WriteOutcome
  <2>2. pc[c] = "idle" /\ pc' = pc
    BY <1>0, <1>6, <2>1 DEF WriteCancelled, WriteOutcome, Store, vars
  <2>3. step'[c] # "wait" /\ answer'[c] = "refused"
    BY <2>1, LeaveIdle DEF Store, Turn, Goto, MineOK
  <2> QED
    BY <2>2, <2>3
<1>7. CASE c \in Sweeps /\ (Select(c) \/ CheckRefuses(c) \/ CheckAsks(c) \/ Request(c))
  BY <1>0, <1>7 DEF Select, Turn, CheckRefuses, CheckAsks, Request, Goto, MineOK, vars
<1>8. CASE c \in People /\ (ReadRequest(c) \/ StoreApproval(c))
  BY <1>0, <1>8 DEF ReadRequest, StoreApproval, Approve, Goto, MineOK, vars
<1>9. CASE c \in People /\ (StoreRejection(c) \/ MarkSent(c))
  BY <1>0, <1>9, LeaveIdle DEF StoreRejection, MarkSent, Overrule, vars
<1> QED
  BY <1>1, <1>2, <1>3, <1>4, <1>5, <1>6, <1>7, <1>8, <1>9 DEF Own, SweepStep, PersonStep

\* A dispatch taken for a success has reached the provider.
LEMMA HeardTrue ==
  ASSUME LocalOK, ConfirmedMeansSent, TrueReply, Waiting, TrueAnswer, NEW c \in Calls,
         DispatchStep(c), Heard(c) = "ok"
  PROVE  sends[RowOf(c)] > 0
<1>1. step[c] = "wait" /\ pc[c] # "idle"
  BY DEF DispatchStep, CallStep, Approval, Lookup, Interrupt, Gate1, ReadConversation,
     Prepare, Invalidate, LeaseLook, LeaseUpdate, LeaseCreate, Recheck, Gate2, Credential,
     Fail, Dispatch, Send, Conclude, Release
<1>2. key[c] \in Keys /\ key[c] = RowOf(c)
  BY <1>1, RunningKey DEF Waiting
<1>3. outcome[key[c]] = "CONFIRMED" \/ reply[c] = "ok" \/ answer[c] = "ok"
  BY DEF Heard, Answered
<1> QED
  BY <1>1, <1>2, <1>3 DEF ConfirmedMeansSent, TrueReply, TrueAnswer

LEMMA SentStep ==
  ASSUME LocalOK, SharedOK, DeliveryInv, MineOK, FrameOK, SentInv, [FNext]_allvars
  PROVE  SentInv'
<1> USE DEF SentInv
<1>1. [Next]_vars
  BY DispatchSimulation
<1>2. TrueReply'
  BY <1>1, TrueReplyStep
<1>3. ASSUME NEW c \in Calls, step[c] = "wait" PROVE RowOf(c) \in Keys
  BY <1>3, AboutRows DEF RowOf, MineOK, SweepsOK, PeopleOK, Rows
<1>4. Waiting'
  <2> SUFFICES ASSUME NEW c \in Calls
               PROVE /\ step'[c] # "wait" => pc'[c] = "idle" /\ answer'[c] = "refused"
                     /\ pc'[c] # "idle" => key'[c] = RowOf(c)'
    BY DEF Waiting
  <2>1. CASE Same(c)
    BY <2>1 DEF Same, Waiting, RowOf
  <2> QED
    BY <2>1, OneActs, OwnWaits
<1>5. TrueAnswer'
  <2> SUFFICES ASSUME NEW c \in Calls, step'[c] = "wait", answer'[c] = "ok"
               PROVE sends'[RowOf(c)'] > 0
    BY DEF TrueAnswer
  <2>1. /\ step[c] = "wait" /\ RowOf(c)' = RowOf(c)
        /\ answer[c] = "ok" \/ (DispatchStep(c) /\ Heard(c) = "ok")
    <3>1. CASE Same(c)
      BY <3>1 DEF Same, RowOf
    <3> QED
      BY <3>1, OneActs, OwnWaits
  <2>2. sends[RowOf(c)] > 0
    BY <2>1, HeardTrue DEF TrueAnswer, DeliveryInv
  <2> QED
    BY <1>1, <1>3, <2>1, <2>2, SendsGrow
<1>6. SentMeansSent'
  <2> SUFFICES ASSUME NEW f \in Rows, status'[f] = "SENT" PROVE sends'[f] > 0
    BY DEF SentMeansSent
  <2>1. sends[f] > 0
    <3>1. CASE status[f] = "SENT"
      BY <3>1 DEF SentMeansSent
    <3>2. ASSUME NEW s \in Sweeps, WriteCancelled(s) \/ WriteOutcome(s), status[f] # "SENT"
          PROVE sends[f] > 0
      <4>1. WriteOutcome(s) /\ f = cur[s] /\ StoredAs(answer[s]) = "SENT"
        BY <3>2 DEF WriteCancelled, WriteOutcome, Store, FrameOK
      <4>2. answer[s] = "ok"
        BY <4>1 DEF WriteOutcome, StoredAs, MineOK, Answer
      <4> QED
        BY <4>1, <4>2 DEF WriteOutcome, TrueAnswer, RowOf
    <3>3. ASSUME NEW p \in People, MarkSent(p), status[f] # "SENT" PROVE sends[f] > 0
      <4>1. f = About[subject[p]] /\ answer[p] = "ok" /\ step[p] = "wait"
        BY <3>3 DEF MarkSent, FrameOK
      <4> QED
        BY <4>1 DEF TrueAnswer, RowOf
    <3>4. CASE status' = status
      BY <3>4 DEF SentMeansSent
    <3>5. CASE Cancel \/ Handoff \/ Reschedule \/ Create
      BY <3>5 DEF Cancel, Handoff, Reschedule, CancelPending, Create, FrameOK, SentMeansSent
    <3> QED
      BY <3>1, <3>2, <3>3, <3>4, <3>5
         DEF FNext, SweepStep, PersonStep, Select, CheckRefuses, CheckSends, CheckAsks,
             Request, ReadRequest, StoreApproval, StoreRejection, PersonCalls, Ask,
             DispatchStep, DispatchThrows, DispatchDies, Escape, Abort, Message, fvars,
             allvars
  <2> QED
    BY <1>1, <2>1, SendsGrow DEF Rows
<1> QED
  BY <1>2, <1>4, <1>5, <1>6

\* A follow-up that says SENT reached the provider, however sweeps, people and
\* cancellations overlap and whatever fails.
THEOREM SentWasSent == FSpec => []SentMeansSent
<1> DEFINE IInv == /\ LocalOK /\ SharedOK /\ DeliveryInv
                   /\ MineOK /\ FrameOK /\ SentInv
<1>1. FInit => IInv
  <2>1. FInit => SentInv
    BY DEF FInit, Init, SentInv, TrueReply, Waiting, TrueAnswer, SentMeansSent
  <2>2. Init => DeliveryInv
    BY DEF Init, DeliveryInv, FreshUnsent, SendingNotFresh, OkMeansSent,
           ConfirmedMeansSent, LateStops
  <2> QED
    BY <2>1, <2>2, FInitTypes, InitTypes
<1>2. IInv /\ [FNext]_allvars => IInv'
  BY DispatchSimulation, LocalStep, SharedStep, DeliveryInvStep, MineStep, FrameStep, SentStep
<1>3. IInv => SentMeansSent
  BY DEF SentInv
<1> QED
  BY <1>1, <1>2, <1>3, PTL DEF FSpec

-----------------------------------------------------------------------------
(* Sent once *)

\* Calls start only with Ask ...
LEMMA StartIsAsk ==
  ASSUME LocalOK, MineOK, Waiting, [FNext]_allvars, NEW c \in Calls, Start(c)
  PROVE  \E f, r : Ask(c, f, r)
<1>1. pc[c] = "idle" /\ pc'[c] # "idle"
  BY DEF Start, StartWith, Go, LocalOK
<1>2. Own(c)
  BY <1>1, OneActs DEF Same
<1>3. ~DispatchStep(c) /\ ~DispatchThrows(c) /\ ~DispatchDies(c)
  BY <1>1 DEF DispatchStep, DispatchThrows, DispatchDies, CallStep, Throw, Crash, Approval,
     Lookup, Interrupt, Gate1, ReadConversation, Prepare, Invalidate, LeaseLook, LeaseUpdate,
     LeaseCreate, Recheck, Gate2, Credential, Fail, Dispatch, Send, Conclude, Release
<1> QED
  BY <1>1, <1>2, <1>3 DEF Own, SweepStep, PersonStep, Select, CheckRefuses, CheckSends,
     CheckAsks, Request, WriteCancelled, WriteOutcome, Store, ReadRequest, StoreApproval,
     Approve, StoreRejection, Overrule, PersonCalls, MarkSent, Escape, Abort, vars

\* ... which notes when another one works on the row.
LEMMA StartCrowds ==
  ASSUME LocalOK, MineOK, Waiting, [FNext]_allvars, NEW c \in Calls, NEW f \in Rows,
         Start(c), key'[c] = f, f \notin crowded'
  PROVE  \A d \in Calls : key[d] # f
<1>1. PICK g, r : Ask(c, g, r)
  BY StartIsAsk
<1>2. g = f
  BY <1>1 DEF Ask, StartWith, LocalOK
<1> QED
  BY <1>1, <1>2 DEF Ask

\* Nothing leaves the crowd.
LEMMA CrowdGrows ==
  ASSUME [FNext]_allvars
  PROVE  crowded \subseteq crowded'
BY DEF FNext, SweepStep, PersonStep, Select, CheckRefuses, CheckSends, CheckAsks, Request,
   WriteCancelled, WriteOutcome, Store, ReadRequest, StoreApproval, StoreRejection,
   PersonCalls, MarkSent, Ask, DispatchStep, DispatchThrows, DispatchDies, Escape, Abort,
   Cancel, Handoff, Reschedule, CancelPending, Create, Message, fvars, allvars

\* A follow-up no two dispatches of which run at a time is sent once, whatever dies,
\* is repeated, requested twice or approved twice.
THEOREM SentOnceWhenAlone == FSpec => []SentOnce
<1> DEFINE IInv == /\ LocalOK /\ SharedOK /\ DeliveryInv
                   /\ MineOK /\ FrameOK /\ SentInv
                   /\ \A f \in Rows \ crowded : SerialAt(f)
<1>1. FInit => IInv
  <2> SUFFICES ASSUME FInit PROVE IInv
    OBVIOUS
  <2>1. SentInv
    BY DEF FInit, Init, SentInv, TrueReply, Waiting, TrueAnswer, SentMeansSent
  <2>2. DeliveryInv
    BY DEF FInit, Init, DeliveryInv, FreshUnsent, SendingNotFresh, OkMeansSent,
           ConfirmedMeansSent, LateStops
  <2>3. ASSUME NEW f \in Rows PROVE SerialAt(f)
    BY <2>3 DEF FInit, Init, SerialAt, Rows
  <2> QED
    BY <2>1, <2>2, <2>3, FInitTypes, InitTypes
<1>2. IInv /\ [FNext]_allvars => IInv'
  <2> SUFFICES ASSUME IInv, [FNext]_allvars PROVE IInv'
    OBVIOUS
  <2>1. [Next]_vars
    BY DispatchSimulation
  <2>2. ASSUME NEW f \in Rows, f \notin crowded' PROVE SerialAt(f)'
    <3>1. f \in Keys /\ SerialAt(f)
      BY <2>2, CrowdGrows DEF Rows
    <3>2. \A c \in Calls : Start(c) /\ key'[c] = f => \A d \in Calls : key[d] # f
      BY <2>2, StartCrowds DEF SentInv
    <3> QED
      BY <2>1, <3>1, <3>2, SerialStep
  <2>3. LocalOK' /\ SharedOK' /\ DeliveryInv'
    BY <2>1, LocalStep, SharedStep, DeliveryInvStep
  <2>4. MineOK' /\ FrameOK' /\ SentInv'
    BY MineStep, FrameStep, SentStep
  <2> QED
    BY <2>2, <2>3, <2>4
<1>3. IInv => SentOnce
  BY DEF SerialAt, SentOnce
<1> QED
  BY <1>1, <1>2, <1>3, PTL DEF FSpec

-----------------------------------------------------------------------------
(* Cancelled in time *)

\* Only what a sweep has read is in hand, requested, called for or delivered.
MetInv ==
  /\ \A s \in Sweeps : todo[s] \subseteq met /\ (step[s] # "idle" => cur[s] \in met)
  /\ \A p \in People : step[p] # "idle" => About[subject[p]] \in met
  /\ \A r \in pending \cup approved \cup rejected : About[r] \in met
  /\ \A f \in Rows \ met : sends[f] = 0

\* What was cancelled before that stays cancelled.
InTimeInv == \A f \in intime : f \notin met /\ status[f] = "CANCELLED"

\* Only a sweep's read adds to what was met.
LEMMA MetGrows ==
  ASSUME [FNext]_allvars
  PROVE  met \subseteq met' /\ \A f \in met' \ met : Due(f)
BY DEF FNext, SweepStep, PersonStep, Select, CheckRefuses, CheckSends, CheckAsks, Request,
   WriteCancelled, WriteOutcome, Store, ReadRequest, StoreApproval, StoreRejection,
   PersonCalls, MarkSent, Ask, DispatchStep, DispatchThrows, DispatchDies, Escape, Abort,
   Cancel, Handoff, Reschedule, CancelPending, Create, Message, fvars, allvars

\* What a sweep turns to has been met.
LEMMA TurnMet ==
  ASSUME MineOK, NEW s \in Sweeps, NEW S, NEW M, S \subseteq M, Turn(s, S)
  PROVE  todo'[s] \subseteq M /\ cur'[s] \in M
BY DEF Turn, MineOK

LEMMA MetStep ==
  ASSUME LocalOK, SharedOK, MineOK, FrameOK, Waiting, MetInv, [FNext]_allvars
  PROVE  MetInv'
<1>0. met \subseteq met'
  BY MetGrows
<1>1. ASSUME NEW s \in Sweeps
      PROVE  todo'[s] \subseteq met' /\ (step'[s] # "idle" => cur'[s] \in met')
  <2>1. todo[s] \subseteq met /\ (step[s] # "idle" => cur[s] \in met)
    BY DEF MetInv
  <2>2. CASE Same(s)
    BY <1>0, <2>1, <2>2 DEF Same
  <2>3. CASE Leave(s)
    BY <2>3 DEF Leave, Goto, MineOK
  <2>4. CASE Select(s)
    BY <2>4, TurnMet DEF Select
  <2>5. CASE (WriteCancelled(s) \/ WriteOutcome(s)) /\ ~Leave(s)
    <3>1. Turn(s, todo[s])
      BY <2>5 DEF WriteCancelled, WriteOutcome, Store
    <3> QED
      BY <1>0, <2>1, <3>1, TurnMet
  <2>6. CASE Own(s) /\ ~Leave(s) /\ ~Select(s) /\ ~WriteCancelled(s) /\ ~WriteOutcome(s)
    <3>1. UNCHANGED <<todo, cur>> /\ step[s] # "idle"
      BY <2>6 DEF Own, SweepStep, PersonStep, CheckRefuses, CheckSends, CheckAsks, Request,
         Ask, DispatchStep, DispatchThrows, DispatchDies, Escape, Abort
    <3> QED
      BY <1>0, <2>1, <3>1
  <2> QED
    BY <2>2, <2>3, <2>4, <2>5, <2>6, OneActs
<1>2. ASSUME NEW p \in People, step'[p] # "idle" PROVE About[subject'[p]] \in met'
  <2>1. step[p] # "idle" => About[subject[p]] \in met
    BY DEF MetInv
  <2>2. CASE Same(p)
    BY <1>0, <1>2, <2>1, <2>2 DEF Same
  <2>3. CASE Leave(p)
    BY <1>2, <2>3 DEF Leave, Goto, MineOK
  <2>4. CASE ReadRequest(p)
    <3>1. PICK r \in pending : subject' = [subject EXCEPT ![p] = r]
      BY <2>4 DEF ReadRequest
    <3>2. About[r] \in met
      BY <3>1 DEF MetInv
    <3> QED
      BY <1>0, <3>1, <3>2 DEF MineOK
  <2>5. CASE Own(p) /\ ~Leave(p) /\ ~ReadRequest(p)
    <3>1. UNCHANGED subject /\ step[p] # "idle"
      BY <2>5 DEF Own, SweepStep, PersonStep, StoreApproval, StoreRejection, PersonCalls,
         MarkSent, Ask, DispatchStep, DispatchThrows, DispatchDies, Escape, Abort
    <3> QED
      BY <1>0, <2>1, <3>1
  <2> QED
    BY <2>2, <2>3, <2>4, <2>5, OneActs
<1>3. ASSUME NEW r \in (pending \cup approved \cup rejected)' PROVE About[r] \in met'
  <2>1. CASE r \in pending \cup approved \cup rejected
    BY <1>0, <2>1 DEF MetInv
  <2>2. ASSUME NEW s \in Sweeps, Request(s), r \notin pending \cup approved \cup rejected
        PROVE About[r] \in met'
    BY <1>0, <2>2 DEF Request, MetInv, vars
  <2>3. ASSUME NEW p \in People, StoreApproval(p) \/ StoreRejection(p),
               r \notin pending \cup approved \cup rejected
        PROVE About[r] \in met'
    BY <1>0, <2>3 DEF StoreApproval, StoreRejection, Approve, Overrule, MetInv, vars
  <2>4. CASE UNCHANGED <<pending, approved, rejected>>
    BY <2>1, <2>4
  <2>5. CASE Cancel \/ Handoff \/ Reschedule \/ Create \/ Message
    BY <2>4, <2>5 DEF Cancel, Handoff, Reschedule, CancelPending, Create, Message, Activity, fvars, vars
  <2>6. ASSUME NEW c \in Calls, DispatchStep(c) \/ DispatchThrows(c) \/ DispatchDies(c)
        PROVE UNCHANGED <<pending, approved, rejected>>
    BY <2>6 DEF DispatchStep, DispatchThrows, DispatchDies, CallStep, Throw, Crash, Approval,
       Lookup, Interrupt, Gate1, ReadConversation, Prepare, Invalidate, LeaseLook,
       LeaseUpdate, LeaseCreate, Recheck, Gate2, Credential, Fail, Dispatch, Send, Conclude,
       Release
  <2>7. ASSUME NEW c \in Calls, Escape(c) \/ Abort(c)
        PROVE UNCHANGED <<pending, approved, rejected>>
    BY <2>7 DEF Escape, Abort, vars
  <2>8. ASSUME NEW s \in Sweeps, SweepStep(s), ~Request(s), ~DispatchStep(s)
        PROVE UNCHANGED <<pending, approved, rejected>>
    BY <2>8 DEF SweepStep, Select, CheckRefuses, CheckSends, CheckAsks, WriteCancelled,
       WriteOutcome, Store, Ask, StartWith, vars
  <2>9. ASSUME NEW p \in People, PersonStep(p), ~StoreApproval(p), ~StoreRejection(p),
               ~DispatchStep(p)
        PROVE UNCHANGED <<pending, approved, rejected>>
    BY <2>9 DEF PersonStep, ReadRequest, PersonCalls, MarkSent, Ask, StartWith, vars
  <2> QED
    BY <2>1, <2>2, <2>3, <2>4, <2>5, <2>6, <2>7, <2>8, <2>9 DEF FNext, fvars, vars, allvars
<1>4. ASSUME NEW f \in Rows \ met' PROVE sends'[f] = 0
  <2>1. f \in Keys /\ f \notin met /\ sends[f] = 0
    BY <1>0 DEF MetInv, Rows
  <2>2. ASSUME NEW c \in Calls, Send(c), key[c] = f PROVE FALSE
    <3>1. step[c] = "wait" /\ RowOf(c) = f
      BY <2>2 DEF Send, Waiting
    <3> QED
      BY <2>1, <3>1 DEF RowOf, MetInv
  <2> QED
    BY <2>1, <2>2, RowStep, DispatchSimulation
<1> QED
  BY <1>1, <1>2, <1>3, <1>4 DEF MetInv

LEMMA InTimeStep ==
  ASSUME LocalOK, MineOK, FrameOK, MetInv, InTimeInv, [FNext]_allvars
  PROVE  InTimeInv'
<1> SUFFICES ASSUME NEW f \in intime' PROVE f \notin met' /\ status'[f] = "CANCELLED"
  BY DEF InTimeInv
<1>1. CASE f \in intime
  <2>1. f \in Rows /\ f \notin met /\ status[f] = "CANCELLED"
    BY <1>1 DEF InTimeInv, FrameOK
  <2>2. f \notin met'
    BY <2>1, MetGrows DEF Due
  <2>3. ASSUME NEW s \in Sweeps, WriteCancelled(s) \/ WriteOutcome(s)
        PROVE status'[f] = "CANCELLED"
    <3>1. cur[s] \in met
      BY <2>3 DEF WriteCancelled, WriteOutcome, MetInv
    <3> QED
      BY <2>1, <2>3, <3>1 DEF WriteCancelled, WriteOutcome, Store, FrameOK
  <2>4. ASSUME NEW p \in People, MarkSent(p) PROVE status'[f] = "CANCELLED"
    BY <2>1, <2>4 DEF MarkSent, MetInv, FrameOK
  <2>5. CASE Cancel \/ Handoff \/ Reschedule \/ Create
    BY <2>1, <2>5 DEF Cancel, Handoff, Reschedule, CancelPending, Create, FrameOK
  <2>6. CASE status' = status
    BY <2>1, <2>2, <2>6
  <2> QED
    BY <2>2, <2>3, <2>4, <2>5, <2>6
       DEF FNext, SweepStep, PersonStep, Select, CheckRefuses, CheckSends, CheckAsks,
           Request, ReadRequest, StoreApproval, StoreRejection, PersonCalls, Ask,
           DispatchStep, DispatchThrows, DispatchDies, Escape, Abort, Message, fvars,
           allvars
<1>2. CASE f \notin intime
  <2>1. (Cancel \/ Handoff \/ Reschedule) /\ met' = met
    BY <1>2 DEF FNext, SweepStep, PersonStep, Select, CheckRefuses, CheckSends, CheckAsks,
       Request, WriteCancelled, WriteOutcome, Store, ReadRequest, StoreApproval,
       StoreRejection, PersonCalls, MarkSent, Ask, DispatchStep, DispatchThrows,
       DispatchDies, Escape, Abort, Cancel, Handoff, Reschedule, CancelPending, Create, Message,
       fvars, allvars
  <2> QED
    BY <1>2, <2>1 DEF Cancel, Handoff, Reschedule, CancelPending
<1> QED
  BY <1>1, <1>2

\* A follow-up that was cancelled before any sweep had read it stays cancelled and is
\* never sent.
THEOREM CancelledBeforehand == FSpec => []CancelledInTime
<1> DEFINE IInv == /\ LocalOK /\ SharedOK /\ DeliveryInv
                   /\ MineOK /\ FrameOK /\ SentInv
                   /\ MetInv /\ InTimeInv
<1>1. FInit => IInv
  <2> SUFFICES ASSUME FInit PROVE IInv
    OBVIOUS
  <2>1. SentInv
    BY DEF FInit, Init, SentInv, TrueReply, Waiting, TrueAnswer, SentMeansSent
  <2>2. DeliveryInv
    BY DEF FInit, Init, DeliveryInv, FreshUnsent, SendingNotFresh, OkMeansSent,
           ConfirmedMeansSent, LateStops
  <2>3. MetInv /\ InTimeInv
    BY DEF FInit, Init, MetInv, InTimeInv, Rows
  <2> QED
    BY <2>1, <2>2, <2>3, FInitTypes, InitTypes
<1>2. IInv /\ [FNext]_allvars => IInv'
  <2> SUFFICES ASSUME IInv, [FNext]_allvars PROVE IInv'
    OBVIOUS
  <2>1. LocalOK' /\ SharedOK' /\ DeliveryInv'
    BY DispatchSimulation, LocalStep, SharedStep, DeliveryInvStep
  <2>2. MineOK' /\ FrameOK' /\ SentInv'
    BY MineStep, FrameStep, SentStep
  <2> QED
    BY <2>1, <2>2, MetStep, InTimeStep DEF SentInv
<1>3. IInv => CancelledInTime
  BY DEF MetInv, InTimeInv, CancelledInTime, FrameOK
<1> QED
  BY <1>1, <1>2, <1>3, PTL DEF FSpec

-----------------------------------------------------------------------------
(* Approval decides *)

\* No request is both approved and rejected; who calls under a request has approved it,
\* and without AI_AUTO_SOCIAL_SEND nobody else calls; vetoed calls stop at the gate.
ApprovalInv ==
  /\ approved \cap rejected = {}
  /\ \A p \in People : step[p] \in {"call", "wait"} => About[subject[p]] \in endorsed
  /\ ~auto => /\ \A s \in Sweeps : step[s] # "wait"
              /\ \A f \in Rows : sends[f] > 0 => f \in endorsed
              /\ \A c \in vetoed : \/ pc[c] = "idle"
                                   \/ pc[c] = "approval" /\ request[c] \in rejected

\* The setting and the endorsements stay, and requests change by decisions only.
LEMMA RequestStep ==
  ASSUME [FNext]_allvars
  PROVE  /\ auto' = auto /\ endorsed \subseteq endorsed'
         /\ \/ UNCHANGED <<approved, rejected>>
            \/ \E p \in People : StoreApproval(p) \/ StoreRejection(p)
         /\ \/ vetoed' \subseteq vetoed
            \/ \E c \in Calls : \E f, r : Ask(c, f, r)
<1>1. CASE UNCHANGED allvars
  BY <1>1 DEF allvars, vars, fvars
<1>2. ASSUME NEW c \in Calls, NEW f, NEW r, Ask(c, f, r)
      PROVE UNCHANGED <<auto, approved, rejected, endorsed>>
  BY <1>2 DEF Ask, StartWith
<1>3. ASSUME NEW p \in People, StoreApproval(p) \/ StoreRejection(p)
      PROVE auto' = auto /\ endorsed \subseteq endorsed' /\ vetoed' \subseteq vetoed
  BY <1>3 DEF StoreApproval, StoreRejection, Approve, Overrule, vars
<1>4. ASSUME NEW c \in Calls, DispatchStep(c) \/ DispatchThrows(c) \/ DispatchDies(c)
      PROVE UNCHANGED <<auto, approved, rejected, endorsed, vetoed>>
  BY <1>4 DEF DispatchStep, DispatchThrows, DispatchDies, CallStep, Throw, Crash, Approval,
     Lookup, Interrupt, Gate1, ReadConversation, Prepare, Invalidate, LeaseLook, LeaseUpdate,
     LeaseCreate, Recheck, Gate2, Credential, Fail, Dispatch, Send, Conclude, Release
<1>5. ASSUME NEW s \in Sweeps, SweepStep(s), ~CheckSends(s), ~DispatchStep(s)
      PROVE UNCHANGED <<auto, approved, rejected, endorsed, vetoed>>
  BY <1>5 DEF SweepStep, Select, CheckRefuses, CheckAsks, Request, WriteCancelled,
     WriteOutcome, Store, vars
<1>6. ASSUME NEW p \in People, ReadRequest(p) \/ MarkSent(p)
      PROVE UNCHANGED <<auto, approved, rejected, endorsed, vetoed>>
  BY <1>6 DEF ReadRequest, MarkSent, vars
<1>7. CASE Cancel \/ Handoff \/ Reschedule \/ Create \/ Message
  BY <1>7 DEF Cancel, Handoff, Reschedule, CancelPending, Create, Message, Activity, fvars, vars
<1>8. ASSUME NEW c \in Calls, Escape(c) \/ Abort(c)
      PROVE UNCHANGED <<auto, approved, rejected, endorsed, vetoed>>
  BY <1>8 DEF Escape, Abort, vars
<1>9. ASSUME NEW c \in Calls, (c \in Sweeps /\ CheckSends(c)) \/ (c \in People /\ PersonCalls(c))
      PROVE \E f, r : Ask(c, f, r)
  BY <1>9 DEF CheckSends, PersonCalls
<1> QED
  BY <1>1, <1>2, <1>3, <1>4, <1>5, <1>6, <1>7, <1>8, <1>9 DEF FNext, PersonStep, SweepStep

LEMMA ApprovalStep ==
  ASSUME LocalOK, SharedOK, MineOK, FrameOK, Waiting, ApprovalInv, [FNext]_allvars
  PROVE  ApprovalInv'
<1>0. [Next]_vars /\ auto' = auto /\ endorsed \subseteq endorsed'
  BY DispatchSimulation, RequestStep
<1>1. approved' \cap rejected' = {}
  <2>1. CASE UNCHANGED <<approved, rejected>>
    BY <2>1 DEF ApprovalInv
  <2>2. ASSUME NEW p \in People, StoreApproval(p) PROVE approved' \cap rejected' = {}
    BY <2>2 DEF StoreApproval, Approve, ApprovalInv
  <2>3. ASSUME NEW p \in People, StoreRejection(p) PROVE approved' \cap rejected' = {}
    BY <2>3 DEF StoreRejection, Overrule, ApprovalInv, vars
  <2> QED
    BY <2>1, <2>2, <2>3, RequestStep
<1>2. ASSUME NEW p \in People, step'[p] \in {"call", "wait"}
      PROVE  About[subject'[p]] \in endorsed'
  <2>1. step[p] \in {"call", "wait"} => About[subject[p]] \in endorsed
    BY DEF ApprovalInv
  <2>2. CASE Same(p)
    BY <1>0, <1>2, <2>1, <2>2 DEF Same
  <2>3. CASE Leave(p)
    BY <1>2, <2>3 DEF Leave, Goto, MineOK
  <2>4. CASE StoreApproval(p)
    BY <2>4 DEF StoreApproval
  <2>5. CASE Own(p) /\ ~Leave(p) /\ ~StoreApproval(p)
    <3>1. UNCHANGED subject /\ step[p] \in {"call", "wait"}
      BY <1>2, <2>5 DEF Own, SweepStep, PersonStep, ReadRequest, StoreRejection, PersonCalls,
         MarkSent, Ask, DispatchStep, DispatchThrows, DispatchDies, Escape, Abort, Goto, MineOK
    <3> QED
      BY <1>0, <2>1, <3>1
  <2> QED
    BY <2>2, <2>3, <2>4, <2>5, OneActs
<1>3. ASSUME ~auto', NEW s \in Sweeps, step'[s] = "wait" PROVE FALSE
  <2>1. ~auto /\ step[s] # "wait"
    BY <1>0, <1>3 DEF ApprovalInv
  <2>2. Own(s)
    BY <1>3, <2>1, OneActs DEF Same
  <2>3. ~Leave(s)
    BY <1>3 DEF Leave, Goto, MineOK
  <2> QED
    BY <1>3, <2>1, <2>2, <2>3 DEF Own, SweepStep, PersonStep, Select, Turn, CheckRefuses,
       CheckSends, CheckAsks, Request, WriteCancelled, WriteOutcome, Store, DispatchStep,
       DispatchThrows, DispatchDies, Escape, Abort, Goto, MineOK
<1>4. ASSUME ~auto', NEW f \in Rows, sends'[f] > 0 PROVE f \in endorsed'
  <2>1. CASE sends[f] > 0
    BY <1>0, <1>4, <2>1 DEF ApprovalInv
  <2>2. ASSUME NEW c \in Calls, Send(c), key[c] = f PROVE f \in endorsed
    <3>1. step[c] = "wait" /\ RowOf(c) = f
      BY <2>2 DEF Send, Waiting
    <3> QED
      BY <1>0, <1>4, <3>1 DEF RowOf, ApprovalInv
  <2> QED
    BY <1>0, <1>4, <2>1, <2>2, RowStep DEF Rows, SharedOK
<1>5. ASSUME ~auto', NEW c \in vetoed'
      PROVE  pc'[c] = "idle" \/ (pc'[c] = "approval" /\ request'[c] \in rejected')
  <2>0. c \in Calls
    BY FrameStep DEF FrameOK
  <2>1. CASE Start(c)
    <3>1. PICK f, r : Ask(c, f, r)
      BY <2>0, <2>1, StartIsAsk
    <3> QED
      BY <1>5, <2>0, <3>1 DEF Ask, StartWith, Go, LocalOK, FrameOK
  <2>2. CASE ~Start(c)
    <3>1. c \in vetoed
      <4>1. ASSUME NEW d \in Calls, NEW f, NEW r, Ask(d, f, r), c \notin vetoed PROVE FALSE
        <5>1. d = c
          BY <1>5, <4>1 DEF Ask
        <5>2. pc[c] = "idle" /\ pc'[c] = "approval"
          BY <4>1, <5>1 DEF Ask, StartWith, Go, LocalOK
        <5>3. ~CallStep(c) /\ ~Throw(c) /\ ~Crash(c)
          BY <5>2 DEF CallStep, Throw, Crash, Approval, Lookup, Interrupt, Gate1,
             ReadConversation, Prepare, Invalidate, LeaseLook, LeaseUpdate, LeaseCreate,
             Recheck, Gate2, Credential, Fail, Dispatch, Send, Conclude, Release
        <5> QED
          BY <1>0, <2>0, <2>2, <5>2, <5>3, OneMoves
      <4> QED
        BY <1>5, <4>1, RequestStep
    <3>2. ~auto /\ (pc[c] = "idle" \/ (pc[c] = "approval" /\ request[c] \in rejected))
      BY <1>0, <1>5, <3>1 DEF ApprovalInv
    <3>3. CASE pc'[c] = pc[c] /\ request'[c] = request[c]
      <4>1. ASSUME NEW p \in People, StoreApproval(p), pc[c] # "idle"
            PROVE request[c] \in rejected'
        BY <1>5, <3>2, <4>1 DEF StoreApproval
      <4>2. ASSUME NEW p \in People, StoreRejection(p), pc[c] # "idle"
            PROVE request[c] \in rejected'
        BY <3>2, <4>2 DEF StoreRejection
      <4> QED
        BY <3>2, <3>3, <4>1, <4>2, RequestStep
    <3>4. CASE CallStep(c) \/ Throw(c) \/ Crash(c)
      <4>1. pc[c] = "approval" /\ request[c] \in rejected
        BY <3>2, <3>4 DEF CallStep, Throw, Crash, Approval, Lookup, Interrupt, Gate1,
           ReadConversation, Prepare, Invalidate, LeaseLook, LeaseUpdate, LeaseCreate,
           Recheck, Gate2, Credential, Fail, Dispatch, Send, Conclude, Release
      <4>2. step[c] = "wait" /\ key[c] = RowOf(c)
        BY <2>0, <4>1 DEF Waiting
      <4>3. key[c] \in Rows
        BY <2>0, <4>2, AboutRows DEF RowOf, MineOK, SweepsOK, PeopleOK
      <4>4. ~Cleared(c)
        BY <3>2, <4>1, <4>3 DEF Cleared, Human, Rows, ApprovalInv
      <4>5. Return(c)
        BY <3>4, <4>1, <4>4 DEF CallStep, Throw, Crash, Leased, Approval, Lookup, Interrupt,
           Gate1, ReadConversation, Prepare, Invalidate, LeaseLook, LeaseUpdate, LeaseCreate,
           Recheck, Gate2, Credential, Fail, Dispatch, Send, Conclude, Release
      <4> QED
        BY <2>0, <4>5 DEF Return, Go, LocalOK
    <3> QED
      BY <1>0, <2>0, <2>2, <3>3, <3>4, OneMoves
  <2> QED
    BY <2>1, <2>2
<1> QED
  BY <1>1, <1>2, <1>3, <1>4, <1>5 DEF ApprovalInv

\* Without AI_AUTO_SOCIAL_SEND a message is sent only if a person approved it, and not
\* under a request whose rejection was stored before the call began.
THEOREM ApprovalHolds == FSpec => []ApprovalDecides
<1> DEFINE IInv == /\ LocalOK /\ SharedOK /\ DeliveryInv
                   /\ MineOK /\ FrameOK /\ SentInv
                   /\ ApprovalInv
<1>1. FInit => IInv
  <2> SUFFICES ASSUME FInit PROVE IInv
    OBVIOUS
  <2>1. SentInv
    BY DEF FInit, Init, SentInv, TrueReply, Waiting, TrueAnswer, SentMeansSent
  <2>2. DeliveryInv
    BY DEF FInit, Init, DeliveryInv, FreshUnsent, SendingNotFresh, OkMeansSent,
           ConfirmedMeansSent, LateStops
  <2>3. ApprovalInv
    BY DEF FInit, Init, ApprovalInv, Rows
  <2> QED
    BY <2>1, <2>2, <2>3, FInitTypes, InitTypes
<1>2. IInv /\ [FNext]_allvars => IInv'
  <2> SUFFICES ASSUME IInv, [FNext]_allvars PROVE IInv'
    OBVIOUS
  <2>1. LocalOK' /\ SharedOK' /\ DeliveryInv'
    BY DispatchSimulation, LocalStep, SharedStep, DeliveryInvStep
  <2>2. MineOK' /\ FrameOK' /\ SentInv'
    BY MineStep, FrameStep, SentStep
  <2> QED
    BY <2>1, <2>2, ApprovalStep DEF SentInv
<1>3. IInv => ApprovalDecides
  BY DEF ApprovalInv, ApprovalDecides
<1> QED
  BY <1>1, <1>2, <1>3, PTL DEF FSpec

\* SENT stays unless a sweep has the row in hand.
THEOREM SentKept == FSpec => SentStays
<1> DEFINE Typed == LocalOK /\ SharedOK /\ MineOK /\ FrameOK
           Kept == \A f \in Rows :
                     status[f] = "SENT" /\ (\A s \in Sweeps : f \notin todo[s] /\ cur[s] # f)
                       => status'[f] = "SENT"
<1>1. FInit => Typed
  BY FInitTypes, InitTypes
<1>2. Typed /\ [FNext]_allvars => Typed'
  BY DispatchSimulation, LocalStep, SharedStep, MineStep, FrameStep
<1>3. Typed /\ [FNext]_allvars => [Kept]_allvars
  <2> SUFFICES ASSUME Typed, FNext, NEW f \in Rows, status[f] = "SENT",
                      \A s \in Sweeps : f \notin todo[s] /\ cur[s] # f
               PROVE status'[f] = "SENT"
    OBVIOUS
  <2>1. ASSUME NEW s \in Sweeps, WriteCancelled(s) \/ WriteOutcome(s) PROVE status'[f] = "SENT"
    BY <2>1 DEF WriteCancelled, WriteOutcome, Store, FrameOK
  <2>2. ASSUME NEW p \in People, MarkSent(p) PROVE status'[f] = "SENT"
    BY <2>2 DEF MarkSent, FrameOK
  <2>3. CASE Cancel \/ Handoff \/ Reschedule \/ Create
    BY <2>3 DEF Cancel, Handoff, Reschedule, CancelPending, Cancelled, Create, FrameOK
  <2>4. CASE status' = status
    BY <2>4
  <2> QED
    BY <2>1, <2>2, <2>3, <2>4
       DEF FNext, SweepStep, PersonStep, Select, CheckRefuses, CheckSends, CheckAsks,
           Request, ReadRequest, StoreApproval, StoreRejection, PersonCalls, Ask,
           DispatchStep, DispatchThrows, DispatchDies, Escape, Abort, Message, fvars
<1> QED
  BY <1>1, <1>2, <1>3, PTL DEF FSpec, SentStays
=============================================================================
