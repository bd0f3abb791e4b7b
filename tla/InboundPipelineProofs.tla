------------------------ MODULE InboundPipelineProofs ------------------------
(* The inbound pipeline drives the outbound dispatch the way its own          *)
(* specification allows, and what its runs check holds for any number of      *)
(* messages, deliveries and people and any bounds.                            *)
EXTENDS InboundPipeline, OutboundDispatchProofs

USE OutboundAssumption, InboundAssumption
USE DEF rows, leasing, contact, local, bounds, ghosts
USE DEF tables, mine, counts, marks

-----------------------------------------------------------------------------
(* Type correctness *)

\* The locals of the deliveries.
MineOK ==
  /\ at \in [Calls -> Step]
  /\ msg \in [Calls -> Messages \cup {NoMessage}]
  /\ saw \in [Calls -> Sight]
  /\ answer \in [Calls -> Answer]
  /\ behind \subseteq Calls /\ ahead \subseteq Calls

\* Everything else.
TablesOK ==
  /\ event \in [Messages -> EventStatus]
  /\ stored \subseteq Messages
  /\ requested \in [Plain -> Nat]
  /\ scheduled \subseteq Plain
  /\ deliveries \in Nat /\ people \in Nat /\ aborts \in Nat
  /\ flagged \subseteq Messages /\ spared \subseteq Messages /\ outrun \subseteq Messages
  /\ overlapped \subseteq Messages /\ broken \subseteq Messages
  /\ strays \subseteq Plain

\* A delivery that is not idle has a message in hand.  Once it works with what it saw, the
\* message is no opt-out, neither has the contact opted out before; from the draft on, the
\* conversation was open.  Its call runs while it waits, for the reply to its message.
Consistent(d) ==
  /\ at[d] = "idle" <=> msg[d] = NoMessage
  /\ at[d] \in Past => msg[d] \in Plain /\ saw[d] # "out"
  /\ at[d] \in Past \ {"cancel", "rules"} => saw[d] = "open"
  /\ pc[d] # "idle" => at[d] = "wait" /\ key[d] = msg[d]

Typed == LocalOK /\ SharedOK /\ MineOK /\ TablesOK /\ \A d \in Calls : Consistent(d)

LEMMA InboundTypeParts == MineOK /\ TablesOK => InboundTypeOK
BY DEF MineOK, TablesOK, InboundTypeOK

LEMMA InHand ==
  ASSUME MineOK, NEW d \in Calls, Consistent(d)
  PROVE  /\ at[d] # "idle" => msg[d] \in Messages
         /\ at[d] \in Past => msg[d] \in Plain
BY DEF MineOK, Consistent

LEMMA LeaveType ==
  ASSUME MineOK, NEW d \in Calls, Leave(d)
  PROVE  MineOK'
BY DEF MineOK, Leave, Goto, Step, Past, Answer, Sight

LEMMA ProceedType ==
  ASSUME MineOK, NEW d \in Calls, NEW next \in Step, Proceed(d, next)
  PROVE  MineOK'
BY DEF MineOK, Proceed, Goto

LEMMA DraftingCalls == Drafting \subseteq Calls
BY DEF Drafting

\* Every step keeps the deliveries' locals typed.
LEMMA MineStep == MineOK /\ [INext]_allvars => MineOK'
<1> SUFFICES ASSUME MineOK, [INext]_allvars PROVE MineOK'
  OBVIOUS
<1> USE DEF Step, Past
<1>1. CASE UNCHANGED <<mine, behind, ahead>>
  BY <1>1 DEF MineOK
<1>2. ASSUME NEW d \in Calls, Leave(d) PROVE MineOK'
  BY <1>2, LeaveType
<1>3. ASSUME NEW d \in Calls, NEW next \in Step, Proceed(d, next) PROVE MineOK'
  BY <1>3, ProceedType
<1>4. ASSUME NEW d \in Calls, NEW m \in Messages, Arrive(d, m) PROVE MineOK'
  BY <1>4 DEF Arrive, Goto, MineOK
<1>5. ASSUME NEW d \in Calls, StoreMessage(d) PROVE MineOK'
  <2>1. Seen \in Sight
    BY DEF Seen, Sight
  <2>2. PICK next \in {"cancel", "quiet", "apply"} : at' = [at EXCEPT ![d] = next]
    BY <1>5 DEF StoreMessage, Goto
  <2> QED
    BY <1>5, <2>1, <2>2 DEF StoreMessage, MineOK
<1>6. ASSUME NEW d \in Calls, ApplyOptOut(d) \/ HandOver(d) PROVE MineOK'
  BY <1>6, DraftingCalls DEF ApplyOptOut, HandOver, Goto, MineOK
<1>7. ASSUME NEW d \in Calls, RulePauses(d) PROVE MineOK'
  BY <1>7, DraftingCalls DEF RulePauses, MineOK
<1>8. CASE TakeOver
  BY <1>8, DraftingCalls DEF TakeOver, MineOK
<1>9. ASSUME NEW d \in Calls, DispatchStep(d) \/ DispatchThrows(d) PROVE MineOK'
  <2>1. PICK a \in Answer : answer' = [answer EXCEPT ![d] = a]
    BY <1>9 DEF DispatchStep, DispatchThrows, Answered, MineOK, Answer
  <2> QED
    BY <1>9, <2>1 DEF DispatchStep, DispatchThrows, MineOK
<1> QED
  BY <1>1, <1>2, <1>3, <1>4, <1>5, <1>6, <1>7, <1>8, <1>9
     DEF INext, DeliveryStep, CreateEvent, ClaimEvent, Refuse, SweepMessages, QuietFollowUps,
         CancelFollowUps, Consider, Spare, KeepHandling, WindowClosed, RequestApproval, SendReply,
         ReplyEnds, Reschedule, Plan, Finish, AfterOptOut, Raise, Escape, MarkFailed, Abort,
         DispatchDies, Resume, ivars, allvars

\* Every step keeps the rows, the counters and the marks typed.
LEMMA TablesStep ==
  ASSUME MineOK, TablesOK, \A d \in Calls : Consistent(d), [INext]_allvars
  PROVE  TablesOK'
<1> USE DEF TablesOK
<1>0. ASSUME NEW d \in Calls
      PROVE  /\ at[d] # "idle" => msg[d] \in Messages
             /\ at[d] \in Past => msg[d] \in Plain
  BY InHand
<1>1. CASE UNCHANGED <<tables, counts, flagged, spared, outrun, overlapped, broken, strays>>
  BY <1>1
<1>2. ASSUME NEW d \in Calls,
             (\E m \in Messages : Arrive(d, m)) \/ CreateEvent(d) \/ ClaimEvent(d) \/ Refuse(d)
               \/ Finish(d) \/ MarkFailed(d)
      PROVE TablesOK'
  <2>1. event' \in [Messages -> EventStatus]
    BY <1>2 DEF Arrive, CreateEvent, ClaimEvent, Refuse, Refusal, Finish, MarkFailed,
       AfterError, EventStatus
  <2>2. overlapped' \subseteq Messages
    BY <1>2 DEF Arrive, CreateEvent, ClaimEvent, Refuse, Finish, MarkFailed
  <2>3. deliveries' \in Nat
    BY <1>2 DEF Arrive, CreateEvent, ClaimEvent, Refuse, Finish, MarkFailed
  <2> QED
    BY <1>2, <2>1, <2>2, <2>3 DEF Arrive, CreateEvent, ClaimEvent, Refuse, Finish, MarkFailed
<1>3. ASSUME NEW d \in Calls, StoreMessage(d) \/ DispatchStep(d) PROVE TablesOK'
  <2>1. stored' \subseteq Messages
    BY <1>0, <1>3 DEF StoreMessage, DispatchStep
  <2>2. outrun' \subseteq Messages
    BY <1>3 DEF StoreMessage, DispatchStep, NoteActivity
  <2> QED
    BY <1>3, <2>1, <2>2 DEF StoreMessage, DispatchStep
<1>4. CASE TakeOver
  <2>1. outrun' \subseteq Messages
    BY <1>4 DEF TakeOver, NoteActivity
  <2> QED
    BY <1>4, <2>1 DEF TakeOver
<1>5. ASSUME NEW d \in Calls, QuietFollowUps(d) \/ CancelFollowUps(d) \/ Reschedule(d)
      PROVE TablesOK'
  BY <1>5 DEF QuietFollowUps, CancelFollowUps, Reschedule
<1>6. ASSUME NEW d \in Calls, Plan(d) PROVE TablesOK'
  <2>1. msg[d] \in Plain
    BY <1>0, <1>6 DEF Plan, Past
  <2>2. scheduled' \subseteq Plain
    BY <1>6, <2>1 DEF Plan
  <2>3. strays' \subseteq Plain
    BY <1>6, <2>1 DEF Plan
  <2> QED
    BY <1>6, <2>2, <2>3 DEF Plan
<1>7. ASSUME NEW d \in Calls,
             Spare(d) \/ HandOver(d) \/ WindowClosed(d) \/ ReplyEnds(d)
      PROVE TablesOK'
  <2>1. msg[d] \in Messages
    BY <1>0, <1>7 DEF Spare, HandOver, WindowClosed, ReplyEnds
  <2>2. flagged' \subseteq Messages
    BY <1>7, <2>1 DEF Spare, HandOver, WindowClosed, ReplyEnds
  <2>3. spared' \subseteq Messages
    BY <1>7, <2>1 DEF Spare, HandOver, WindowClosed, ReplyEnds
  <2> QED
    BY <1>7, <2>2, <2>3 DEF Spare, HandOver, WindowClosed, ReplyEnds
<1>8. ASSUME NEW d \in Calls, RequestApproval(d) PROVE TablesOK'
  <2>1. msg[d] \in Plain /\ msg[d] \in Messages
    BY <1>0, <1>8 DEF RequestApproval, Past
  <2>2. requested' \in [Plain -> Nat]
    BY <1>8, <2>1 DEF RequestApproval
  <2>3. flagged' \subseteq Messages
    BY <1>8, <2>1 DEF RequestApproval
  <2> QED
    BY <1>8, <2>2, <2>3 DEF RequestApproval
<1>9. ASSUME NEW d \in Calls, Raise(d) \/ DispatchThrows(d) \/ Abort(d) \/ DispatchDies(d)
      PROVE TablesOK'
  <2>1. msg[d] \in Messages
    BY <1>0, <1>9 DEF Raise, Guarded, DispatchThrows, Abort, DispatchDies
  <2>2. broken' \subseteq Messages
    BY <1>9, <2>1 DEF Raise, DispatchThrows, Abort, DispatchDies, Break
  <2>3. aborts' \in Nat
    BY <1>9 DEF Raise, DispatchThrows, Abort, DispatchDies
  <2> QED
    BY <1>9, <2>2, <2>3 DEF Raise, DispatchThrows, Abort, DispatchDies
<1>10. CASE Resume
  BY <1>10 DEF Resume
<1> QED
  BY <1>1, <1>2, <1>3, <1>4, <1>5, <1>6, <1>7, <1>8, <1>9, <1>10
     DEF INext, DeliveryStep, ApplyOptOut, SweepMessages, RulePauses, Consider, KeepHandling,
         SendReply, AfterOptOut, Escape, ivars, allvars

-----------------------------------------------------------------------------
(* The pipeline as a user of the dispatch *)

\* What deliveries and people do to the dispatch is what its callers and surroundings may
\* do.
LEMMA DispatchSimulation ==
  ASSUME MineOK, \A d \in Calls : Consistent(d), [INext]_allvars
  PROVE  [Next]_vars
<1>1. CASE UNCHANGED vars
  BY <1>1
<1>2. ASSUME NEW d \in Calls, SendReply(d) PROVE Next
  <2>1. msg[d] \in Keys
    BY <1>2, InHand DEF SendReply, Past, Plain
  <2>2. Start(d)
    BY <1>2, <2>1 DEF SendReply, Start
  <2> QED
    BY <2>2 DEF Next
<1>3. ASSUME NEW d \in Calls, DispatchStep(d) \/ DispatchThrows(d) \/ DispatchDies(d)
      PROVE Next
  BY <1>3 DEF DispatchStep, DispatchThrows, DispatchDies, Next
<1>4. ASSUME NEW d \in Calls, RulePauses(d) \/ HandOver(d) \/ KeepHandling(d) PROVE Next
  BY <1>4 DEF RulePauses, HandOver, KeepHandling, Next
<1>5. ASSUME NEW d \in Calls, StoreMessage(d) \/ ApplyOptOut(d) \/ SweepMessages(d) PROVE Next
  BY <1>5 DEF StoreMessage, ApplyOptOut, SweepMessages, Next
<1>6. CASE TakeOver \/ Resume
  BY <1>6 DEF TakeOver, Resume, Next
<1> QED
  BY <1>1, <1>2, <1>3, <1>4, <1>5, <1>6
     DEF INext, DeliveryStep, Arrive, CreateEvent, ClaimEvent, Refuse, QuietFollowUps,
         CancelFollowUps, Consider, Spare, WindowClosed, RequestApproval, ReplyEnds, Reschedule,
         Plan, Finish, AfterOptOut, Raise, Escape, MarkFailed, Abort, ivars, allvars

\* What c's properties are about.
Same(c) ==
  /\ pc'[c] = pc[c] /\ key'[c] = key[c] /\ reply'[c] = reply[c] /\ seen'[c] = seen[c]
  /\ at'[c] = at[c] /\ msg'[c] = msg[c] /\ saw'[c] = saw[c] /\ answer'[c] = answer[c]

\* One delivery moves at a time.
LEMMA OneActs ==
  ASSUME LocalOK, MineOK, \A d \in Calls : Consistent(d), [INext]_allvars, NEW c \in Calls
  PROVE  DeliveryStep(c) \/ Same(c)
<1> USE DEF Same
<1>1. CASE UNCHANGED <<local, mine>>
  BY <1>1
<1>2. ASSUME NEW d \in Calls, d # c, DeliveryStep(d) PROVE Same(c)
  <2> DEFINE Alike == pc'[c] = pc[c] /\ key'[c] = key[c] /\ reply'[c] = reply[c]
                        /\ seen'[c] = seen[c]
  <2>1. CASE Leave(d) /\ Alike
    BY <1>2, <2>1 DEF Leave, Goto, MineOK
  <2>2. ASSUME NEW next, Proceed(d, next), Alike PROVE Same(c)
    BY <1>2, <2>2 DEF Proceed, Goto, MineOK
  <2>3. CASE UNCHANGED vars
    <3>1. Alike
      BY <2>3 DEF vars
    <3>2. ASSUME NEW m \in Messages, Arrive(d, m) PROVE Same(c)
      BY <1>2, <3>1, <3>2 DEF Arrive, Goto, MineOK
    <3> QED
      BY <1>2, <2>1, <2>2, <3>1, <3>2
         DEF DeliveryStep, CreateEvent, ClaimEvent, Refuse, StoreMessage, ApplyOptOut,
             SweepMessages, QuietFollowUps, CancelFollowUps, RulePauses, Consider, Spare,
             HandOver, KeepHandling, WindowClosed, RequestApproval, SendReply, DispatchStep,
             ReplyEnds, Reschedule, Plan, Finish, AfterOptOut, Raise, DispatchThrows, Escape,
             MarkFailed, Abort, DispatchDies, Goto, MineOK
  <2>4. CASE StoreMessage(d) \/ ApplyOptOut(d) \/ RulePauses(d) \/ HandOver(d)
    BY <1>2, <2>4
       DEF StoreMessage, Activity, ApplyOptOut, OptOut, RulePauses, HandOver, SetMode, Goto,
           MineOK
  <2>5. CASE SweepMessages(d) \/ KeepHandling(d)
    BY <1>2, <2>2, <2>5 DEF SweepMessages, OptOutSweep, KeepHandling, SetMode
  <2>6. CASE SendReply(d)
    <3>1. msg[d] \in Keys
      BY <2>6, InHand DEF SendReply, Past, Plain
    <3>2. Alike
      BY <1>2, <2>6, <3>1, OthersKeep DEF SendReply, Start
    <3> QED
      BY <2>2, <2>6, <3>2 DEF SendReply
  <2>7. CASE DispatchStep(d) \/ DispatchThrows(d) \/ DispatchDies(d)
    <3>1. Alike
      BY <1>2, <2>7, OthersKeep DEF DispatchStep, DispatchThrows, DispatchDies
    <3> QED
      BY <1>2, <2>1, <2>7, <3>1 DEF DispatchStep, DispatchThrows, DispatchDies, MineOK
  <2> QED
    BY <1>2, <2>3, <2>4, <2>5, <2>6, <2>7
       DEF DeliveryStep, Arrive, CreateEvent, ClaimEvent, Refuse, QuietFollowUps,
           CancelFollowUps, Consider, Spare, WindowClosed, RequestApproval, ReplyEnds,
           Reschedule, Plan, Finish, AfterOptOut, Raise, Escape, MarkFailed, Abort
<1>3. CASE TakeOver \/ Resume
  BY <1>3 DEF TakeOver, Resume, Activity, SetMode
<1> QED
  BY <1>1, <1>2, <1>3 DEF INext, ivars, vars, allvars

LEMMA LeaveIdle ==
  ASSUME MineOK, NEW d \in Calls, Leave(d)
  PROVE  /\ at'[d] = "idle" /\ msg'[d] = NoMessage /\ saw'[d] = "open"
         /\ answer'[d] = "refused" /\ d \notin behind' /\ d \notin ahead'
BY DEF Leave, Goto, MineOK

LEMMA ProceedKeeps ==
  ASSUME MineOK, NEW d \in Calls, NEW next, Proceed(d, next)
  PROVE  /\ at'[d] = next /\ msg'[d] = msg[d] /\ saw'[d] = saw[d] /\ answer'[d] = answer[d]
         /\ behind' = behind /\ ahead' = ahead
BY DEF Proceed, Goto, MineOK

\* A step within the dispatch's call keeps its message or ends the call.
LEMMA OwnCall ==
  ASSUME LocalOK, NEW d \in Calls, CallStep(d) \/ Throw(d) \/ Crash(d)
  PROVE  pc[d] # "idle" /\ (pc'[d] # "idle" => key'[d] = key[d])
<1>1. pc[d] # "idle" /\ ~Start(d)
  BY DEF CallStep, Throw, Crash, Start, StartWith, Approval, Lookup, Interrupt, Gate1,
     ReadConversation, Prepare, Invalidate, LeaseLook, LeaseUpdate, LeaseCreate, Recheck, Gate2,
     Credential, Fail, Dispatch, Send, Conclude, Release
<1>2. UNCHANGED key \/ Return(d)
  BY <1>1, OwnStep
<1> QED
  BY <1>1, <1>2 DEF Return, Go, LocalOK

\* How a delivery moves on outside its dispatch, and what it takes along: next to the
\* deliveries that leave there are those that go on to a step which is legal for what they
\* saw.
LEMMA Moves ==
  ASSUME LocalOK, MineOK, NEW d \in Calls, Consistent(d), DeliveryStep(d),
         ~DispatchStep(d), ~DispatchThrows(d), ~DispatchDies(d), ~SendReply(d)
  PROVE  /\ pc'[d] = pc[d] /\ key'[d] = key[d] /\ reply'[d] = reply[d] /\ seen'[d] = seen[d]
         /\ \/ Leave(d)
            \/ \E m \in Messages : Arrive(d, m)
            \/ StoreMessage(d)
            \/ RulePauses(d)
            \/ /\ msg'[d] = msg[d] /\ saw'[d] = saw[d] /\ answer'[d] = answer[d]
               /\ at'[d] # at[d] /\ at'[d] \notin {"idle", "wait"} /\ at[d] # "idle"
               /\ at'[d] \in Past => at[d] \in Past /\ at'[d] # "cancel"
               /\ at'[d] \in Past /\ at[d] = "rules" => saw[d] = "open"
               /\ at[d] = "cancel" => at'[d] \in {"rules", "failed"}
<1> USE DEF Past
<1>1. CASE /\ ~StoreMessage(d) /\ ~RulePauses(d) /\ ~ApplyOptOut(d) /\ ~HandOver(d)
           /\ ~SweepMessages(d) /\ ~KeepHandling(d)
  <2>0. UNCHANGED vars
    BY <1>1
       DEF DeliveryStep, Arrive, CreateEvent, ClaimEvent, Refuse, QuietFollowUps,
           CancelFollowUps, Consider, Spare, WindowClosed, RequestApproval, ReplyEnds,
           Reschedule, Plan, Finish, AfterOptOut, Raise, Escape, MarkFailed, Abort
  <2>1. pc'[d] = pc[d] /\ key'[d] = key[d] /\ reply'[d] = reply[d] /\ seen'[d] = seen[d]
    BY <2>0 DEF vars
  <2>2. ASSUME ~Leave(d), \A m \in Messages : ~Arrive(d, m)
        PROVE \E next : /\ Proceed(d, next)
                        /\ at[d] # next /\ next \notin {"idle", "wait"} /\ at[d] # "idle"
                        /\ next \in Past => at[d] \in Past /\ next # "cancel"
                        /\ next \in Past /\ at[d] = "rules" => saw[d] = "open"
                        /\ at[d] = "cancel" => next \in {"rules", "failed"}
    BY <1>1, <2>2
       DEF DeliveryStep, CreateEvent, ClaimEvent, Refuse, QuietFollowUps, CancelFollowUps,
           Consider, MayDraft, Spare, WindowClosed, RequestApproval, ReplyEnds, Reschedule, Plan,
           Finish, AfterOptOut, Raise, Guarded, Escape, MarkFailed, Abort
  <2> QED
    BY <2>1, <2>2, ProceedKeeps
<1>2. CASE StoreMessage(d) \/ RulePauses(d)
  BY <1>2 DEF StoreMessage, Activity, RulePauses, SetMode
<1>3. CASE ApplyOptOut(d) \/ HandOver(d)
  BY <1>3 DEF ApplyOptOut, OptOut, HandOver, SetMode, Goto, MineOK
<1>4. CASE SweepMessages(d) \/ KeepHandling(d)
  BY <1>4, ProceedKeeps DEF SweepMessages, OptOutSweep, KeepHandling, SetMode
<1> QED
  BY <1>1, <1>2, <1>3, <1>4

\* Every delivery stays consistent.
LEMMA ConsistentStep ==
  ASSUME LocalOK, MineOK, \A d \in Calls : Consistent(d), [INext]_allvars, NEW c \in Calls
  PROVE  Consistent(c)'
<1> USE DEF Consistent, Past
<1>0. Consistent(c)
  OBVIOUS
<1>1. CASE Same(c)
  BY <1>0, <1>1 DEF Same
<1>2. CASE DispatchStep(c) \/ DispatchThrows(c)
  <2>1. pc[c] # "idle" /\ (pc'[c] # "idle" => key'[c] = key[c])
    BY <1>2, OwnCall DEF DispatchStep, DispatchThrows
  <2> QED
    BY <1>0, <1>2, <2>1 DEF DispatchStep, DispatchThrows
<1>3. CASE DispatchDies(c)
  <2>1. pc'[c] = "idle"
    BY <1>3 DEF DispatchDies, Crash, Return, Go, LocalOK
  <2> QED
    BY <1>3, <2>1, LeaveIdle DEF DispatchDies
<1>4. CASE SendReply(c)
  <2>1. Proceed(c, "wait") /\ at[c] = "reply" /\ key' = [key EXCEPT ![c] = msg[c]]
    BY <1>4 DEF SendReply, StartWith
  <2>2. key'[c] = msg[c]
    BY <2>1 DEF LocalOK
  <2> QED
    BY <1>0, <2>1, <2>2, ProceedKeeps
<1>5. CASE DeliveryStep(c) /\ ~DispatchStep(c) /\ ~DispatchThrows(c) /\ ~DispatchDies(c)
             /\ ~SendReply(c)
  <2>1. pc[c] # "idle" => at[c] = "wait"
    BY <1>0
  <2>2. pc'[c] = pc[c] /\ key'[c] = key[c]
    BY <1>5, Moves
  <2>3. CASE Leave(c)
    <3>1. pc[c] = "idle"
      BY <1>5, <2>1, <2>3
         DEF DeliveryStep, Arrive, CreateEvent, ClaimEvent, Refuse, StoreMessage, ApplyOptOut,
             SweepMessages, QuietFollowUps, CancelFollowUps, RulePauses, Consider, Spare,
             HandOver, KeepHandling, WindowClosed, RequestApproval, ReplyEnds, Reschedule, Plan,
             Finish, AfterOptOut, Raise, Guarded, Escape, MarkFailed, Abort
    <3> QED
      BY <2>2, <2>3, <3>1, LeaveIdle
  <2>4. ASSUME NEW m \in Messages, Arrive(c, m) PROVE Consistent(c)'
    BY <1>0, <2>2, <2>4 DEF Arrive, Goto, MineOK
  <2>5. CASE StoreMessage(c)
    <3>1. msg[c] \in Messages /\ msg'[c] = msg[c] /\ saw'[c] = Seen
      BY <1>0, <2>5, InHand DEF StoreMessage, MineOK
    <3>2. /\ at'[c] \in {"cancel", "quiet", "apply"}
          /\ at'[c] = "cancel" => msg[c] \notin Stops /\ Seen # "out"
      BY <2>5 DEF StoreMessage, Goto, MineOK, Stopped
    <3> QED
      BY <1>0, <2>1, <2>2, <2>5, <3>1, <3>2 DEF Messages, StoreMessage
  <2>6. CASE RulePauses(c)
    BY <1>0, <2>2, <2>6 DEF RulePauses
  <2>7. CASE /\ msg'[c] = msg[c] /\ saw'[c] = saw[c] /\ answer'[c] = answer[c]
             /\ at'[c] # at[c] /\ at'[c] \notin {"idle", "wait"} /\ at[c] # "idle"
             /\ at'[c] \in Past => at[c] \in Past /\ at'[c] # "cancel"
             /\ at'[c] \in Past /\ at[c] = "rules" => saw[c] = "open"
             /\ at[c] = "cancel" => at'[c] \in {"rules", "failed"}
    <3>1. pc[c] = "idle"
      BY <1>5, <2>1, <2>7
         DEF DeliveryStep, Arrive, CreateEvent, ClaimEvent, Refuse, StoreMessage, ApplyOptOut,
             SweepMessages, QuietFollowUps, CancelFollowUps, RulePauses, Consider, Spare,
             HandOver, KeepHandling, WindowClosed, RequestApproval, ReplyEnds, Reschedule, Plan,
             Finish, AfterOptOut, Raise, Guarded, Escape, MarkFailed, Abort
    <3>2. at'[c] \in Past \ {"cancel", "rules"} => saw[c] = "open"
      BY <1>0, <2>7
    <3> QED
      BY <1>0, <2>2, <2>7, <3>1, <3>2
  <2> QED
    BY <1>5, <2>3, <2>4, <2>5, <2>6, <2>7, Moves
<1> QED
  BY <1>1, <1>2, <1>3, <1>4, <1>5, OneActs

LEMMA TypedStep == Typed /\ [INext]_allvars => Typed' /\ [Next]_vars
<1> SUFFICES ASSUME Typed, [INext]_allvars PROVE Typed' /\ [Next]_vars
  OBVIOUS
<1>1. LocalOK /\ SharedOK /\ MineOK /\ TablesOK /\ \A d \in Calls : Consistent(d)
  BY DEF Typed
<1>2. [Next]_vars
  BY <1>1, DispatchSimulation
<1>3. LocalOK' /\ SharedOK' /\ MineOK' /\ TablesOK'
  BY <1>1, <1>2, LocalStep, SharedStep, MineStep, TablesStep
<1>4. ASSUME NEW d \in Calls PROVE Consistent(d)'
  BY <1>1, ConsistentStep
<1> QED
  BY <1>2, <1>3, <1>4 DEF Typed

LEMMA InitTyped == IInit => Init /\ Typed
<1> SUFFICES ASSUME IInit PROVE Init /\ Typed
  OBVIOUS
<1>1. Init /\ LocalOK /\ SharedOK
  BY InitTypes DEF IInit
<1>2. MineOK /\ TablesOK
  BY DEF IInit, MineOK, TablesOK, Step, Sight, Answer, EventStatus
<1>3. ASSUME NEW d \in Calls PROVE Consistent(d)
  BY <1>1 DEF IInit, Init, Consistent, Past
<1> QED
  BY <1>1, <1>2, <1>3 DEF Typed

\* Everything the pipeline keeps has its type in every behaviour.
THEOREM InboundTypeCorrect == ISpec => []InboundTypeOK
<1>1. IInit => Typed
  BY InitTyped
<1>2. Typed /\ [INext]_allvars => Typed'
  BY TypedStep
<1>3. Typed => InboundTypeOK
  BY InboundTypeParts DEF Typed
<1> QED
  BY <1>1, <1>2, <1>3, PTL DEF ISpec

\* Deliveries implement the callers of OutboundDispatch: with the pipeline's own state
\* hidden, every behaviour is one of the dispatch's, whose theorems hold here.
THEOREM InboundUsesDispatch == ISpec => Spec
<1>1. IInit => Init /\ Typed
  BY InitTyped
<1>2. Typed /\ [INext]_allvars => Typed' /\ [Next]_vars
  BY TypedStep
<1> QED
  BY <1>1, <1>2, PTL DEF ISpec, Spec

\* The replies of the pipeline are CONFIRMED only if the provider has them, and a reply that
\* is begun after an opt-out is not sent, whatever its delivery saw before.
COROLLARY RepliesStayTruthful == ISpec => []ConfirmedMeansSent /\ []LateCallsNeverSend
<1> QED
  BY InboundUsesDispatch, OverlapCorrect, PTL

-----------------------------------------------------------------------------
(* Pauses *)

\* While the conversation is paused, the deliveries that still take it for open were past
\* their transaction when it was paused.
PauseInv == paused => \A d \in Calls : at[d] \in Past /\ saw[d] = "open" => d \in behind

\* A delivery works with what it saw already before the step, or stores its message.
LEMMA PastBefore ==
  ASSUME Typed, [INext]_allvars, NEW d \in Calls, at'[d] \in Past
  PROVE  \/ at[d] \in Past /\ saw'[d] = saw[d] /\ msg'[d] = msg[d]
         \/ StoreMessage(d)
<1> USE DEF Past, Typed
<1>1. CASE Same(d)
  BY <1>1 DEF Same
<1>2. CASE DispatchStep(d) \/ DispatchThrows(d)
  BY <1>2 DEF DispatchStep, DispatchThrows
<1>3. CASE DispatchDies(d) \/ Leave(d)
  BY <1>3, LeaveIdle DEF DispatchDies
<1>4. CASE SendReply(d)
  BY <1>4, ProceedKeeps DEF SendReply
<1>5. ASSUME NEW m \in Messages, Arrive(d, m) PROVE FALSE
  BY <1>5 DEF Arrive, Goto, MineOK
<1>6. CASE RulePauses(d)
  BY <1>6 DEF RulePauses
<1> QED
  BY <1>1, <1>2, <1>3, <1>4, <1>5, <1>6, Moves, OneActs

\* What a step does to the marks of a delivery that goes on.
LEMMA MarksStep ==
  ASSUME Typed, [INext]_allvars, NEW d \in Calls, at'[d] # "idle"
  PROVE  /\ \/ d \in behind => d \in behind'
            \/ TakeOver \/ \E c \in Calls : RulePauses(c) \/ HandOver(c)
         /\ \/ d \in ahead => d \in ahead'
            \/ \E c \in Calls : ApplyOptOut(c)
<1>1. ASSUME NEW c \in Calls, Leave(c)
      PROVE (d \in behind => d \in behind') /\ (d \in ahead => d \in ahead')
  <2>1. c # d
    BY <1>1, LeaveIdle DEF Typed
  <2> QED
    BY <1>1, <2>1 DEF Leave
<1>2. ASSUME NEW c \in Calls, DeliveryStep(c), ~Leave(c), ~RulePauses(c), ~HandOver(c),
             ~ApplyOptOut(c)
      PROVE behind' = behind /\ ahead' = ahead
  BY <1>2
     DEF DeliveryStep, Arrive, CreateEvent, ClaimEvent, Refuse, StoreMessage, SweepMessages,
         QuietFollowUps, CancelFollowUps, Consider, Spare, KeepHandling, WindowClosed,
         RequestApproval, SendReply, DispatchStep, ReplyEnds, Reschedule, Plan, Finish,
         AfterOptOut, Raise, DispatchThrows, Escape, MarkFailed, Abort, DispatchDies, Proceed
<1>3. ASSUME NEW c \in Calls, RulePauses(c) \/ HandOver(c) PROVE ahead' = ahead
  BY <1>3 DEF RulePauses, HandOver
<1>4. ASSUME NEW c \in Calls, ApplyOptOut(c) PROVE behind' = behind
  BY <1>4 DEF ApplyOptOut
<1>5. CASE TakeOver \/ Resume
  BY <1>5 DEF TakeOver, Resume
<1>6. CASE UNCHANGED allvars
  BY <1>6 DEF allvars, ivars
<1> QED
  BY <1>1, <1>2, <1>3, <1>4, <1>5, <1>6 DEF INext

\* The deliveries' calls write the replies to messages, and no human's.
LEMMA NoHumanCall ==
  ASSUME Typed, NEW d \in Calls, at[d] = "wait"
  PROVE  pc[d] # "idle" => ~Human(d) /\ key[d] \in Plain
BY DEF Typed, Consistent, Past, Human, Plain

\* Nothing but a takeover, a rule or the AI's verdict pauses the conversation, and only
\* people and the verdict resume it.
LEMMA PausedStep ==
  ASSUME Typed, [INext]_allvars
  PROVE  /\ paused' => \/ paused \/ TakeOver
                       \/ \E c \in Calls : RulePauses(c) \/ HandOver(c)
         /\ paused /\ ~paused' => Resume \/ \E c \in Calls : KeepHandling(c)
<1>0. paused \in BOOLEAN
  BY DEF Typed, SharedOK
<1>1. ASSUME NEW d \in Calls, DispatchStep(d) PROVE paused' = paused
  <2>1. pc[d] # "idle"
    BY <1>1, OwnCall DEF DispatchStep, Typed
  <2>2. ~Human(d)
    BY <1>1, <2>1, NoHumanCall DEF DispatchStep
  <2>3. CASE Conclude(d)
    BY <1>0, <2>2, <2>3 DEF Conclude
  <2> QED
    BY <1>1, <2>3
       DEF DispatchStep, CallStep, Approval, Lookup, Interrupt, Gate1, ReadConversation, Prepare,
           Invalidate, LeaseLook, LeaseUpdate, LeaseCreate, Recheck, Gate2, Credential, Fail,
           Dispatch, Send, Release
<1>2. ASSUME NEW d \in Calls, DeliveryStep(d), ~DispatchStep(d), ~RulePauses(d), ~HandOver(d),
             ~KeepHandling(d)
      PROVE paused' = paused
  BY <1>2
     DEF DeliveryStep, Arrive, CreateEvent, ClaimEvent, Refuse, StoreMessage, ApplyOptOut, OptOut,
         SweepMessages, OptOutSweep, QuietFollowUps, CancelFollowUps, Consider, Spare,
         WindowClosed, RequestApproval, SendReply, StartWith, ReplyEnds, Reschedule, Plan,
         Finish, AfterOptOut, Raise, DispatchThrows, Throw, Escape, MarkFailed, Abort,
         DispatchDies, Crash, vars
<1>3. ASSUME NEW d \in Calls, RulePauses(d) \/ HandOver(d) PROVE paused'
  BY <1>3 DEF RulePauses, HandOver, SetMode
<1>4. ASSUME NEW d \in Calls, KeepHandling(d) PROVE ~paused'
  BY <1>4 DEF KeepHandling, SetMode
<1>5. TakeOver => paused'
  BY DEF TakeOver
<1>6. Resume => ~paused'
  BY DEF Resume, SetMode
<1>7. UNCHANGED allvars => paused' = paused
  BY DEF allvars, vars
<1> QED
  BY <1>0, <1>1, <1>2, <1>3, <1>4, <1>5, <1>6, <1>7 DEF INext

LEMMA PauseStep ==
  ASSUME Typed, PauseInv, [INext]_allvars
  PROVE  PauseInv'
<1> SUFFICES ASSUME paused', NEW d \in Calls, at'[d] \in Past, saw'[d] = "open"
             PROVE d \in behind'
  BY DEF PauseInv
<1>1. CASE TakeOver \/ \E c \in Calls : RulePauses(c)
  BY <1>1 DEF TakeOver, RulePauses, Drafting
<1>2. ASSUME NEW c \in Calls, HandOver(c) PROVE d \in behind'
  <2>1. at' = [at EXCEPT ![c] = "finish"] /\ behind' = Drafting
    BY <1>2 DEF HandOver, Goto
  <2>2. at[d] \in Past
    BY <2>1 DEF Past, Typed, MineOK
  <2> QED
    BY <2>1, <2>2 DEF Drafting
<1>3. CASE ~TakeOver /\ \A c \in Calls : ~RulePauses(c) /\ ~HandOver(c)
  <2>1. paused
    BY <1>3, PausedStep
  <2>2. ~StoreMessage(d)
    <3>1. StoreMessage(d) => saw'[d] = Seen
      BY DEF StoreMessage, Typed, MineOK
    <3> QED
      BY <2>1, <3>1 DEF Seen
  <2>3. d \in behind
    BY <2>1, <2>2, PastBefore DEF PauseInv
  <2>4. at'[d] # "idle"
    BY DEF Past
  <2> QED
    BY <1>3, <2>3, <2>4, MarksStep
<1> QED
  BY <1>1, <1>2, <1>3

\* A pause stands until a person or a delivery that began before it undoes it.
THEOREM PausesStand == ISpec => PauseStands
<1> DEFINE Undone == paused /\ ~paused' => people' # people \/ \E d \in behind : at[d] = "draft"
<1>1. IInit => Typed /\ PauseInv
  BY InitTyped DEF IInit, Init, PauseInv
<1>2. Typed /\ PauseInv /\ [INext]_allvars => (Typed /\ PauseInv)'
  BY TypedStep, PauseStep
<1>3. Typed /\ PauseInv /\ [INext]_allvars => [Undone]_allvars
  <2> SUFFICES ASSUME Typed, PauseInv, INext, paused, ~paused'
               PROVE people' # people \/ \E d \in behind : at[d] = "draft"
    OBVIOUS
  <2>1. CASE Resume
    BY <2>1 DEF Resume, Typed, TablesOK
  <2>2. ASSUME NEW d \in Calls, KeepHandling(d) PROVE d \in behind /\ at[d] = "draft"
    <3>1. at[d] = "draft" /\ saw[d] = "open"
      BY <2>2 DEF KeepHandling, Typed, Consistent, Past
    <3> QED
      BY <3>1 DEF PauseInv, Past
  <2> QED
    BY <2>1, <2>2, PausedStep
<1> QED
  BY <1>1, <1>2, <1>3, PTL DEF ISpec, PauseStands

-----------------------------------------------------------------------------
(* Opt-outs *)

\* An opted-out contact is suppressed, and whoever still works with an older sight is
\* marked.  A delivery that saw the opt-out, or has got past it, came after it.
OptOutSeen ==
  /\ optedOut => suppressed /\ Drafting \subseteq ahead
  /\ \A d \in Calls : saw[d] = "out" \/ at[d] \in {"sweep", "quiet"} => optedOut

\* The messages that ask to stop and are through with it.
Quieted(m) ==
  m \in Stops /\ (event[m] = "PROCESSED" \/ \E d \in Calls : msg[d] = m /\ at[d] \in {"finish", "after"})

\* After them only the strays have follow-ups.
QuietInv == \A m \in Messages : Quieted(m) => optedOut /\ scheduled \subseteq strays

\* An opt-out is never taken back, and only applyOptOut makes one.
LEMMA OptedStep ==
  ASSUME Typed, [INext]_allvars
  PROVE  /\ optedOut => optedOut'
         /\ suppressed => suppressed'
         /\ \/ UNCHANGED <<optedOut, suppressed>>
            \/ \E c \in Calls : ApplyOptOut(c) /\ optedOut' /\ suppressed'
<1>1. ASSUME NEW d \in Calls, DispatchStep(d) PROVE UNCHANGED <<optedOut, suppressed>>
  BY <1>1
     DEF DispatchStep, CallStep, Approval, Lookup, Interrupt, Gate1, ReadConversation, Prepare,
         Invalidate, LeaseLook, LeaseUpdate, LeaseCreate, Recheck, Gate2, Credential, Fail,
         Dispatch, Send, Conclude, Release
<1>2. ASSUME NEW d \in Calls, DeliveryStep(d), ~DispatchStep(d), ~ApplyOptOut(d)
      PROVE UNCHANGED <<optedOut, suppressed>>
  BY <1>2
     DEF DeliveryStep, Arrive, CreateEvent, ClaimEvent, Refuse, StoreMessage, Activity,
         SweepMessages, OptOutSweep, QuietFollowUps, CancelFollowUps, RulePauses, SetMode,
         Consider, Spare, HandOver, KeepHandling, WindowClosed, RequestApproval, SendReply,
         StartWith, ReplyEnds, Reschedule, Plan, Finish, AfterOptOut, Raise, DispatchThrows,
         Throw, Escape, MarkFailed, Abort, DispatchDies, Crash, vars
<1>3. ASSUME NEW d \in Calls, ApplyOptOut(d) PROVE optedOut' /\ suppressed'
  BY <1>3 DEF ApplyOptOut, OptOut
<1>4. (TakeOver => Activity) /\ (Resume => SetMode(FALSE))
  BY DEF TakeOver, Resume
<1>5. Activity \/ SetMode(FALSE) => UNCHANGED <<optedOut, suppressed>>
  BY DEF Activity, SetMode
<1>6. UNCHANGED allvars => UNCHANGED <<optedOut, suppressed>>
  BY DEF allvars, vars
<1>7. UNCHANGED <<optedOut, suppressed>> \/ \E c \in Calls : ApplyOptOut(c)
  BY <1>1, <1>2, <1>4, <1>5, <1>6, Zenon DEF INext
<1>8. UNCHANGED <<optedOut, suppressed>> => (optedOut => optedOut') /\ (suppressed => suppressed')
  OBVIOUS
<1> QED
  BY <1>3, <1>7, <1>8, Zenon

LEMMA OptOutSeenStep ==
  ASSUME Typed, OptOutSeen, [INext]_allvars
  PROVE  OptOutSeen'
<1>0. optedOut => suppressed
  BY DEF OptOutSeen
<1>1. optedOut' => suppressed'
  BY <1>0, OptedStep
<1>2. ASSUME optedOut', NEW d \in Drafting' PROVE d \in ahead'
  <2>1. d \in Calls /\ at'[d] \in Past
    BY <1>2 DEF Drafting
  <2>2. ASSUME NEW c \in Calls, ApplyOptOut(c) PROVE d \in ahead'
    <3>1. at[d] \in Past
      BY <2>1, <2>2 DEF ApplyOptOut, Goto, Past, Typed, MineOK
    <3> QED
      BY <2>1, <2>2, <3>1 DEF ApplyOptOut, Drafting
  <2>3. CASE \A c \in Calls : ~ApplyOptOut(c)
    <3>1. optedOut
      BY <1>2, <2>3, OptedStep
    <3>2. ~StoreMessage(d)
      <4>1. Seen = "out" /\ Stopped(msg[d], Seen)
        BY <3>1 DEF Seen, Stopped
      <4>2. StoreMessage(d) => at'[d] = "quiet"
        BY <2>1, <4>1 DEF StoreMessage, Goto, Stopped, Typed, MineOK
      <4> QED
        BY <2>1, <4>2 DEF Past
    <3>3. d \in ahead
      BY <2>1, <3>1, <3>2, PastBefore DEF OptOutSeen, Drafting
    <3> QED
      BY <2>1, <2>3, <3>3, MarksStep DEF Past
  <2> QED
    BY <2>2, <2>3
<1>3. ASSUME NEW d \in Calls, saw'[d] = "out" \/ at'[d] \in {"sweep", "quiet"} PROVE optedOut'
  <2>0. saw[d] = "out" \/ at[d] \in {"sweep", "quiet"} => optedOut'
    BY OptedStep DEF OptOutSeen
  <2>1. CASE Same(d)
    BY <1>3, <2>0, <2>1 DEF Same
  <2>2. CASE Leave(d) \/ DispatchDies(d)
    BY <1>3, <2>2, LeaveIdle DEF DispatchDies, Typed
  <2>3. CASE DispatchStep(d) \/ DispatchThrows(d) \/ RulePauses(d)
    BY <1>3, <2>0, <2>3 DEF DispatchStep, DispatchThrows, RulePauses
  <2>4. CASE StoreMessage(d)
    <3>1. saw'[d] = Seen /\ at'[d] # "sweep" /\ (at'[d] = "quiet" => Seen = "out")
      BY <2>4 DEF StoreMessage, Goto, Typed, MineOK
    <3>2. Seen = "out" => optedOut
      BY DEF Seen
    <3> QED
      BY <1>3, <3>1, <3>2, OptedStep
  <2>5. ASSUME NEW m \in Messages, Arrive(d, m) PROVE optedOut'
    BY <1>3, <2>0, <2>5 DEF Arrive, Goto, Typed, MineOK
  <2>6. CASE ApplyOptOut(d)
    BY <2>6 DEF ApplyOptOut, OptOut
  <2>7. CASE HandOver(d)
    BY <1>3, <2>0, <2>7 DEF HandOver, Goto, Typed, MineOK
  <2>8. ASSUME NEW next, Proceed(d, next), next \in {"sweep", "quiet"} => at[d] = "sweep"
        PROVE optedOut'
    BY <1>3, <2>0, <2>8, ProceedKeeps DEF Typed
  <2> QED
    BY <2>1, <2>2, <2>3, <2>4, <2>5, <2>6, <2>7, <2>8, OneActs
       DEF Typed, DeliveryStep, CreateEvent, ClaimEvent, Refuse, SweepMessages, QuietFollowUps,
           CancelFollowUps, Consider, Spare, KeepHandling, WindowClosed, RequestApproval,
           SendReply, ReplyEnds, Reschedule, Plan, Finish, AfterOptOut, Raise, Escape,
           MarkFailed, Abort
<1> QED
  BY <1>1, <1>2, <1>3 DEF OptOutSeen

\* PROCESSED comes from a delivery at its end.
LEMMA ProcessedStep ==
  ASSUME Typed, [INext]_allvars, NEW m \in Messages, event'[m] = "PROCESSED"
  PROVE  event[m] = "PROCESSED" \/ \E d \in Calls : Finish(d) /\ msg[d] = m
<1>1. ASSUME NEW d \in Calls, CreateEvent(d) \/ ClaimEvent(d) \/ Refuse(d) \/ MarkFailed(d)
      PROVE event[m] = "PROCESSED"
  BY <1>1 DEF CreateEvent, ClaimEvent, Refuse, Refusal, MarkFailed, AfterError, Typed, TablesOK
<1>2. ASSUME NEW d \in Calls, Finish(d), msg[d] # m PROVE event[m] = "PROCESSED"
  BY <1>2 DEF Finish, Typed, TablesOK
<1>3. CASE event' = event
  BY <1>3
<1> QED
  BY <1>1, <1>2, <1>3
     DEF INext, DeliveryStep, Arrive, StoreMessage, ApplyOptOut, SweepMessages, QuietFollowUps,
         CancelFollowUps, RulePauses, Consider, Spare, HandOver, KeepHandling, WindowClosed,
         RequestApproval, SendReply, DispatchStep, ReplyEnds, Reschedule, Plan, AfterOptOut,
         Raise, DispatchThrows, Escape, Abort, DispatchDies, TakeOver, Resume, allvars, ivars

\* The follow-ups that are not strays become fewer while the contact is opted out.
LEMMA StraysStep ==
  ASSUME Typed, OptOutSeen, [INext]_allvars, optedOut, scheduled \subseteq strays
  PROVE  scheduled' \subseteq strays'
<1>1. ASSUME NEW d \in Calls, Plan(d) PROVE scheduled' \subseteq strays'
  <2>1. d \in ahead
    BY <1>1 DEF Plan, OptOutSeen, Drafting, Past
  <2> QED
    BY <1>1, <2>1 DEF Plan
<1>2. CASE scheduled' = {}
  BY <1>2
<1>3. CASE UNCHANGED <<scheduled, strays>>
  BY <1>3
<1> QED
  BY <1>1, <1>2, <1>3
     DEF INext, DeliveryStep, Arrive, CreateEvent, ClaimEvent, Refuse, StoreMessage, ApplyOptOut,
         SweepMessages, QuietFollowUps, CancelFollowUps, RulePauses, Consider, Spare, HandOver,
         KeepHandling, WindowClosed, RequestApproval, SendReply, DispatchStep, ReplyEnds,
         Reschedule, Finish, AfterOptOut, Raise, DispatchThrows, Escape, MarkFailed, Abort,
         DispatchDies, TakeOver, Resume, allvars, ivars

LEMMA QuietStep ==
  ASSUME Typed, OptOutSeen, QuietInv, [INext]_allvars
  PROVE  QuietInv'
<1> SUFFICES ASSUME NEW m \in Messages, Quieted(m)'
             PROVE optedOut' /\ scheduled' \subseteq strays'
  BY DEF QuietInv
<1>1. CASE Quieted(m)
  BY <1>1, OptedStep, StraysStep DEF QuietInv
<1>2. ASSUME NEW d \in Calls, QuietFollowUps(d) PROVE optedOut' /\ scheduled' \subseteq strays'
  BY <1>2, OptedStep DEF QuietFollowUps, OptOutSeen
<1>3. m \in Stops /\ m \notin Plain
  BY DEF Quieted, Plain
<1>4. ASSUME event'[m] = "PROCESSED" PROVE Quieted(m)
  BY <1>3, <1>4, ProcessedStep DEF Quieted, Finish
<1>5. ASSUME NEW d \in Calls, msg'[d] = m, at'[d] \in {"finish", "after"}, ~QuietFollowUps(d)
      PROVE Quieted(m)
  <2>0. msg[d] = m /\ at[d] \in {"finish", "after"} => Quieted(m)
    BY <1>3 DEF Quieted
  <2>1. msg[d] = m => at[d] \notin Past
    BY <1>3 DEF Typed, Consistent
  <2>2. CASE Same(d)
    BY <1>5, <2>0, <2>2 DEF Same
  <2>3. CASE Leave(d) \/ DispatchDies(d)
    BY <1>5, <2>3, LeaveIdle DEF DispatchDies, Typed
  <2>4. CASE DispatchStep(d) \/ DispatchThrows(d) \/ RulePauses(d)
    BY <1>5, <2>0, <2>4 DEF DispatchStep, DispatchThrows, RulePauses
  <2>5. CASE StoreMessage(d) \/ ApplyOptOut(d) \/ \E n \in Messages : Arrive(d, n)
    BY <1>5, <2>5 DEF StoreMessage, ApplyOptOut, Arrive, Goto, Typed, MineOK
  <2>6. CASE HandOver(d)
    BY <1>5, <2>1, <2>6 DEF HandOver, Past
  <2>7. ASSUME NEW next, Proceed(d, next),
               next \in {"finish", "after"} => at[d] \in Past \cup {"finish"}
        PROVE Quieted(m)
    BY <1>5, <2>0, <2>1, <2>7, ProceedKeeps DEF Typed
  <2> QED
    BY <1>5, <2>2, <2>3, <2>4, <2>5, <2>6, <2>7, OneActs
       DEF Typed, DeliveryStep, CreateEvent, ClaimEvent, Refuse, SweepMessages, QuietFollowUps,
           CancelFollowUps, Consider, Spare, KeepHandling, WindowClosed, RequestApproval,
           SendReply, ReplyEnds, Reschedule, Plan, Finish, AfterOptOut, Raise, Escape,
           MarkFailed, Abort, Past
<1> QED
  BY <1>1, <1>2, <1>4, <1>5 DEF Quieted

\* After a processed opt-out only the deliveries that were past their transaction when the
\* contact opted out draft, send or schedule.
THEOREM OptOutsStick == ISpec => []OptOutSticks
<1> DEFINE IInv == Typed /\ OptOutSeen /\ QuietInv
<1>1. IInit => IInv
  BY InitTyped DEF IInit, Init, OptOutSeen, QuietInv, Quieted
<1>2. IInv /\ [INext]_allvars => IInv'
  BY TypedStep, OptOutSeenStep, QuietStep
<1>3. IInv => OptOutSticks
  BY DEF OptOutSeen, QuietInv, Quieted, OptOutSticks, Messages
<1> QED
  BY <1>1, <1>2, <1>3, PTL DEF ISpec

-----------------------------------------------------------------------------
(* One answer to a message *)

\* Unless its deliveries overlap, a message is in one delivery's hands.
OneHand(m) == \A d, e \in Calls : msg[d] = m /\ msg[e] = m => d = e

\* A request stands for a delivery past it, or for a processed message.
AskedAt(m) ==
  /\ requested[m] =< 1
  /\ requested[m] > 0 =>
       /\ \A d \in Calls : msg[d] = m => at[d] \in {"schedule", "plan", "finish"} /\ saw[d] = "open"
       /\ (\A d \in Calls : msg[d] # m) => event[m] = "PROCESSED"

\* Nobody has a processed message in hand.
FinalAt(m) == event[m] = "PROCESSED" /\ ~optedOut => \A d \in Calls : msg[d] # m

AnsweredInv ==
  \A m \in Plain \ overlapped : OneHand(m) /\ SerialAt(m) /\ (m \notin broken => AskedAt(m)) /\ FinalAt(m)

\* A delivery gets its message when it arrives.
LEMMA HandStep ==
  ASSUME Typed, [INext]_allvars, NEW d \in Calls, NEW m \in Messages, msg'[d] = m
  PROVE  msg[d] = m \/ Arrive(d, m)
<1>1. CASE Same(d)
  BY <1>1 DEF Same
<1>2. CASE DispatchStep(d) \/ DispatchThrows(d) \/ RulePauses(d) \/ StoreMessage(d)
  BY <1>2 DEF DispatchStep, DispatchThrows, RulePauses, StoreMessage
<1>3. CASE DispatchDies(d) \/ Leave(d)
  BY <1>3, LeaveIdle DEF DispatchDies, Typed
<1>4. CASE SendReply(d)
  BY <1>4 DEF SendReply, Proceed
<1>5. ASSUME NEW n \in Messages, Arrive(d, n) PROVE Arrive(d, m)
  <2>1. n = m
    BY <1>5 DEF Arrive, Typed, MineOK
  <2> QED
    BY <1>5, <2>1
<1> QED
  BY <1>1, <1>2, <1>3, <1>4, <1>5, Moves, OneActs DEF Typed

\* A row is written by a delivery of its message, a request by one that may.
LEMMA RowsStep ==
  ASSUME Typed, [INext]_allvars, NEW m \in Messages
  PROVE  /\ overlapped \subseteq overlapped' /\ broken \subseteq broken'
         /\ \/ event'[m] = event[m]
            \/ \E d \in Calls : msg[d] = m /\ at[d] # "idle" /\ DeliveryStep(d)
         /\ \/ requested' = requested
            \/ \E d \in Calls : RequestApproval(d)
<1>1. CASE UNCHANGED <<event, requested, overlapped, broken>>
  BY <1>1
<1>2. ASSUME NEW d \in Calls, CreateEvent(d) \/ ClaimEvent(d) \/ Refuse(d) \/ Finish(d) \/ MarkFailed(d)
      PROVE  /\ UNCHANGED <<requested, overlapped, broken>> /\ at[d] # "idle" /\ DeliveryStep(d)
             /\ msg[d] # m => event'[m] = event[m]
  BY <1>2
     DEF DeliveryStep, CreateEvent, ClaimEvent, Refuse, Finish, MarkFailed, Typed, TablesOK
<1>3. ASSUME NEW d \in Calls, \E n \in Messages : Arrive(d, n)
      PROVE UNCHANGED <<event, requested, broken>> /\ overlapped \subseteq overlapped'
  BY <1>3 DEF Arrive
<1>4. ASSUME NEW d \in Calls, RequestApproval(d) PROVE UNCHANGED <<event, overlapped, broken>>
  BY <1>4 DEF RequestApproval
<1>5. ASSUME NEW d \in Calls, Raise(d) \/ DispatchThrows(d) \/ Abort(d) \/ DispatchDies(d)
      PROVE UNCHANGED <<event, requested, overlapped>> /\ broken \subseteq broken'
  BY <1>5 DEF Raise, DispatchThrows, Abort, DispatchDies, Break
<1>6. ASSUME NEW d \in Calls, DeliveryStep(d),
             ~(CreateEvent(d) \/ ClaimEvent(d) \/ Refuse(d) \/ Finish(d) \/ MarkFailed(d)),
             ~(\E n \in Messages : Arrive(d, n)), ~RequestApproval(d),
             ~(Raise(d) \/ DispatchThrows(d) \/ Abort(d) \/ DispatchDies(d))
      PROVE UNCHANGED <<event, requested, overlapped, broken>>
  BY <1>6
     DEF DeliveryStep, StoreMessage, ApplyOptOut, SweepMessages, QuietFollowUps,
         CancelFollowUps, RulePauses, Consider, Spare, HandOver, KeepHandling, WindowClosed,
         SendReply, DispatchStep, ReplyEnds, Reschedule, Plan, AfterOptOut, Escape
<1>7. CASE TakeOver \/ Resume \/ UNCHANGED allvars
  BY <1>1, <1>7 DEF TakeOver, Resume, allvars, ivars
<1>8. ASSUME NEW d \in Calls, DeliveryStep(d)
      PROVE  /\ overlapped \subseteq overlapped' /\ broken \subseteq broken'
             /\ \/ event'[m] = event[m]
                \/ msg[d] = m /\ at[d] # "idle" /\ DeliveryStep(d)
             /\ requested' = requested \/ RequestApproval(d)
  BY <1>2, <1>3, <1>4, <1>5, <1>6, <1>8
<1> QED
  BY <1>7, <1>8 DEF INext

\* A call starts for a message that its delivery has in hand.
LEMMA StartsReply ==
  ASSUME Typed, [INext]_allvars, NEW c \in Calls, Start(c)
  PROVE  SendReply(c) /\ key'[c] = msg[c]
<1>1. pc[c] = "idle" /\ pc'[c] = "approval"
  BY DEF Start, StartWith, Go, Typed, LocalOK
<1>2. ~DispatchStep(c) /\ ~DispatchThrows(c) /\ ~DispatchDies(c)
  BY <1>1, OwnCall DEF DispatchStep, DispatchThrows, DispatchDies, Typed
<1>3. SendReply(c)
  BY <1>1, <1>2, Moves, OneActs DEF Same, Typed
<1> QED
  BY <1>3 DEF SendReply, StartWith, Typed, LocalOK

LEMMA AnsweredStep ==
  ASSUME Typed, DeliveryInv, OptOutSeen, AnsweredInv, [INext]_allvars
  PROVE  AnsweredInv'
<1> SUFFICES ASSUME NEW m \in Plain, m \notin overlapped'
             PROVE  OneHand(m)' /\ SerialAt(m)' /\ (m \notin broken' => AskedAt(m)') /\ FinalAt(m)'
  BY DEF AnsweredInv
<1>0. /\ m \in Messages /\ m \in Keys /\ m \notin Stops /\ m # NoMessage
      /\ m \notin overlapped /\ (m \notin broken' => m \notin broken)
  BY RowsStep DEF Messages, Plain
<1>1. OneHand(m) /\ SerialAt(m) /\ (m \notin broken => AskedAt(m)) /\ FinalAt(m)
  BY <1>0 DEF AnsweredInv
<1>2. ASSUME NEW d \in Calls, Arrive(d, m)
      PROVE event[m] # "PROCESSED" /\ \A e \in Calls : msg[e] # m
  BY <1>0, <1>2 DEF Arrive, Duplicate
<1>3. OneHand(m)'
  <2> SUFFICES ASSUME NEW d \in Calls, NEW e \in Calls, d # e, msg'[d] = m, msg'[e] = m
               PROVE FALSE
    BY DEF OneHand
  <2>1. \/ msg[d] = m /\ msg[e] = m
        \/ Arrive(d, m) /\ Arrive(e, m)
    BY <1>0, <1>2, HandStep
  <2> QED
    BY <1>1, <2>1 DEF OneHand, Arrive, Goto, Typed, MineOK
<1>4. SerialAt(m)'
  <2>1. ASSUME NEW c \in Calls, Start(c), key'[c] = m, NEW d \in Calls, key[d] = m PROVE FALSE
    <3>1. SendReply(c) /\ msg[c] = m
      BY <2>1, StartsReply
    <3>2. pc[d] # "idle"
      BY <1>0, <2>1 DEF Typed, LocalOK, Busy
    <3>3. at[d] = "wait" /\ msg[d] = m
      BY <2>1, <3>2 DEF Typed, Consistent
    <3> QED
      BY <1>1, <3>1, <3>3 DEF OneHand, SendReply
  <2>2. [Next]_vars
    BY TypedStep
  <2> QED
    BY <1>0, <1>1, <2>1, <2>2, SerialStep DEF Typed
<1>5. ASSUME m \notin broken' PROVE AskedAt(m)'
  <2>0. m \notin broken /\ AskedAt(m) /\ requested[m] \in Nat
    BY <1>0, <1>1, <1>5 DEF Typed, TablesOK
  <2>1. ASSUME NEW d \in Calls, RequestApproval(d), msg[d] = m PROVE AskedAt(m)'
    <3>1. requested[m] = 0
      BY <2>0, <2>1 DEF AskedAt, RequestApproval
    <3>2. requested'[m] = 1
      BY <2>1, <3>1 DEF RequestApproval, Typed, TablesOK
    <3>3. at'[d] = "schedule" /\ saw'[d] = "open" /\ msg'[d] = m
      BY <2>1, ProceedKeeps DEF RequestApproval, Typed, Consistent, Past
    <3> QED
      BY <1>3, <3>2, <3>3 DEF AskedAt, OneHand
  <2>2. CASE requested'[m] = 0
    BY <2>2 DEF AskedAt
  <2>3. CASE requested'[m] = requested[m] /\ requested[m] > 0
    <3>0. \A d \in Calls : ~Arrive(d, m)
      <4>1. (\E d \in Calls : msg[d] = m) \/ event[m] = "PROCESSED"
        BY <2>0, <2>3 DEF AskedAt
      <4> QED
        BY <1>2, <4>1
    <3>1. ASSUME NEW d \in Calls, msg'[d] = m
          PROVE at'[d] \in {"schedule", "plan", "finish"} /\ saw'[d] = "open"
      <4>1. msg[d] = m /\ at[d] \in {"schedule", "plan", "finish"} /\ saw[d] = "open"
        BY <1>0, <2>0, <2>3, <3>0, <3>1, HandStep DEF AskedAt
      <4>2. CASE Same(d)
        BY <4>1, <4>2 DEF Same
      <4>3. CASE Reschedule(d) \/ Plan(d)
        BY <4>1, <4>3, ProceedKeeps DEF Reschedule, Plan, Typed
      <4>4. CASE Finish(d) \/ Abort(d)
        BY <1>0, <3>1, <4>1, <4>4, LeaveIdle DEF Finish, Abort, Stopped, Typed
      <4>5. CASE Raise(d)
        BY <1>5, <4>1, <4>5 DEF Raise, Break
      <4> QED
        BY <4>1, <4>2, <4>3, <4>4, <4>5, OneActs
           DEF Typed, DeliveryStep, Arrive, CreateEvent, ClaimEvent, Refuse, StoreMessage,
               ApplyOptOut, SweepMessages, QuietFollowUps, CancelFollowUps, RulePauses, Consider,
               Spare, HandOver, KeepHandling, WindowClosed, RequestApproval, SendReply,
               DispatchStep, ReplyEnds, AfterOptOut, DispatchThrows, Escape, MarkFailed,
               DispatchDies
    <3>2. ASSUME \A d \in Calls : msg'[d] # m PROVE event'[m] = "PROCESSED"
      <4>1. CASE \A d \in Calls : msg[d] # m
        BY <1>0, <2>0, <2>3, <4>1, RowsStep DEF AskedAt
      <4>2. ASSUME NEW d \in Calls, msg[d] = m PROVE event'[m] = "PROCESSED"
        <5>1. at[d] \in {"schedule", "plan", "finish"} /\ ~Same(d)
          BY <2>0, <2>3, <3>2, <4>2 DEF AskedAt, Same
        <5>2. ~Reschedule(d) /\ ~Plan(d)
          BY <3>2, <4>2 DEF Reschedule, Plan, Proceed
        <5>3. ~Raise(d) /\ ~Abort(d)
          BY <1>5, <4>2 DEF Raise, Abort, Break
        <5>4. Finish(d)
          BY <5>1, <5>2, <5>3, OneActs
             DEF Typed, DeliveryStep, Arrive, CreateEvent, ClaimEvent, Refuse, StoreMessage,
                 ApplyOptOut, SweepMessages, QuietFollowUps, CancelFollowUps, RulePauses,
                 Consider, Spare, HandOver, KeepHandling, WindowClosed, RequestApproval,
                 SendReply, DispatchStep, ReplyEnds, AfterOptOut, DispatchThrows, Escape,
                 MarkFailed, DispatchDies
        <5> QED
          BY <1>0, <4>2, <5>4 DEF Finish, Typed, TablesOK
      <4> QED
        BY <4>1, <4>2
    <3> QED
      BY <2>0, <2>3, <3>1, <3>2 DEF AskedAt
  <2>4. ASSUME NEW d \in Calls, RequestApproval(d), msg[d] # m PROVE requested'[m] = requested[m]
    BY <2>4 DEF RequestApproval, Typed, TablesOK
  <2> QED
    BY <1>0, <2>0, <2>1, <2>2, <2>3, <2>4, RowsStep
<1>6. FinalAt(m)'
  <2> SUFFICES ASSUME event'[m] = "PROCESSED", ~optedOut', NEW d \in Calls, msg'[d] = m
               PROVE FALSE
    BY DEF FinalAt
  <2>0. ~optedOut
    BY OptedStep
  <2>1. CASE event[m] = "PROCESSED"
    BY <1>0, <1>1, <1>2, <2>0, <2>1, HandStep DEF FinalAt
  <2>2. ASSUME NEW e \in Calls, Finish(e), msg[e] = m PROVE FALSE
    <3>1. ~Stopped(m, saw[e])
      BY <1>0, <2>0 DEF Stopped, OptOutSeen
    <3>2. Leave(e)
      BY <2>2, <3>1 DEF Finish
    <3>3. d # e
      BY <1>0, <3>2, LeaveIdle DEF Typed
    <3>4. msg[d] = m
      BY <1>0, <1>2, <2>2, HandStep
    <3> QED
      BY <1>1, <2>2, <3>3, <3>4 DEF OneHand
  <2> QED
    BY <1>0, <2>1, <2>2, ProcessedStep
<1> QED
  BY <1>3, <1>4, <1>5, <1>6

LEMMA AnsweredInit ==
  ASSUME IInit
  PROVE  Typed /\ OptOutSeen /\ DeliveryInv /\ AnsweredInv
<1>1. Typed /\ Init
  BY InitTyped
<1>2. OptOutSeen
  BY <1>1 DEF IInit, Init, OptOutSeen
<1>3. DeliveryInv
  BY <1>1 DEF Init, DeliveryInv, FreshUnsent, SendingNotFresh, OkMeansSent, ConfirmedMeansSent,
     LateStops
<1>4. ASSUME NEW m \in Plain PROVE OneHand(m) /\ SerialAt(m) /\ AskedAt(m) /\ FinalAt(m)
  <2>1. m \in Keys /\ m \in Messages /\ m # NoMessage
    BY DEF Plain, Messages
  <2> QED
    BY <1>1, <2>1 DEF IInit, Init, OneHand, SerialAt, AskedAt, FinalAt
<1> QED
  BY <1>1, <1>2, <1>3, <1>4 DEF AnsweredInv

LEMMA AnsweredAll ==
  ASSUME Typed, OptOutSeen, DeliveryInv, AnsweredInv, [INext]_allvars
  PROVE  (Typed /\ OptOutSeen /\ DeliveryInv /\ AnsweredInv)'
<1>1. [Next]_vars /\ Typed'
  BY TypedStep
<1>2. DeliveryInv'
  BY <1>1, DeliveryInvStep DEF Typed
<1> QED
  BY <1>1, <1>2, OptOutSeenStep, AnsweredStep

\* Unless its deliveries overlap, a message is answered once, and asked about once.
THEOREM RepliesOnce == ISpec => []AnsweredOnce
<1> DEFINE IInv == Typed /\ OptOutSeen /\ DeliveryInv /\ AnsweredInv
<1>1. IInit => IInv
  BY AnsweredInit
<1>2. IInv /\ [INext]_allvars => IInv'
  BY AnsweredAll
<1>3. IInv => AnsweredOnce
  BY DEF AnsweredInv, SerialAt, AskedAt, AnsweredOnce
<1> QED
  BY <1>1, <1>2, <1>3, PTL DEF ISpec

\* PROCESSED is final, but for opt-outs and overlapping deliveries.
THEOREM ProcessedKept == ISpec => ProcessedStays
<1> DEFINE IInv == Typed /\ OptOutSeen /\ DeliveryInv /\ AnsweredInv
           Kept == \A m \in Plain \ overlapped' :
                     event[m] = "PROCESSED" /\ ~optedOut => event'[m] = "PROCESSED"
<1>1. IInit => IInv
  BY AnsweredInit
<1>2. IInv /\ [INext]_allvars => IInv'
  BY AnsweredAll
<1>3. IInv /\ [INext]_allvars => [Kept]_allvars
  <2> SUFFICES ASSUME IInv, [INext]_allvars, NEW m \in Plain, m \notin overlapped',
                      event[m] = "PROCESSED", ~optedOut
               PROVE event'[m] = "PROCESSED"
    OBVIOUS
  <2>1. m \in Messages /\ m \notin overlapped
    BY RowsStep DEF Messages
  <2>2. \A d \in Calls : msg[d] # m
    BY <2>1 DEF AnsweredInv, FinalAt
  <2> QED
    BY <2>1, <2>2, RowsStep
<1> QED
  BY <1>1, <1>2, <1>3, PTL DEF ISpec, ProcessedStays

-----------------------------------------------------------------------------
(* What PROCESSED means *)

\* Something became of message m.
Handled(m) ==
  \/ suppressed \/ m \in flagged \/ m \in spared \/ m \in outrun
  \/ m \in Plain /\ sends[m] > 0

\* The part of a call after it has read the conversation.
AfterRead == PC \ {"idle", "approval", "lookup", "interrupt", "gate1", "read"}

\* The part of a delivery before it waits for its dispatch.
Before == {"idle", "create", "claim", "store", "cancel", "rules", "draft", "reply"}

\* Whoever is past the transaction has stored its message, and whoever is past the answer
\* has seen to it.  The dispatch's answers are true.
HandledBy(d) ==
  /\ at[d] \notin {"idle", "create", "claim", "store", "failed"} => msg[d] \in stored
  /\ at[d] \in {"schedule", "plan", "finish", "after"} => Handled(msg[d])
  /\ at[d] \in Before => answer[d] = "refused"
  /\ at[d] = "wait" => /\ answer[d] = "ok" => sends[msg[d]] > 0
                       /\ answer[d] = "stale" => msg[d] \in outrun
  /\ pc[d] \in AfterRead /\ version # seen[d] => msg[d] \in outrun

HandledInv ==
  /\ \A d \in Calls : HandledBy(d)
  /\ \A m \in Messages : event[m] = "PROCESSED" => m \in stored /\ Handled(m)

\* What has become of a message stays, and an activity outruns the stored ones.
LEMMA HandledGrows ==
  ASSUME Typed, [INext]_allvars
  PROVE  /\ stored \subseteq stored' /\ flagged \subseteq flagged' /\ spared \subseteq spared'
         /\ outrun \subseteq outrun'
         /\ version' # version => stored \subseteq outrun'
<1>1. ASSUME NEW d \in Calls, StoreMessage(d)
      PROVE /\ stored \subseteq stored' /\ UNCHANGED <<flagged, spared>> /\ outrun \subseteq outrun'
            /\ version' # version => stored \subseteq outrun'
  BY <1>1 DEF StoreMessage, NoteActivity
<1>2. ASSUME NEW d \in Calls, DispatchStep(d)
      PROVE /\ UNCHANGED <<stored, flagged, spared>> /\ outrun \subseteq outrun'
            /\ version' # version => stored \subseteq outrun'
  BY <1>2 DEF DispatchStep, NoteActivity
<1>3. ASSUME NEW d \in Calls, DeliveryStep(d), ~StoreMessage(d), ~DispatchStep(d)
      PROVE /\ UNCHANGED <<stored, outrun, version>>
            /\ flagged \subseteq flagged' /\ spared \subseteq spared'
  <2>1. UNCHANGED <<stored, outrun>>
    BY <1>3
       DEF DeliveryStep, Arrive, CreateEvent, ClaimEvent, Refuse, ApplyOptOut, SweepMessages,
           QuietFollowUps, CancelFollowUps, RulePauses, Consider, Spare, HandOver, KeepHandling,
           WindowClosed, RequestApproval, SendReply, ReplyEnds, Reschedule, Plan, Finish,
           AfterOptOut, Raise, DispatchThrows, Escape, MarkFailed, Abort, DispatchDies
  <2>2. version' = version
    BY <1>3
       DEF DeliveryStep, Arrive, CreateEvent, ClaimEvent, Refuse, ApplyOptOut, OptOut,
           SweepMessages, OptOutSweep, QuietFollowUps, CancelFollowUps, RulePauses, SetMode,
           Consider, Spare, HandOver, KeepHandling, WindowClosed, RequestApproval, SendReply,
           StartWith, ReplyEnds, Reschedule, Plan, Finish, AfterOptOut, Raise, DispatchThrows,
           Throw, Escape, MarkFailed, Abort, DispatchDies, Crash, vars
  <2>3. flagged \subseteq flagged' /\ spared \subseteq spared'
    BY <1>3
       DEF DeliveryStep, Arrive, CreateEvent, ClaimEvent, Refuse, ApplyOptOut, SweepMessages,
           QuietFollowUps, CancelFollowUps, RulePauses, Consider, Spare, HandOver, KeepHandling,
           WindowClosed, RequestApproval, SendReply, ReplyEnds, Reschedule, Plan, Finish,
           AfterOptOut, Raise, DispatchThrows, Escape, MarkFailed, Abort, DispatchDies
  <2> QED
    BY <2>1, <2>2, <2>3
<1>4. CASE TakeOver
  BY <1>4 DEF TakeOver, NoteActivity
<1>5. CASE Resume
  BY <1>5 DEF Resume, SetMode
<1>6. CASE UNCHANGED allvars
  BY <1>6 DEF allvars, ivars, vars
<1> QED
  BY <1>1, <1>2, <1>3, <1>4, <1>5, <1>6 DEF INext

LEMMA HandledStays ==
  ASSUME Typed, [INext]_allvars, NEW m \in Messages, Handled(m)
  PROVE  Handled(m)'
<1>1. suppressed => suppressed'
  BY OptedStep
<1>2. m \in Plain /\ sends[m] > 0 => sends'[m] > 0
  BY TypedStep, SendsGrow DEF Typed, Plain
<1> QED
  BY <1>1, <1>2, HandledGrows DEF Handled

\* A call past the read has compared the version it saw, or goes on with it.
LEMMA ReadStep ==
  ASSUME LocalOK, NEW d \in Calls, CallStep(d) \/ Throw(d) \/ Crash(d), pc'[d] \in AfterRead
  PROVE  \/ seen'[d] = version /\ version' = version
         \/ pc[d] \in AfterRead /\ seen'[d] = seen[d]
<1> USE DEF AfterRead, PC, LocalOK
<1>1. CASE Return(d)
  BY <1>1 DEF Return, Go
<1>2. CASE ReadConversation(d) /\ ~Return(d)
  BY <1>2 DEF ReadConversation, Go
<1>3. CASE Lookup(d) /\ ~Return(d)
  BY <1>3 DEF Lookup, Go, Continue
<1>4. CASE Send(d)
  BY <1>4 DEF Send, Go
<1>5. CASE ~Return(d) /\ ~ReadConversation(d) /\ ~Lookup(d) /\ ~Send(d)
  BY <1>5
     DEF CallStep, Throw, Crash, Leased, Approval, Interrupt, Gate1, Prepare, Invalidate,
         LeaseLook, LeaseUpdate, LeaseCreate, Take, Recheck, Gate2, Credential, Fail, Dispatch,
         Conclude, Release, Continue, Go
<1> QED
  BY <1>1, <1>2, <1>3, <1>4, <1>5

LEMMA HandledByStep ==
  ASSUME Typed, DeliveryInv, TrueReply, OptOutSeen, HandledInv, [INext]_allvars,
         NEW d \in Calls
  PROVE  HandledBy(d)'
<1> USE DEF HandledBy, Before
<1>0. /\ HandledBy(d) /\ Consistent(d) /\ MineOK /\ LocalOK /\ [Next]_vars
      /\ at[d] # "idle" => msg[d] \in Messages
      /\ at[d] \in Past => msg[d] \in Plain /\ msg[d] \in Keys
      /\ pc[d] # "idle" => at[d] = "wait" /\ key[d] = msg[d]
  BY TypedStep, InHand DEF HandledInv, Typed, Plain, Consistent
<1>m. PICK m : msg[d] = m
  OBVIOUS
\* What holds of the message in hand goes on holding.
<1>1. /\ at[d] # "idle" /\ Handled(m) => Handled(m)'
      /\ m \in stored => m \in stored'
      /\ m \in outrun => m \in outrun'
      /\ m \in stored /\ version' # version => m \in outrun'
      /\ at[d] \in Past /\ sends[m] > 0 => sends'[m] > 0
  <2>1. at[d] # "idle" /\ Handled(m) => Handled(m)'
    BY <1>0, <1>m, HandledStays
  <2>2. at[d] \in Past /\ sends[m] > 0 => sends'[m] > 0
    BY <1>0, <1>m, SendsGrow DEF Typed
  <2> QED
    BY <2>1, <2>2, HandledGrows
<1>h. msg'[d] = m /\ Handled(m)' => Handled(msg[d])'
  BY DEF Handled
<1>f. Handled(msg[d]) => Handled(m)
  BY <1>m
<1>p. pc[d] \in AfterRead => at[d] = "wait"
  BY <1>0 DEF AfterRead
<1>2. CASE Same(d)
  <2>1. /\ pc'[d] = pc[d] /\ seen'[d] = seen[d] /\ at'[d] = at[d] /\ msg'[d] = m
        /\ answer'[d] = answer[d]
    BY <1>2, <1>m DEF Same
  <2> QED
    BY <1>0, <1>m, <1>1, <1>h, <1>f, <1>p, <2>1 DEF Past
<1>3. CASE Leave(d) \/ DispatchDies(d)
  <2>1. at'[d] = "idle" /\ answer'[d] = "refused"
    BY <1>0, <1>3, LeaveIdle DEF DispatchDies
  <2>2. pc'[d] = "idle"
    BY <2>1, ConsistentStep DEF Consistent, Typed
  <2> QED
    BY <2>1, <2>2 DEF AfterRead
<1>4. ASSUME NEW n \in Messages, Arrive(d, n) PROVE HandledBy(d)'
  <2>1. at'[d] \in {"create", "claim"} /\ answer'[d] = "refused"
    BY <1>0, <1>4 DEF Arrive, Goto, MineOK
  <2>2. pc'[d] = "idle"
    BY <1>0, <1>4 DEF Arrive, vars
  <2> QED
    BY <2>1, <2>2 DEF AfterRead
<1>5. CASE StoreMessage(d)
  <2>1. at'[d] \in {"cancel", "quiet", "apply"} /\ answer'[d] = "refused" /\ m \in stored'
    BY <1>0, <1>5, <1>m DEF StoreMessage, Goto, MineOK
  <2>2. pc'[d] = "idle" /\ msg'[d] = m
    BY <1>0, <1>5, <1>m DEF StoreMessage, Activity
  <2> QED
    BY <2>1, <2>2 DEF AfterRead
<1>6. CASE DispatchStep(d) \/ DispatchThrows(d)
  <2>0. /\ at' = at /\ msg' = msg /\ at[d] = "wait" /\ pc[d] # "idle"
        /\ CallStep(d) \/ Throw(d) \/ Crash(d)
    BY <1>0, <1>6, OwnCall DEF DispatchStep, DispatchThrows
  <2>1. m \in stored /\ key[d] = m /\ m \in Keys /\ m # NoKey
    BY <1>0, <1>m, <2>0 DEF Past
  <2>2. answer'[d] = "ok" => sends'[m] > 0
    <3>1. sends[m] > 0 => sends'[m] > 0
      BY <1>1, <2>0 DEF Past
    <3>2. DispatchStep(d) /\ answer'[d] = "ok" => answer[d] = "ok" \/ outcome[m] = "CONFIRMED" \/ reply[d] = "ok"
      BY <1>0, <2>1 DEF DispatchStep, Answered, MineOK
    <3>3. DispatchThrows(d) => answer'[d] # "ok"
      BY <1>0 DEF DispatchThrows, MineOK
    <3>4. answer[d] = "ok" \/ outcome[m] = "CONFIRMED" \/ reply[d] = "ok" => sends[m] > 0
      BY <1>0, <1>m, <2>0, <2>1 DEF DeliveryInv, ConfirmedMeansSent, TrueReply
    <3> QED
      BY <1>6, <3>1, <3>2, <3>3, <3>4
  <2>3. answer'[d] = "stale" => m \in outrun'
    <3>1. DispatchStep(d) /\ answer'[d] = "stale" =>
            answer[d] = "stale" \/ (pc[d] = "recheck" /\ version # seen[d])
      BY <1>0 DEF DispatchStep, Answered, MineOK
    <3>2. DispatchThrows(d) => answer'[d] # "stale"
      BY <1>0 DEF DispatchThrows, MineOK
    <3>3. pc[d] = "recheck" => pc[d] \in AfterRead
      BY DEF AfterRead, PC
    <3> QED
      BY <1>0, <1>1, <1>6, <1>m, <2>0, <3>1, <3>2, <3>3
  <2>4. pc'[d] \in AfterRead /\ version' # seen'[d] => m \in outrun'
    BY <1>0, <1>1, <1>m, <2>0, <2>1, ReadStep
  <2>5. m \in stored'
    BY <1>1, <2>1
  <2> QED
    BY <1>m, <2>0, <2>2, <2>3, <2>4, <2>5
<1>7. CASE SendReply(d)
  <2>1. at'[d] = "wait" /\ msg'[d] = m /\ answer'[d] = "refused" /\ m \in stored'
    BY <1>0, <1>1, <1>7, <1>m, ProceedKeeps DEF SendReply
  <2>2. pc'[d] = "approval"
    BY <1>0, <1>7 DEF SendReply, StartWith, Go, LocalOK
  <2> QED
    BY <2>1, <2>2 DEF AfterRead
<1>8. CASE RulePauses(d)
  <2>1. UNCHANGED <<pc, seen, at, msg, answer>>
    BY <1>8 DEF RulePauses, SetMode
  <2> QED
    BY <1>0, <1>m, <1>1, <1>h, <1>f, <1>p, <2>1 DEF Past
<1>9. ASSUME ~Same(d), ~Leave(d), ~DispatchDies(d), \A n \in Messages : ~Arrive(d, n),
             ~StoreMessage(d), ~DispatchStep(d), ~DispatchThrows(d), ~SendReply(d),
             ~RulePauses(d)
      PROVE HandledBy(d)'
  <2>1. /\ pc'[d] = pc[d] /\ seen'[d] = seen[d] /\ msg'[d] = m /\ answer'[d] = answer[d]
        /\ at'[d] \notin {"idle", "wait"} /\ at[d] # "idle"
    BY <1>0, <1>9, <1>m, Moves, OneActs DEF Typed
  <2>2. pc'[d] \notin AfterRead
    BY <1>9, <2>1, <1>p, ConsistentStep DEF Consistent, Typed, AfterRead
  <2> DEFINE Unstored == {"idle", "create", "claim", "store", "failed"}
             Done == {"schedule", "plan", "finish", "after"}
             Answers == QuietFollowUps(d) \/ Spare(d) \/ HandOver(d) \/ WindowClosed(d)
                          \/ RequestApproval(d) \/ ReplyEnds(d)
             Legal(next) == /\ next \in Before => at[d] \in Before
                            /\ next \notin Unstored => at[d] \notin Unstored
                            /\ next \in Done => at[d] \in Done \/ Answers
  <2>a. HandOver(d) \/ ApplyOptOut(d) \/ \E next : Proceed(d, next) /\ Legal(next)
    <3>1. DeliveryStep(d)
      BY <1>9, OneActs DEF Typed
    <3>2. CASE Answers
      BY <3>2 DEF QuietFollowUps, Spare, WindowClosed, RequestApproval, ReplyEnds
    <3>3. CASE Raise(d)
      BY <3>3 DEF Raise, Guarded
    <3>4. CASE CreateEvent(d) \/ ClaimEvent(d) \/ SweepMessages(d) \/ CancelFollowUps(d)
      BY <1>9, <3>4 DEF CreateEvent, ClaimEvent, SweepMessages, CancelFollowUps
    <3>5. CASE Consider(d) \/ Escape(d)
      BY <3>5 DEF Consider, Escape
    <3>8. CASE KeepHandling(d)
      <4>1. Proceed(d, "reply") /\ at[d] = "draft"
        BY <3>8 DEF KeepHandling
      <4> QED
        BY <4>1
    <3>6. CASE Reschedule(d) \/ Plan(d) \/ Finish(d)
      BY <1>9, <3>6 DEF Reschedule, Plan, Finish
    <3>7. ~(Refuse(d) \/ AfterOptOut(d) \/ MarkFailed(d) \/ Abort(d))
      BY <1>9 DEF Refuse, AfterOptOut, MarkFailed, Abort
    <3> HIDE DEF Legal
    <3> QED
      BY <1>9, <3>1, <3>2, <3>3, <3>4, <3>5, <3>6, <3>7, <3>8 DEF DeliveryStep
  <2>b. HandOver(d) \/ ApplyOptOut(d) => Legal(at'[d])
    BY <1>0 DEF HandOver, ApplyOptOut, Goto, MineOK
  <2>3. Legal(at'[d])
    <3> HIDE DEF Legal
    <3> QED
      BY <1>0, <2>a, <2>b, ProceedKeeps
  <2>5. ASSUME at'[d] \in {"schedule", "plan", "finish", "after"} PROVE Handled(m)'
    <3>1. CASE at[d] \in {"schedule", "plan", "finish", "after"}
      BY <1>0, <1>1, <1>f, <2>1, <3>1
    <3>2. CASE QuietFollowUps(d)
      BY <3>2, OptedStep DEF QuietFollowUps, OptOutSeen, Handled
    <3>3. CASE Spare(d)
      BY <1>m, <3>3 DEF Spare, Handled
    <3>4. CASE HandOver(d) \/ WindowClosed(d) \/ RequestApproval(d)
      BY <1>m, <3>4 DEF HandOver, WindowClosed, RequestApproval, Handled
    <3>5. CASE ReplyEnds(d)
      <4>1. answer[d] \in Answer /\ answer[d] # "thrown" /\ at[d] = "wait" /\ m \in Plain
        BY <1>0, <1>m, <3>5 DEF ReplyEnds, MineOK, Past
      <4>2. CASE answer[d] = "refused"
        BY <1>m, <3>5, <4>2 DEF ReplyEnds, NeedsPerson, Handled
      <4>3. CASE answer[d] = "stale"
        BY <1>0, <1>1, <1>m, <4>1, <4>3 DEF Handled
      <4>4. CASE answer[d] = "ok"
        BY <1>0, <1>1, <1>m, <4>1, <4>4 DEF Handled, Past
      <4> QED
        BY <4>1, <4>2, <4>3, <4>4 DEF Answer
    <3> QED
      BY <2>3, <2>5, <3>1, <3>2, <3>3, <3>4, <3>5
  <2> QED
    BY <1>0, <1>1, <1>h, <1>m, <2>1, <2>2, <2>3, <2>5
<1> QED
  BY <1>2, <1>3, <1>4, <1>5, <1>6, <1>7, <1>8, <1>9

LEMMA HandledStep ==
  ASSUME Typed, DeliveryInv, TrueReply, OptOutSeen, HandledInv, [INext]_allvars
  PROVE  HandledInv'
<1>1. ASSUME NEW d \in Calls PROVE HandledBy(d)'
  BY HandledByStep
<1>2. ASSUME NEW m \in Messages, event'[m] = "PROCESSED" PROVE m \in stored' /\ Handled(m)'
  <2>1. m \in stored /\ Handled(m)
    <3>1. CASE event[m] = "PROCESSED"
      BY <3>1 DEF HandledInv
    <3>2. ASSUME NEW d \in Calls, Finish(d), msg[d] = m PROVE m \in stored /\ Handled(m)
      BY <3>2 DEF HandledInv, HandledBy, Finish
    <3> QED
      BY <1>2, <3>1, <3>2, ProcessedStep
  <2> QED
    BY <2>1, HandledGrows, HandledStays
<1> QED
  BY <1>1, <1>2 DEF HandledInv

\* A message that is PROCESSED has been seen to.
THEOREM ProcessedIsHandled == ISpec => []ProcessedMeansHandled
<1> DEFINE IInv == /\ Typed /\ OptOutSeen /\ QuietInv
                   /\ DeliveryInv /\ TrueReply /\ HandledInv
<1>1. IInit => IInv
  <2> SUFFICES ASSUME IInit PROVE IInv
    OBVIOUS
  <2>1. Init /\ Typed /\ OptOutSeen /\ DeliveryInv
    BY AnsweredInit, InitTyped
  <2>2. QuietInv /\ TrueReply
    BY <2>1 DEF IInit, Init, QuietInv, Quieted, TrueReply
  <2>3. HandledInv
    BY <2>1 DEF IInit, Init, HandledInv, HandledBy, AfterRead, Before
  <2> QED
    BY <2>1, <2>2, <2>3
<1>2. IInv /\ [INext]_allvars => IInv'
  <2> SUFFICES ASSUME IInv, [INext]_allvars PROVE IInv'
    OBVIOUS
  <2>1. Typed' /\ [Next]_vars
    BY TypedStep
  <2>2. DeliveryInv' /\ TrueReply'
    BY <2>1, DeliveryInvStep, TrueReplyStep DEF Typed
  <2> QED
    BY <2>1, <2>2, OptOutSeenStep, QuietStep, HandledStep
<1>3. IInv => ProcessedMeansHandled
  BY DEF HandledInv, Handled, QuietInv, Quieted, OptOutSeen, ProcessedMeansHandled
<1> QED
  BY <1>1, <1>2, <1>3, PTL DEF ISpec
=============================================================================
