---------------------- MODULE OutboundRefinementProofs ----------------------
(* OutboundDispatch implements SingleEffect, for any number of messages,      *)
(* holders and calls and any bounds, as long as callers wait for the end of   *)
(* a call before they repeat it and nobody opts out.                          *)
EXTENDS OutboundDispatchProofs

USE OutboundAssumption
USE DEF rows, leasing, contact, local, bounds, ghosts

\* A call that has passed the lookup and has not handed its message over.
Working == (BeforeSend \ {"send"}) \cup {"fail"}

\* What a call that nobody disturbs knows of the row it writes by id.
RowOf(c) ==
  /\ pc[c] \in Working => outcome[key[c]] \in {"NONE", "PREPARED", "FAILED"}
  /\ pc[c] \in {"interrupt", "send", "conclude"} => outcome[key[c]] = "DISPATCHING"
  /\ pc[c] = "fail" => sends[key[c]] = 0

FailedUnsent == \A m \in Keys : outcome[m] = "FAILED" => sends[m] = 0

\* The inductive invariant behind the refinement.
SoleInv ==
  /\ LocalOK /\ SharedOK /\ DeliveryInv /\ ~suppressed
  /\ \A m \in Keys : SerialAt(m)
  /\ \A c \in Calls : RowOf(c)
  /\ FailedUnsent

\* The steps that change the row of m, and how.
RowChange(m) ==
  \/ outcome'[m] = outcome[m]
  \/ outcome[m] = "PREPARED" /\ outcome'[m] = "FAILED"
  \/ \E c \in Calls :
       /\ key[c] = m
       /\ \/ Interrupt(c) /\ outcome'[m] = "RECONCILIATION_REQUIRED"
          \/ Prepare(c) /\ outcome[m] = "NONE" /\ outcome'[m] = "PREPARED"
          \/ Fail(c) /\ outcome'[m] = "FAILED"
          \/ Dispatch(c) /\ outcome'[m] = "DISPATCHING"
          \/ Conclude(c) /\ outcome'[m] = Concluded(reply[c])

LEMMA RowChanges ==
  ASSUME LocalOK, SharedOK, ~suppressed, [Next]_vars, NEW m \in Keys
  PROVE  RowChange(m)
<1> USE DEF RowChange
<1>1. ASSUME NEW c \in Calls, Interrupt(c) \/ Fail(c) \/ Dispatch(c) \/ Conclude(c)
      PROVE RowChange(m)
  <2>1. key[c] \in Keys
    BY <1>1, RunningKey DEF Interrupt, Fail, Dispatch, Conclude
  <2>2. CASE Interrupt(c)
    BY <2>1, <2>2 DEF Interrupt, SharedOK
  <2>3. CASE Fail(c)
    BY <2>1, <2>3 DEF Fail, SharedOK
  <2>4. CASE Dispatch(c)
    BY <2>1, <2>4 DEF Dispatch, SharedOK
  <2>5. CASE Conclude(c)
    BY <2>1, <2>5 DEF Conclude, SharedOK
  <2> QED
    BY <1>1, <2>2, <2>3, <2>4, <2>5
<1>2. ASSUME NEW c \in Calls, Prepare(c) PROVE RowChange(m)
  <2>1. pc[c] # "idle" /\ key[c] \in Keys
    BY <1>2, RunningKey DEF Prepare
  <2>2. \/ outcome' = outcome
        \/ outcome[key[c]] = "NONE" /\ outcome' = [outcome EXCEPT ![key[c]] = "PREPARED"]
    <3>1. CASE ~found[c] /\ outcome[key[c]] # "NONE"
      BY <1>2, <3>1 DEF Prepare
    <3>2. CASE found[c]
      BY <1>2, <3>2 DEF Prepare
    <3>3. CASE ~found[c] /\ outcome[key[c]] = "NONE"
      BY <1>2, <3>3 DEF Prepare
    <3> QED
      BY <3>1, <3>2, <3>3
  <2> QED
    BY <1>2, <2>1, <2>2 DEF SharedOK
<1>3. ASSUME NEW c \in Calls, Invalidate(c) PROVE RowChange(m)
  BY <1>3 DEF Invalidate
<1>4. CASE UNCHANGED outcome
  BY <1>4
<1>5. ~OptOutSweep
  BY DEF OptOutSweep
<1> HIDE DEF RowChange
<1> QED
  BY <1>1, <1>2, <1>3, <1>4, <1>5
     DEF Next, CallStep, Start, StartWith, Approval, Lookup, Gate1, ReadConversation, LeaseLook,
         LeaseUpdate, LeaseCreate, Recheck, Gate2, Credential, Send, Release, Throw, Crash,
         LeaseExpires, Approve, Overrule, Activity, SetMode, Revoke, OptOut, ClearOptOut, vars

\* Only a call for m changes what is delivered of m, and only while the row says
\* DISPATCHING.
LEMMA SendsChange ==
  ASSUME SoleInv, [Next]_vars, NEW m \in Keys, sends'[m] # sends[m]
  PROVE  \E c \in Calls : Send(c) /\ key[c] = m /\ outcome[m] = "DISPATCHING"
<1>1. PICK c \in Calls : Send(c) /\ key[c] = m
  BY RowStep DEF SoleInv
<1> QED
  BY <1>1 DEF SoleInv, RowOf, Send

\* The call's own steps keep it in step with its row.
LEMMA OwnRow ==
  ASSUME SoleInv, [Next]_vars, NEW c \in Calls, CallStep(c) \/ Throw(c) \/ Crash(c)
  PROVE  RowOf(c)'
<1> USE DEF PC, BeforeSend, Working, RowOf
<1>0. /\ LocalOK /\ SharedOK /\ RowOf(c)
      /\ pc[c] \in BeforeSend => sends[key[c]] = 0
  BY RunningKey DEF SoleInv, SerialAt
<1>k. pc[c] # "idle" => key[c] \in Keys
  BY <1>0, RunningKey
<1>1. CASE Return(c)
  BY <1>0, <1>1 DEF Return, Go, LocalOK
<1>2. CASE Lookup(c) /\ ~Return(c)
  BY <1>0, <1>2 DEF Lookup, MayProceed, Fresh, Continue, Go, LocalOK
<1>3. CASE Approval(c) /\ ~Return(c)
  BY <1>0, <1>3 DEF Approval, Continue, Go, LocalOK
<1>4. CASE (Gate1(c) \/ LeaseLook(c)) /\ ~Return(c)
  BY <1>0, <1>4 DEF Gate1, LeaseLook, Continue, Go, LocalOK
<1>5. CASE ReadConversation(c) /\ ~Return(c)
  BY <1>0, <1>5 DEF ReadConversation, Go, LocalOK
<1>6. CASE (LeaseUpdate(c) \/ LeaseCreate(c)) /\ ~Return(c)
  BY <1>0, <1>6 DEF LeaseUpdate, LeaseCreate, Take, Continue, Go, LocalOK
<1>7. CASE Recheck(c) \/ Gate2(c) \/ Credential(c)
  BY <1>0, <1>7 DEF Recheck, Gate2, Credential, Continue, Go, LocalOK
<1>8. CASE Prepare(c) /\ ~Return(c)
  <2>1. outcome' = outcome \/ outcome' = [outcome EXCEPT ![key[c]] = "PREPARED"]
    BY <1>8 DEF Prepare
  <2>2. pc'[c] \in {"invalidate", "leaselook"} /\ key' = key
    BY <1>0, <1>8 DEF Prepare, Continue, Go, LocalOK
  <2> QED
    BY <1>0, <1>k, <1>8, <2>1, <2>2 DEF Prepare, SharedOK
<1>9. CASE Invalidate(c)
  BY <1>0, <1>k, <1>9 DEF Invalidate, Continue, Go, LocalOK
<1>10. CASE Dispatch(c)
  BY <1>0, <1>k, <1>10 DEF Dispatch, Continue, Go, LocalOK, SharedOK
<1>11. CASE Send(c)
  <2>1. pc'[c] = "conclude" /\ key' = key /\ outcome' = outcome
    BY <1>0, <1>11 DEF Send, Go, LocalOK
  <2> QED
    BY <1>0, <1>11, <2>1 DEF Send
<1>12. CASE (Fail(c) \/ Conclude(c) \/ Throw(c)) /\ ~Return(c)
  BY <1>0, <1>12 DEF Fail, Conclude, Throw, Continue, Go, LocalOK
<1> QED
  BY <1>1, <1>2, <1>3, <1>4, <1>5, <1>6, <1>7, <1>8, <1>9, <1>10, <1>11, <1>12
     DEF CallStep, Interrupt, Release, Crash

LEMMA SoleStep ==
  ASSUME RetriesWait, ~MayOptOut, SoleInv, [Next]_vars
  PROVE  SoleInv'
<1>0. LocalOK' /\ SharedOK' /\ DeliveryInv'
  BY LocalStep, SharedStep, DeliveryInvStep DEF SoleInv
<1>1. ~suppressed'
  <2>1. ~OptOut
    BY DEF OptOut
  <2> QED
    BY <2>1 DEF SoleInv, Next, CallStep, Start, StartWith, Approval, Lookup, Interrupt, Gate1,
       ReadConversation, Prepare, Invalidate, LeaseLook, LeaseUpdate, LeaseCreate, Recheck,
       Gate2, Credential, Fail, Dispatch, Send, Conclude, Release, Throw, Crash, LeaseExpires,
       Approve, Overrule, Activity, SetMode, Revoke, OptOutSweep, ClearOptOut, vars
<1>2. ASSUME NEW m \in Keys PROVE SerialAt(m)'
  <2>1. ASSUME NEW c \in Calls, Start(c), key'[c] = m PROVE \A d \in Calls : key[d] # m
    BY <2>1 DEF SoleInv, Start, StartWith, LocalOK
  <2> QED
    BY <2>1, SerialStep DEF SoleInv
<1>3. ASSUME NEW c \in Calls PROVE RowOf(c)'
  <2>1. CASE CallStep(c) \/ Throw(c) \/ Crash(c)
    BY <2>1, OwnRow
  <2>2. CASE Start(c)
    BY <2>2 DEF SoleInv, Start, StartWith, Go, LocalOK, RowOf, Working, BeforeSend
  <2>3. CASE ~(Start(c) \/ CallStep(c) \/ Throw(c) \/ Crash(c)) /\ pc[c] # "idle"
    <3>1. pc'[c] = pc[c] /\ key'[c] = key[c] /\ reply'[c] = reply[c]
      BY <2>3, OneMoves DEF SoleInv
    <3>2. PICK m \in Keys : key[c] = m
      BY <2>3, RunningKey DEF SoleInv
    <3>3. \A d \in Calls : key[d] = m => d = c
      BY <3>2 DEF SoleInv, SerialAt
    <3>4. \/ outcome'[m] = outcome[m]
          \/ outcome[m] = "PREPARED" /\ outcome'[m] = "FAILED"
      <4>1. RowChange(m)
        BY RowChanges DEF SoleInv
      <4> QED
        BY <2>3, <3>3, <4>1 DEF RowChange, CallStep
    <3>5. sends'[m] = sends[m]
      BY <2>3, <3>3, SendsChange DEF CallStep
    <3> QED
      BY <3>1, <3>2, <3>4, <3>5 DEF SoleInv, RowOf
  <2>4. CASE pc[c] = "idle" /\ pc'[c] = pc[c]
    BY <2>4 DEF RowOf, Working, BeforeSend
  <2> QED
    BY <2>1, <2>2, <2>3, <2>4, OneMoves DEF SoleInv
<1>4. ASSUME NEW m \in Keys, outcome'[m] = "FAILED" PROVE sends'[m] = 0
  <2>1. sends[m] = 0
    <3>1. RowChange(m)
      BY RowChanges DEF SoleInv
    <3>2. CASE outcome[m] \in {"PREPARED", "FAILED"}
      BY <3>2 DEF SoleInv, FailedUnsent, DeliveryInv, FreshUnsent, Fresh
    <3>3. CASE \E c \in Calls : key[c] = m /\ Fail(c)
      BY <3>3 DEF SoleInv, RowOf, Fail
    <3>4. ASSUME NEW c \in Calls PROVE Concluded(reply[c]) # "FAILED"
      BY DEF SoleInv, LocalOK, Concluded, Reply
    <3> QED
      BY <1>4, <3>1, <3>2, <3>3, <3>4 DEF RowChange
  <2>2. outcome[m] # "DISPATCHING" \/ ~ \E c \in Calls : Send(c) /\ key[c] = m
    BY <1>4 DEF Send
  <2> QED
    BY <2>1, <2>2, SendsChange
<1> QED
  BY <1>0, <1>1, <1>2, <1>3, <1>4 DEF SoleInv, FailedUnsent

-----------------------------------------------------------------------------
(* The steps of the abstract specification *)

Verdicts == [m \in Keys |-> VerdictOn(m)]

\* How a step changes the verdict on m: it stays, a failure becomes final, or the only
\* call for m concludes.
VerdictChange(m) ==
  \/ VerdictOn(m)' = VerdictOn(m)
  \/ VerdictOn(m) = "open" /\ VerdictOn(m)' = "refused"
  \/ \E c \in Calls :
       /\ key[c] = m /\ VerdictOn(m) = "open"
       /\ \/ Interrupt(c) /\ VerdictOn(m)' = "unknown"
          \/ Conclude(c) /\ reply[c] # "ok" /\ VerdictOn(m)' = "unknown"
          \/ Conclude(c) /\ reply[c] = "ok" /\ VerdictOn(m)' = "done"

LEMMA VerdictChanges ==
  ASSUME SoleInv, [Next]_vars, NEW m \in Keys
  PROVE  VerdictChange(m)
<1>0. LocalOK /\ SharedOK /\ RowChange(m)
  BY RowChanges DEF SoleInv
<1>1. outcome[m] \in Outcome /\ outcome'[m] \in Outcome
  BY <1>0, SharedStep DEF SharedOK, SoleInv
<1>2. CASE outcome'[m] = outcome[m] /\ outcome[m] # "FAILED"
  BY <1>1, <1>2 DEF VerdictChange, VerdictOn, Outcome
<1>3. CASE outcome'[m] = "FAILED" /\ outcome[m] = "FAILED"
  <2>1. ASSUME \A c \in Calls : key[c] = m => late[c], NEW c \in Calls, key'[c] = m
        PROVE late'[c]
    <3>1. CASE Start(c)
      BY <1>3, <2>1, <3>1 DEF Start, StartWith, Fresh, SoleInv, LocalOK
    <3>2. CASE Return(c)
      BY <2>1, <3>2 DEF Return, SoleInv, LocalOK
    <3>3. CASE key'[c] = key[c] /\ late'[c] = late[c]
      BY <2>1, <3>3
    <3> QED
      BY <1>0, <3>1, <3>2, <3>3, OneMoves, OwnStep
  <2> QED
    BY <1>3, <2>1 DEF VerdictChange, VerdictOn
<1>4. CASE outcome[m] = "PREPARED" /\ outcome'[m] = "FAILED"
  BY <1>4 DEF VerdictChange, VerdictOn
<1>5. ASSUME NEW c \in Calls, key[c] = m,
             Interrupt(c) /\ outcome'[m] = "RECONCILIATION_REQUIRED"
      PROVE VerdictChange(m)
  <2>1. outcome[m] = "DISPATCHING"
    BY <1>5 DEF SoleInv, RowOf, Interrupt
  <2> QED
    BY <1>5, <2>1 DEF VerdictChange, VerdictOn
<1>6. ASSUME NEW c \in Calls, key[c] = m,
             Prepare(c) /\ outcome[m] = "NONE" /\ outcome'[m] = "PREPARED"
      PROVE VerdictChange(m)
  BY <1>6 DEF VerdictChange, VerdictOn
<1>7. ASSUME NEW c \in Calls, key[c] = m,
             \/ Fail(c) /\ outcome'[m] = "FAILED"
             \/ Dispatch(c) /\ outcome'[m] = "DISPATCHING"
      PROVE VerdictChange(m)
  <2>1. pc[c] \in Working
    BY <1>7 DEF Fail, Dispatch, Working, BeforeSend, PC
  <2>2. outcome[m] \in {"NONE", "PREPARED", "FAILED"}
    BY <1>7, <2>1 DEF SoleInv, RowOf
  <2>3. ~late[c]
    BY <1>7 DEF SoleInv, DeliveryInv, LateStops, Fail, Dispatch
  <2>4. VerdictOn(m) = "open"
    BY <1>7, <2>2, <2>3 DEF VerdictOn
  <2>5. VerdictOn(m)' \in {"open", "refused"}
    BY <1>7 DEF VerdictOn
  <2> QED
    BY <2>4, <2>5 DEF VerdictChange
<1>8. ASSUME NEW c \in Calls, key[c] = m,
             Conclude(c) /\ outcome'[m] = Concluded(reply[c])
      PROVE VerdictChange(m)
  <2>1. outcome[m] = "DISPATCHING" /\ reply[c] \in Reply
    BY <1>8 DEF SoleInv, RowOf, Conclude, LocalOK
  <2>2. VerdictOn(m) = "open"
    BY <2>1 DEF VerdictOn
  <2>3. CASE reply[c] = "ok"
    BY <1>8, <2>2, <2>3 DEF VerdictChange, VerdictOn, Concluded
  <2>4. CASE reply[c] = "uncertain"
    BY <1>8, <2>2, <2>4 DEF VerdictChange, VerdictOn, Concluded
  <2>5. CASE reply[c] = "failed"
    BY <1>8, <2>2, <2>5 DEF VerdictChange, VerdictOn, Concluded
  <2> QED
    BY <2>1, <2>3, <2>4, <2>5 DEF Reply
<1> QED
  BY <1>0, <1>2, <1>3, <1>4, <1>5, <1>6, <1>7, <1>8 DEF RowChange

\* A step in which no call for m moves changes the verdict on m by a refusal at most.
LEMMA QuietVerdict ==
  ASSUME SoleInv, [Next]_vars, NEW m \in Keys,
         \A c \in Calls : key[c] = m => ~Interrupt(c) /\ ~Conclude(c)
  PROVE  \/ VerdictOn(m)' = VerdictOn(m)
         \/ VerdictOn(m) = "open" /\ VerdictOn(m)' = "refused"
BY VerdictChanges DEF VerdictChange

\* Messages that are refused together have not been delivered.
LEMMA RefuseStep ==
  ASSUME SoleInv, SoleInv', UNCHANGED sends,
         \A m \in Keys : \/ VerdictOn(m)' = VerdictOn(m)
                         \/ VerdictOn(m) = "open" /\ VerdictOn(m)' = "refused"
  PROVE  OneEffect!EffectNext
<1> DEFINE S == {m \in Keys : VerdictOn(m) = "open" /\ VerdictOn(m)' = "refused"}
<1>1. ASSUME NEW m \in S PROVE Verdicts[m] = "open" /\ sends[m] = 0
  <2>1. outcome'[m] = "FAILED"
    BY <1>1 DEF VerdictOn
  <2> QED
    BY <1>1, <2>1 DEF SoleInv, FailedUnsent, Verdicts
<1>2. Verdicts' = [m \in Keys |-> IF m \in S THEN "refused" ELSE Verdicts[m]]
  BY DEF Verdicts
<1>3. OneEffect!Refuse(S)
  BY <1>1, <1>2 DEF OneEffect!Refuse, Verdicts
<1> QED
  BY <1>3 DEF OneEffect!EffectNext

\* Every step of the dispatch is a step of SingleEffect, or none.
LEMMA EffectStep ==
  ASSUME SoleInv, SoleInv', [Next]_vars
  PROVE  [OneEffect!EffectNext]_<<Verdicts, sends>>
<1>0. LocalOK /\ SharedOK
  BY DEF SoleInv
<1>1. ASSUME NEW c \in Calls, Send(c) PROVE OneEffect!EffectNext \/ UNCHANGED <<Verdicts, sends>>
  <2>1. PICK m \in Keys : key[c] = m
    BY <1>0, <1>1, RunningKey DEF Send
  <2>2. sends' = sends \/ sends' = [sends EXCEPT ![m] = 1]
    <3>1. sends[m] = 0
      BY <1>1, <2>1 DEF SoleInv, SerialAt, Send, BeforeSend, PC
    <3>2. sends' = sends \/ sends' = [sends EXCEPT ![m] = sends[m] + 1]
      BY <1>1, <2>1 DEF Send
    <3> QED
      BY <3>1, <3>2
  <2>3. Verdicts[m] = "open" /\ sends[m] = 0
    BY <1>1, <2>1 DEF SoleInv, SerialAt, RowOf, Send, BeforeSend, PC, Verdicts, VerdictOn
  <2>4. Verdicts' = Verdicts
    <3> SUFFICES ASSUME NEW n \in Keys PROVE VerdictOn(n)' = VerdictOn(n)
      BY DEF Verdicts
    <3> QED
      BY <1>1 DEF Send, VerdictOn
  <2>5. CASE sends' = [sends EXCEPT ![m] = 1]
    <3>1. OneEffect!Perform(m)
      BY <2>3, <2>4, <2>5 DEF OneEffect!Perform, Verdicts
    <3> QED
      BY <3>1 DEF OneEffect!EffectNext
  <2> QED
    BY <2>2, <2>4, <2>5
<1>2. ASSUME NEW c \in Calls, Interrupt(c) \/ Conclude(c) PROVE OneEffect!EffectNext
  <2>1. PICK m \in Keys : key[c] = m
    BY <1>0, <1>2, RunningKey DEF Interrupt, Conclude
  <2>2. sends' = sends
    BY <1>2 DEF Interrupt, Conclude
  <2>3. \A n \in Keys \ {m} : outcome'[n] = outcome[n]
    BY <1>0, <1>2, <2>1 DEF Interrupt, Conclude, SharedOK
  <2>4. \A n \in Keys \ {m}, d \in Calls :
          (key'[d] = n <=> key[d] = n) /\ (key[d] = n => late'[d] = late[d])
    <3>1. key'[c] \notin Keys \ {m}
      BY <1>0, <1>2, <2>1 DEF Interrupt, Conclude, Continue, Return, LocalOK
    <3>2. \A d \in Calls : d # c => key'[d] = key[d] /\ late'[d] = late[d]
      BY <1>0, <1>2, OthersKeep DEF CallStep
    <3> QED
      BY <2>1, <3>1, <3>2
  <2>5. ASSUME NEW n \in Keys \ {m} PROVE VerdictOn(n)' = VerdictOn(n)
    BY <2>3, <2>4 DEF VerdictOn
  <2>6. CASE VerdictOn(m)' = VerdictOn(m) \/ (VerdictOn(m) = "open" /\ VerdictOn(m)' = "refused")
    BY <2>2, <2>5, <2>6, RefuseStep
  <2>7. CASE VerdictOn(m) = "open" /\ VerdictOn(m)' = "unknown"
    <3>1. Verdicts' = [Verdicts EXCEPT ![m] = "unknown"]
      BY <2>5, <2>7 DEF Verdicts
    <3>2. OneEffect!GiveUp(m)
      BY <2>2, <2>7, <3>1 DEF OneEffect!GiveUp, Verdicts
    <3> QED
      BY <3>2 DEF OneEffect!EffectNext
  <2>8. CASE VerdictOn(m) = "open" /\ VerdictOn(m)' = "done"
    <3>1. Verdicts' = [Verdicts EXCEPT ![m] = "done"]
      BY <2>5, <2>8 DEF Verdicts
    <3>2. outcome'[m] = "CONFIRMED"
      BY <2>8 DEF VerdictOn
    <3>3. sends[m] = 1
      BY <2>2, <3>2 DEF SoleInv, SharedOK, SerialAt, DeliveryInv, ConfirmedMeansSent
    <3>4. OneEffect!Confirm(m)
      BY <2>2, <2>8, <3>1, <3>3 DEF OneEffect!Confirm, Verdicts
    <3> QED
      BY <3>4 DEF OneEffect!EffectNext
  <2> QED
    BY <2>1, <2>6, <2>7, <2>8, VerdictChanges DEF VerdictChange
<1>3. CASE \A c \in Calls : ~Send(c) /\ ~Interrupt(c) /\ ~Conclude(c)
  <2>1. sends' = sends
    <3>1. \A m \in Keys : sends'[m] = sends[m]
      BY <1>0, <1>3, RowStep
    <3>2. sends \in [Keys -> Nat] /\ sends' \in [Keys -> Nat]
      BY DEF SoleInv, SharedOK
    <3> QED
      BY <3>1, <3>2
  <2>2. ASSUME NEW m \in Keys
        PROVE  \/ VerdictOn(m)' = VerdictOn(m)
               \/ VerdictOn(m) = "open" /\ VerdictOn(m)' = "refused"
    BY <1>3, QuietVerdict
  <2> QED
    BY <2>1, <2>2, RefuseStep
<1> QED
  BY <1>1, <1>2, <1>3

\* DispatchIsSingleEffect: with callers that wait for the end of a call before they
\* repeat it, and without opt-outs, every behaviour of the dispatch is one of
\* SingleEffect, whatever fails, expires or is preempted, and whatever adapters say of
\* messages they call failed.
THEOREM RetriesGetOneEffect ==
  RetriesWait /\ ~MayOptOut => (Spec => DispatchIsSingleEffect)
<1> SUFFICES ASSUME RetriesWait, ~MayOptOut PROVE Spec => DispatchIsSingleEffect
  OBVIOUS
<1>1. Init => SoleInv /\ OneEffect!EffectInit
  <2> SUFFICES ASSUME Init PROVE SoleInv /\ OneEffect!EffectInit
    OBVIOUS
  <2>1. DeliveryInv
    BY DEF Init, DeliveryInv, FreshUnsent, SendingNotFresh, OkMeansSent,
           ConfirmedMeansSent, LateStops
  <2>2. ASSUME NEW m \in Keys PROVE SerialAt(m)
    BY DEF Init, SerialAt
  <2>3. ASSUME NEW c \in Calls PROVE RowOf(c)
    BY DEF Init, RowOf, Working, BeforeSend
  <2>4. FailedUnsent /\ ~suppressed
    BY DEF Init, FailedUnsent
  <2>5. OneEffect!EffectInit
    BY DEF Init, OneEffect!EffectInit, VerdictOn
  <2> QED
    BY <2>1, <2>2, <2>3, <2>4, <2>5, InitTypes DEF SoleInv
<1>2. SoleInv /\ [Next]_vars => SoleInv'
  BY SoleStep
<1>3. SoleInv /\ SoleInv' /\ [Next]_vars => [OneEffect!EffectNext]_<<Verdicts, sends>>
  BY EffectStep
<1>4. [OneEffect!EffectNext]_<<Verdicts, sends>>
        => [OneEffect!EffectNext]_<<[m \in Keys |-> VerdictOn(m)], sends>>
  BY DEF Verdicts
<1> QED
  BY <1>1, <1>2, <1>3, <1>4, PTL DEF Spec, DispatchIsSingleEffect, OneEffect!EffectSpec
=============================================================================
