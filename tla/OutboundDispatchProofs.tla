----------------------- MODULE OutboundDispatchProofs -----------------------
(* Type correctness and the delivery guarantees of OutboundDispatch, for any  *)
(* number of messages, holders and calls and any bounds.                      *)
EXTENDS OutboundDispatch, TLAPS

USE OutboundAssumption
USE DEF rows, leasing, contact, local, bounds, ghosts

-----------------------------------------------------------------------------
(* Type correctness *)

\* A call has a key exactly while it runs.
Busy == \A c \in Calls : pc[c] = "idle" <=> key[c] = NoKey

\* The calls' locals are typed and consistent.
LocalOK ==
  /\ pc \in [Calls -> PC]
  /\ key \in [Calls -> Keys \cup {NoKey}]
  /\ request \in [Calls -> Requests \cup {NoRequest}]
  /\ found \in [Calls -> BOOLEAN]
  /\ seen \in [Calls -> Nat]
  /\ reply \in [Calls -> Reply]
  /\ late \in [Calls -> BOOLEAN]
  /\ Busy

\* Everything else is typed.
SharedOK ==
  /\ outcome \in [Keys -> Outcome] /\ bound \in [Keys -> BOOLEAN]
  /\ lease \in Holders \cup {NoHolder} /\ expired \in BOOLEAN
  /\ version \in Nat
  /\ paused \in BOOLEAN /\ optedOut \in BOOLEAN /\ suppressed \in BOOLEAN
  /\ connected \in BOOLEAN
  /\ approved \subseteq Requests /\ auto \in BOOLEAN
  /\ calls \in Nat /\ activity \in Nat /\ faults \in Nat /\ expiries \in Nat
  /\ sends \in [Keys -> Nat]

\* A call that goes on keeps its key and its typed locals.
LEMMA ContinueType ==
  ASSUME LocalOK, NEW c \in Calls, pc[c] # "idle", NEW next \in PC \ {"idle"},
         Continue(c, next)
  PROVE  LocalOK'
BY DEF LocalOK, Busy, Continue, Go

\* A call that returns has neither key nor locals left.
LEMMA ReturnType ==
  ASSUME LocalOK, NEW c \in Calls, Return(c)
  PROVE  LocalOK'
BY DEF LocalOK, Busy, Return, Go, PC, Reply

LEMMA RunningKey ==
  ASSUME LocalOK, NEW c \in Calls, pc[c] # "idle"
  PROVE  key[c] \in Keys
BY DEF LocalOK, Busy

\* Every step of the calls keeps the locals typed.
LEMMA LocalStep == LocalOK /\ SharedOK /\ [Next]_vars => LocalOK'
<1> SUFFICES ASSUME LocalOK, SharedOK, [Next]_vars PROVE LocalOK'
  OBVIOUS
<1> USE DEF PC
<1>1. ASSUME NEW c \in Calls, Start(c) PROVE LocalOK'
  BY <1>1 DEF Start, StartWith, LocalOK, Busy, Go
<1>2. ASSUME NEW c \in Calls, Approval(c) PROVE LocalOK'
  BY <1>2, ContinueType, ReturnType DEF Approval
<1>3. ASSUME NEW c \in Calls, Lookup(c) PROVE LocalOK'
  <2>1. CASE Continue(c, "interrupt") \/ Return(c)
    BY <1>3, <2>1, ContinueType, ReturnType DEF Lookup
  <2>2. CASE ~(Continue(c, "interrupt") \/ Return(c))
    BY <1>3, <2>2 DEF Lookup, LocalOK, Busy, Go
  <2> QED
    BY <2>1, <2>2
<1>4. ASSUME NEW c \in Calls, Interrupt(c) PROVE LocalOK'
  BY <1>4, ReturnType DEF Interrupt
<1>5. ASSUME NEW c \in Calls, Gate1(c) PROVE LocalOK'
  BY <1>5, ContinueType, ReturnType DEF Gate1
<1>6. ASSUME NEW c \in Calls, ReadConversation(c) PROVE LocalOK'
  <2>1. CASE Return(c)
    BY <2>1, ReturnType
  <2>2. CASE ~Return(c)
    BY <1>6, <2>2 DEF ReadConversation, LocalOK, SharedOK, Busy, Go
  <2> QED
    BY <2>1, <2>2
<1>7. ASSUME NEW c \in Calls, Prepare(c) PROVE LocalOK'
  BY <1>7, ContinueType, ReturnType DEF Prepare
<1>8. ASSUME NEW c \in Calls, Invalidate(c) PROVE LocalOK'
  BY <1>8, ContinueType DEF Invalidate
<1>9. ASSUME NEW c \in Calls, LeaseLook(c) PROVE LocalOK'
  BY <1>9, ContinueType DEF LeaseLook
<1>10. ASSUME NEW c \in Calls, LeaseUpdate(c) PROVE LocalOK'
  BY <1>10, ContinueType, ReturnType DEF LeaseUpdate, Take
<1>11. ASSUME NEW c \in Calls, LeaseCreate(c) PROVE LocalOK'
  BY <1>11, ContinueType, ReturnType DEF LeaseCreate, Take
<1>12. ASSUME NEW c \in Calls, Recheck(c) PROVE LocalOK'
  BY <1>12, ContinueType DEF Recheck
<1>13. ASSUME NEW c \in Calls, Gate2(c) PROVE LocalOK'
  BY <1>13, ContinueType DEF Gate2
<1>14. ASSUME NEW c \in Calls, Credential(c) PROVE LocalOK'
  BY <1>14, ContinueType DEF Credential
<1>15. ASSUME NEW c \in Calls, Fail(c) PROVE LocalOK'
  BY <1>15, ContinueType DEF Fail
<1>16. ASSUME NEW c \in Calls, Dispatch(c) PROVE LocalOK'
  BY <1>16, ContinueType DEF Dispatch
<1>17. ASSUME NEW c \in Calls, Send(c) PROVE LocalOK'
  BY <1>17 DEF Send, LocalOK, Busy, Go
<1>18. ASSUME NEW c \in Calls, Conclude(c) PROVE LocalOK'
  BY <1>18, ContinueType DEF Conclude
<1>19. ASSUME NEW c \in Calls, Release(c) PROVE LocalOK'
  BY <1>19, ReturnType DEF Release
<1>20. ASSUME NEW c \in Calls, Throw(c) PROVE LocalOK'
  BY <1>20, ContinueType, ReturnType DEF Throw
<1>21. ASSUME NEW c \in Calls, Crash(c) PROVE LocalOK'
  BY <1>21, ReturnType DEF Crash
<1>22. CASE UNCHANGED <<local, late>>
  BY <1>22 DEF LocalOK, Busy
<1> QED
  BY <1>1, <1>2, <1>3, <1>4, <1>5, <1>6, <1>7, <1>8, <1>9, <1>10, <1>11, <1>12,
     <1>13, <1>14, <1>15, <1>16, <1>17, <1>18, <1>19, <1>20, <1>21, <1>22
     DEF Next, CallStep, LeaseExpires, Approve, Overrule, Activity, SetMode, Revoke, OptOut, OptOutSweep,
         ClearOptOut, vars

\* Every step keeps the rows, the lease, the contact and the counters typed.
LEMMA SharedStep == LocalOK /\ SharedOK /\ [Next]_vars => SharedOK'
<1> SUFFICES ASSUME LocalOK, SharedOK, [Next]_vars PROVE SharedOK'
  OBVIOUS
<1> USE DEF SharedOK
<1>1. ASSUME NEW c \in Calls, Start(c) PROVE SharedOK'
  BY <1>1 DEF Start, StartWith
<1>2. ASSUME NEW c \in Calls, Interrupt(c) PROVE SharedOK'
  BY <1>2 DEF Interrupt, Outcome
<1>3. ASSUME NEW c \in Calls, Prepare(c) PROVE SharedOK'
  BY <1>3 DEF Prepare, Outcome
<1>4. ASSUME NEW c \in Calls, Invalidate(c) PROVE SharedOK'
  BY <1>4 DEF Invalidate, Outcome
<1>5. ASSUME NEW c \in Calls, LeaseUpdate(c) PROVE SharedOK'
  <2>1. key[c] \in Keys
    BY <1>5, RunningKey DEF LeaseUpdate
  <2>2. \/ lease' = lease /\ expired' = expired
        \/ lease' = HolderOf[key[c]] /\ expired' = FALSE
    BY <1>5 DEF LeaseUpdate, Take
  <2>3. lease' \in Holders \cup {NoHolder}
    BY <2>1, <2>2
  <2>4. expired' \in BOOLEAN
    BY <2>2
  <2> QED
    BY <1>5, <2>3, <2>4 DEF LeaseUpdate
<1>6. ASSUME NEW c \in Calls, LeaseCreate(c) PROVE SharedOK'
  <2>1. key[c] \in Keys
    BY <1>6, RunningKey DEF LeaseCreate
  <2>2. \/ lease' = lease /\ expired' = expired
        \/ lease' = HolderOf[key[c]] /\ expired' = FALSE
    BY <1>6 DEF LeaseCreate, Take
  <2>3. lease' \in Holders \cup {NoHolder}
    BY <2>1, <2>2
  <2>4. expired' \in BOOLEAN
    BY <2>2
  <2> QED
    BY <1>6, <2>3, <2>4 DEF LeaseCreate
<1>7. ASSUME NEW c \in Calls, Fail(c) PROVE SharedOK'
  BY <1>7 DEF Fail, Outcome
<1>8. ASSUME NEW c \in Calls, Dispatch(c) PROVE SharedOK'
  BY <1>8 DEF Dispatch, Outcome
<1>9. ASSUME NEW c \in Calls, Send(c) PROVE SharedOK'
  <2>1. sends' = sends \/ sends' = [sends EXCEPT ![key[c]] = @ + 1]
    BY <1>9 DEF Send
  <2>2. sends' \in [Keys -> Nat]
    BY <2>1
  <2> QED
    BY <1>9, <2>2 DEF Send
<1>10. ASSUME NEW c \in Calls, Conclude(c) PROVE SharedOK'
  <2>1. Concluded(reply[c]) \in Outcome
    BY DEF LocalOK, Concluded, Outcome, Reply
  <2>2. outcome' \in [Keys -> Outcome]
    BY <1>10, <2>1 DEF Conclude
  <2>3. version' \in Nat /\ paused' \in BOOLEAN
    BY <1>10 DEF Conclude
  <2> QED
    BY <1>10, <2>2, <2>3 DEF Conclude
<1>11. ASSUME NEW c \in Calls, Release(c) PROVE SharedOK'
  BY <1>11 DEF Release
<1>12. ASSUME NEW c \in Calls, Throw(c) \/ Crash(c) PROVE SharedOK'
  BY <1>12 DEF Throw, Crash
<1>13. CASE LeaseExpires
  BY <1>13 DEF LeaseExpires
<1>14. ASSUME NEW r \in Requests, Approve(r) \/ Overrule(r) PROVE SharedOK'
  BY <1>14 DEF Approve, Overrule
<1>15. CASE Activity
  <2>1. version' \in Nat /\ activity' \in Nat
    BY <1>15 DEF Activity
  <2>2. paused' \in BOOLEAN
    BY <1>15, Zenon DEF Activity
  <2> QED
    BY <1>15, <2>1, <2>2 DEF Activity
<1>20. ASSUME NEW p \in BOOLEAN, SetMode(p) PROVE SharedOK'
  BY <1>20 DEF SetMode
<1>16. CASE Revoke
  <2>1. connected' = FALSE /\ activity' \in Nat
    BY <1>16 DEF Revoke
  <2> QED
    BY <1>16, <2>1 DEF Revoke
<1>17. CASE OptOut \/ ClearOptOut
  BY <1>17 DEF OptOut, ClearOptOut
<1>18. CASE OptOutSweep
  BY <1>18 DEF OptOutSweep, Outcome
<1>19. CASE UNCHANGED <<rows, leasing, version, contact, bounds, sends>>
  BY <1>19
<1> QED
  BY <1>1, <1>2, <1>3, <1>4, <1>5, <1>6, <1>7, <1>8, <1>9, <1>10, <1>11, <1>12,
     <1>13, <1>14, <1>15, <1>16, <1>17, <1>18, <1>19, <1>20
     DEF Next, CallStep, Approval, Lookup, Gate1, ReadConversation, LeaseLook, Recheck,
         Gate2, Credential, vars

\* The types that LocalOK and SharedOK state between them are TypeOK's.
LEMMA TypeParts == TypeOK /\ Busy <=> LocalOK /\ SharedOK
BY DEF TypeOK, LocalOK, SharedOK

LEMMA InitTypes == Init => LocalOK /\ SharedOK
<1> SUFFICES ASSUME Init PROVE LocalOK /\ SharedOK
  OBVIOUS
<1>1. LocalOK
  BY DEF Init, LocalOK, Busy, PC, Reply
<1>2. SharedOK
  BY DEF Init, SharedOK, Outcome
<1> QED
  BY <1>1, <1>2

\* Every variable of the outbound dispatch keeps its type in every behaviour, and a
\* call has a key exactly while it runs.
THEOREM OutboundTypeCorrect == Spec => []TypeOK
<1> DEFINE Typed == LocalOK /\ SharedOK
<1>1. Init => Typed
  BY InitTypes
<1>2. Typed /\ [Next]_vars => Typed'
  BY LocalStep, SharedStep
<1>3. Typed => TypeOK
  BY TypeParts
<1> QED
  BY <1>1, <1>2, <1>3, PTL DEF Spec

-----------------------------------------------------------------------------
(* Delivery *)

\* No message is delivered before its row leaves PREPARED.
FreshUnsent == \A m \in Keys : outcome[m] \in Fresh => sends[m] = 0

\* A call about to hand its message over has written DISPATCHING, and nothing
\* brings a row back to PREPARED.
SendingNotFresh ==
  \A c \in Calls : pc[c] \in {"send", "conclude"} => outcome[key[c]] \notin Fresh

\* A call that was told "ok" was told so by the provider.
OkMeansSent ==
  \A c \in Calls : pc[c] = "conclude" /\ reply[c] = "ok" => sends[key[c]] > 0

\* A late call stops at the lookup or at the first gate.
LateStops ==
  \A c \in Calls : late[c] =>
    /\ suppressed \/ outcome[key[c]] \notin Fresh
    /\ pc[c] \in {"approval", "lookup", "interrupt", "gate1"}
    /\ pc[c] = "gate1" => suppressed

\* What holds between the rows, the calls and the provider, however the calls are
\* interleaved.
DeliveryInv == FreshUnsent /\ SendingNotFresh /\ OkMeansSent /\ ConfirmedMeansSent /\ LateStops

\* The part of a call before its message is handed over.
BeforeSend == PC \ {"idle", "approval", "lookup", "interrupt", "conclude", "release", "fail"}

\* No two calls work on message m, a call that has passed the lookup works on an
\* undelivered message, and m was delivered once at most.
SerialAt(m) ==
  /\ \A c, d \in Calls : key[c] = m /\ key[d] = m => c = d
  /\ \A c \in Calls : key[c] = m /\ pc[c] \in BeforeSend => sends[m] = 0
  /\ sends[m] =< 1

\* What one step can do to a row and its deliveries: a row never becomes fresh
\* again, only Send adds a delivery, and only Conclude after "ok" confirms.
LEMMA RowStep ==
  ASSUME LocalOK, SharedOK, [Next]_vars, NEW m \in Keys
  PROVE  /\ outcome[m] \notin Fresh => outcome'[m] \notin Fresh
         /\ outcome'[m] = "CONFIRMED" =>
              \/ outcome[m] = "CONFIRMED"
              \/ \E c \in Calls : Conclude(c) /\ key[c] = m /\ reply[c] = "ok"
         /\ \/ sends'[m] = sends[m]
            \/ \E c \in Calls : Send(c) /\ key[c] = m /\ sends'[m] = sends[m] + 1
<1> USE DEF Fresh
<1>1. ASSUME NEW c \in Calls, Interrupt(c) \/ Fail(c) \/ Dispatch(c)
      PROVE  /\ outcome[m] \notin Fresh => outcome'[m] \notin Fresh
             /\ outcome'[m] = "CONFIRMED" => outcome[m] = "CONFIRMED"
             /\ sends' = sends
  BY <1>1 DEF Interrupt, Fail, Dispatch, SharedOK
<1>2. ASSUME NEW c \in Calls, Prepare(c)
      PROVE  /\ outcome[m] \notin Fresh => outcome'[m] \notin Fresh
             /\ outcome'[m] = "CONFIRMED" => outcome[m] = "CONFIRMED"
             /\ sends' = sends
  <2>1. pc[c] # "idle" /\ key[c] \in Keys
    BY <1>2, RunningKey DEF Prepare
  <2>2. \/ outcome' = outcome
        \/ outcome[key[c]] = "NONE" /\ outcome' = [outcome EXCEPT ![key[c]] = "PREPARED"]
    BY <1>2, <2>1 DEF Prepare
  <2> QED
    BY <1>2, <2>1, <2>2 DEF Prepare, SharedOK
<1>3. ASSUME NEW c \in Calls, Invalidate(c)
      PROVE  /\ outcome[m] \notin Fresh => outcome'[m] \notin Fresh
             /\ outcome'[m] = "CONFIRMED" => outcome[m] = "CONFIRMED"
             /\ sends' = sends
  BY <1>3 DEF Invalidate
<1>4. ASSUME NEW c \in Calls, Send(c)
      PROVE  /\ outcome' = outcome
             /\ sends'[m] = sends[m] \/ (key[c] = m /\ sends'[m] = sends[m] + 1)
  <2>1. sends' = sends \/ sends' = [sends EXCEPT ![key[c]] = @ + 1]
    BY <1>4 DEF Send
  <2> QED
    BY <1>4, <2>1 DEF Send, SharedOK
<1>5. ASSUME NEW c \in Calls, Conclude(c)
      PROVE  /\ outcome'[m] = outcome[m] \/ (key[c] = m /\ outcome'[m] = Concluded(reply[c]))
             /\ sends' = sends
  BY <1>5 DEF Conclude, SharedOK
<1>6. ASSUME NEW c \in Calls
      PROVE  /\ Concluded(reply[c]) \notin Fresh
             /\ Concluded(reply[c]) = "CONFIRMED" => reply[c] = "ok"
  BY DEF Concluded, LocalOK, Reply
<1>7. CASE OptOutSweep
  BY <1>7 DEF OptOutSweep
<1>8. CASE UNCHANGED <<outcome, sends>>
  BY <1>8
<1> QED
  BY <1>1, <1>2, <1>3, <1>4, <1>5, <1>6, <1>7, <1>8
     DEF Next, CallStep, Start, StartWith, Approval, Lookup, Gate1, ReadConversation, LeaseLook,
         LeaseUpdate, LeaseCreate, Recheck, Gate2, Credential, Release, Throw, Crash,
         LeaseExpires, Approve, Overrule, Activity, SetMode, Revoke, OptOut, ClearOptOut, vars

\* A call's step leaves the locals of the others alone.
LEMMA OthersKeep ==
  ASSUME LocalOK, NEW c \in Calls, NEW d \in Calls, d # c,
         Start(d) \/ CallStep(d) \/ Throw(d) \/ Crash(d)
  PROVE  /\ pc'[c] = pc[c] /\ key'[c] = key[c] /\ request'[c] = request[c]
         /\ reply'[c] = reply[c] /\ late'[c] = late[c] /\ seen'[c] = seen[c]
<1>1. CASE Start(d)
  BY <1>1 DEF Start, StartWith, Go, LocalOK
<1>2. CASE Lookup(d)
  BY <1>2 DEF Lookup, Go, Continue, Return, LocalOK
<1>3. CASE ReadConversation(d)
  BY <1>3 DEF ReadConversation, Go, Return, LocalOK
<1>4. CASE Send(d)
  BY <1>4 DEF Send, Go, LocalOK
<1>5. CASE ~(Start(d) \/ Lookup(d) \/ ReadConversation(d) \/ Send(d))
  <2>1. PICK next \in PC : Continue(d, next) \/ Return(d)
    BY <1>5 DEF CallStep, Throw, Crash, Approval, Interrupt, Gate1, Prepare,
       Invalidate, LeaseLook, LeaseUpdate, LeaseCreate, Take, Recheck, Gate2,
       Credential, Fail, Dispatch, Conclude, Release, PC
  <2> QED
    BY <2>1 DEF Continue, Return, Go, LocalOK
<1> QED
  BY <1>1, <1>2, <1>3, <1>4, <1>5

\* A step moves one call at most.
LEMMA OneMoves ==
  ASSUME LocalOK, [Next]_vars, NEW c \in Calls
  PROVE  \/ Start(c) \/ CallStep(c) \/ Throw(c) \/ Crash(c)
         \/ /\ pc'[c] = pc[c] /\ key'[c] = key[c] /\ request'[c] = request[c]
            /\ reply'[c] = reply[c] /\ late'[c] = late[c]
<1>1. CASE UNCHANGED <<pc, key, request, reply, late>>
  BY <1>1
<1> QED
  BY <1>1, OthersKeep DEF Next, LeaseExpires, Approve, Overrule, Activity, SetMode, Revoke, OptOut,
     OptOutSweep, ClearOptOut, vars

\* Where a call's own step takes it.
LEMMA OwnStep ==
  ASSUME LocalOK, NEW c \in Calls, Start(c) \/ CallStep(c) \/ Throw(c) \/ Crash(c)
  PROVE  /\ pc'[c] = "send" => Dispatch(c)
         /\ pc'[c] = "conclude" => Send(c)
         /\ pc'[c] \in BeforeSend =>
              Start(c) \/ Lookup(c) \/ (pc[c] \in BeforeSend /\ UNCHANGED key)
         /\ ~Start(c) => UNCHANGED <<key, late>> \/ Return(c)
<1> USE DEF PC, BeforeSend
<1>1. CASE Return(c)
  BY <1>1 DEF Return, Go, LocalOK
<1>2. CASE Start(c)
  BY <1>2 DEF Start, StartWith, Go, LocalOK
<1>3. CASE Lookup(c) /\ ~Return(c)
  BY <1>3 DEF Lookup, Continue, Go, LocalOK
<1>4. CASE (ReadConversation(c) \/ Send(c)) /\ ~Return(c)
  BY <1>4 DEF ReadConversation, Send, Go, LocalOK
<1>5. CASE (Approval(c) \/ Gate1(c) \/ Prepare(c) \/ Invalidate(c) \/ LeaseLook(c)) /\ ~Return(c)
  BY <1>5 DEF Approval, Gate1, Prepare, Invalidate, LeaseLook, Continue, Go, LocalOK
<1>6. CASE (LeaseUpdate(c) \/ LeaseCreate(c)) /\ ~Return(c)
  BY <1>6 DEF LeaseUpdate, LeaseCreate, Take, Continue, Go, LocalOK
<1>7. CASE Recheck(c) \/ Gate2(c) \/ Credential(c) \/ Fail(c) \/ Dispatch(c) \/ Conclude(c)
  BY <1>7 DEF Recheck, Gate2, Credential, Fail, Dispatch, Conclude, Continue, Go, LocalOK
<1>8. CASE Throw(c) /\ ~Return(c)
  BY <1>8 DEF Throw, Continue, Go, LocalOK
<1> QED
  BY <1>1, <1>2, <1>3, <1>4, <1>5, <1>6, <1>7, <1>8
     DEF CallStep, Interrupt, Release, Crash

\* Where a late call's own step takes it.
LEMMA LateStep ==
  ASSUME LocalOK, LateStops, NEW c \in Calls, late[c],
         CallStep(c) \/ Throw(c) \/ Crash(c), ~Return(c)
  PROVE  /\ pc'[c] \in {"lookup", "interrupt", "gate1"}
         /\ pc'[c] = "gate1" => suppressed
<1>1. /\ pc[c] \in {"approval", "lookup", "interrupt", "gate1"}
      /\ pc[c] = "gate1" => suppressed
      /\ suppressed \/ outcome[key[c]] \notin Fresh
  BY DEF LateStops
<1>2. Approval(c) \/ Lookup(c) \/ Interrupt(c) \/ Gate1(c) \/ Throw(c) \/ Crash(c)
  BY <1>1 DEF CallStep, ReadConversation, Prepare, Invalidate, LeaseLook, LeaseUpdate,
     LeaseCreate, Recheck, Gate2, Credential, Fail, Dispatch, Send, Conclude, Release
<1>3. ~Interrupt(c) /\ ~Crash(c) /\ ~Throw(c)
  BY <1>1 DEF Interrupt, Crash, Throw, Leased
<1>4. ~Gate1(c)
  BY <1>1 DEF Gate1, Contactable
<1>5. CASE Approval(c)
  BY <1>5 DEF Approval, Continue, Go, LocalOK, PC
<1>6. CASE Lookup(c)
  BY <1>1, <1>6 DEF Lookup, MayProceed, Continue, Go, LocalOK, PC
<1> QED
  BY <1>2, <1>3, <1>4, <1>5, <1>6

\* A confirmed message was accepted by the provider, no call that starts too late
\* reaches it, and nothing is delivered before its row leaves PREPARED: in every
\* interleaving of overlapping calls, opt-outs, human sends, faults and expiries.
LEMMA DeliveryInvStep == LocalOK /\ SharedOK /\ DeliveryInv /\ [Next]_vars => DeliveryInv'
<1> SUFFICES ASSUME LocalOK, SharedOK, DeliveryInv, [Next]_vars PROVE DeliveryInv'
  OBVIOUS
<1>0. LocalOK' /\ SharedOK'
  BY LocalStep, SharedStep
<1>k. ASSUME NEW c \in Calls, pc[c] # "idle" PROVE key[c] \in Keys
  BY <1>k, RunningKey
<1>1. FreshUnsent'
  <2> SUFFICES ASSUME NEW m \in Keys, outcome'[m] \in Fresh PROVE sends'[m] = 0
    BY DEF FreshUnsent
  <2>1. outcome[m] \in Fresh /\ sends[m] = 0
    BY RowStep DEF DeliveryInv, FreshUnsent
  <2>2. ~ \E c \in Calls : Send(c) /\ key[c] = m
    BY <2>1 DEF DeliveryInv, SendingNotFresh, Send
  <2> QED
    BY <2>1, <2>2, RowStep
<1>2. SendingNotFresh'
  <2> SUFFICES ASSUME NEW c \in Calls, pc'[c] \in {"send", "conclude"}
               PROVE outcome'[key'[c]] \notin Fresh
    BY DEF SendingNotFresh
  <2>1. CASE Dispatch(c)
    BY <2>1, <1>k DEF Dispatch, Continue, Fresh, SharedOK
  <2>2. CASE Send(c)
    BY <2>2 DEF Send, DeliveryInv, SendingNotFresh
  <2>3. CASE pc'[c] = pc[c] /\ key'[c] = key[c]
    BY <2>3, <1>k, RowStep DEF DeliveryInv, SendingNotFresh
  <2> QED
    BY <2>1, <2>2, <2>3, OneMoves, OwnStep
<1>3. OkMeansSent'
  <2> SUFFICES ASSUME NEW c \in Calls, pc'[c] = "conclude", reply'[c] = "ok"
               PROVE sends'[key'[c]] > 0
    BY DEF OkMeansSent
  <2>1. CASE Send(c)
    <3>1. sends' = [sends EXCEPT ![key[c]] = @ + 1] /\ key' = key
      BY <2>1 DEF Send, LocalOK
    <3>2. key[c] \in Keys
      BY <2>1, <1>k DEF Send
    <3> QED
      BY <3>1, <3>2 DEF SharedOK
  <2>2. CASE pc'[c] = pc[c] /\ key'[c] = key[c] /\ reply'[c] = reply[c]
    <3>1. key[c] \in Keys /\ sends[key[c]] > 0
      BY <2>2, <1>k DEF DeliveryInv, OkMeansSent
    <3> QED
      BY <2>2, <3>1, RowStep DEF SharedOK
  <2> QED
    BY <2>1, <2>2, OneMoves, OwnStep
<1>4. ConfirmedMeansSent'
  <2> SUFFICES ASSUME NEW m \in Keys, outcome'[m] = "CONFIRMED" PROVE sends'[m] > 0
    BY DEF ConfirmedMeansSent
  <2>1. sends[m] > 0
    BY RowStep DEF DeliveryInv, ConfirmedMeansSent, OkMeansSent, Conclude
  <2> QED
    BY <2>1, RowStep DEF SharedOK
<1>5. LateStops'
  <2> SUFFICES ASSUME NEW c \in Calls, late'[c]
               PROVE /\ suppressed' \/ outcome'[key'[c]] \notin Fresh
                     /\ pc'[c] \in {"approval", "lookup", "interrupt", "gate1"}
                     /\ pc'[c] = "gate1" => suppressed'
    BY DEF LateStops
  <2>1. suppressed => suppressed'
    BY DEF Next, CallStep, Start, StartWith, Approval, Lookup, Interrupt, Gate1, ReadConversation,
       Prepare, Invalidate, LeaseLook, LeaseUpdate, LeaseCreate, Recheck, Gate2,
       Credential, Fail, Dispatch, Send, Conclude, Release, Throw, Crash, LeaseExpires,
       Approve, Overrule, Activity, SetMode, Revoke, OptOut, OptOutSweep, ClearOptOut, vars
  <2>2. CASE Start(c)
    <3>1. PICK m \in Keys, r \in Requests \cup {NoRequest} : StartWith(c, m, r)
      BY <2>2 DEF Start
    <3>2. key'[c] = m /\ pc'[c] = "approval" /\ outcome' = outcome /\ suppressed' = suppressed
      BY <3>1 DEF StartWith, Go, LocalOK
    <3>3. late'[c] = (outcome[m] \notin Fresh \/ suppressed)
      BY <3>1 DEF StartWith, LocalOK
    <3> QED
      BY <3>2, <3>3
  <2>3. CASE Return(c)
    BY <2>3 DEF Return, LocalOK
  <2>4. CASE ~Start(c) /\ ~Return(c)
    <3>1. late[c] /\ key'[c] = key[c]
      BY <2>4, OneMoves, OwnStep
    <3>2. /\ suppressed \/ outcome[key[c]] \notin Fresh
          /\ pc[c] \in {"approval", "lookup", "interrupt", "gate1"}
          /\ pc[c] = "gate1" => suppressed
      BY <3>1 DEF DeliveryInv, LateStops
    <3>3. outcome[key[c]] \notin Fresh => outcome'[key[c]] \notin Fresh
      BY <1>k, <3>2, RowStep
    <3>4. CASE pc'[c] = pc[c]
      BY <2>1, <3>1, <3>2, <3>3, <3>4
    <3>5. CASE CallStep(c) \/ Throw(c) \/ Crash(c)
      BY <2>1, <2>4, <3>1, <3>2, <3>3, <3>5, LateStep DEF DeliveryInv
    <3> QED
      BY <2>4, <3>4, <3>5, OneMoves
  <2> QED
    BY <2>2, <2>3, <2>4
<1> QED
  BY <1>1, <1>2, <1>3, <1>4, <1>5 DEF DeliveryInv

\* ConfirmedMeansSent and LateCallsNeverSend hold in every behaviour, with any number
\* of overlapping calls for the same message.
THEOREM OverlapCorrect == Spec => []ConfirmedMeansSent /\ []LateCallsNeverSend
<1> DEFINE IInv == LocalOK /\ SharedOK /\ DeliveryInv
<1>1. Init => IInv
  <2>1. Init => DeliveryInv
    BY DEF Init, DeliveryInv, FreshUnsent, SendingNotFresh, OkMeansSent,
           ConfirmedMeansSent, LateStops
  <2> QED
    BY <2>1, InitTypes
<1>2. IInv /\ [Next]_vars => IInv'
  BY LocalStep, SharedStep, DeliveryInvStep
<1>3. IInv => ConfirmedMeansSent /\ LateCallsNeverSend
  BY DEF DeliveryInv, LateStops, LateCallsNeverSend
<1> QED
  BY <1>1, <1>2, <1>3, PTL DEF Spec

\* In every behaviour a call that starts when the contact has opted out sends nothing.
THEOREM LateCallsStop == Spec => []LateCallsNeverSend
<1> QED
  BY OverlapCorrect, PTL

\* As long as a call for message m starts only when no other one works on it, none of
\* them works on it after it was delivered.
LEMMA SerialStep ==
  ASSUME LocalOK, SharedOK, DeliveryInv, [Next]_vars, NEW m \in Keys, SerialAt(m),
         \A c \in Calls : Start(c) /\ key'[c] = m => \A d \in Calls : key[d] # m
  PROVE  SerialAt(m)'
<1>0. m # NoKey
  OBVIOUS
<1>s. ASSUME NEW a \in Calls, ~Start(a), key'[a] = m PROVE key[a] = m
  BY <1>0, <1>s, OneMoves, OwnStep DEF Return, LocalOK
<1>1. ASSUME NEW c \in Calls, NEW d \in Calls, c # d, key'[c] = m, key'[d] = m PROVE FALSE
  <2>1. ASSUME NEW a \in Calls, NEW b \in Calls, a # b, Start(a), key'[a] = m, key'[b] = m
        PROVE FALSE
    <3>1. key'[b] = key[b]
      BY <2>1, OthersKeep
    <3> QED
      BY <2>1, <3>1
  <2>2. ~Start(c) /\ ~Start(d)
    BY <1>1, <2>1
  <2> QED
    BY <1>1, <1>s, <2>2 DEF SerialAt
<1>2. ASSUME NEW c \in Calls, key'[c] = m, pc'[c] \in BeforeSend PROVE sends'[m] = 0
  <2>1. CASE Start(c)
    BY <1>2, <2>1 DEF Start, StartWith, Go, LocalOK, BeforeSend
  <2>2. CASE Lookup(c)
    <3>1. sends' = sends
      BY <2>2 DEF Lookup
    <3>2. key[c] = m /\ outcome[m] \in Fresh
      BY <1>2, <2>2 DEF Lookup, Continue, Return, Go, LocalOK, BeforeSend, MayProceed
    <3> QED
      BY <3>1, <3>2 DEF DeliveryInv, FreshUnsent
  <2>3. CASE pc[c] \in BeforeSend /\ key'[c] = key[c]
    <3>1. key[c] = m /\ sends[m] = 0
      BY <1>2, <2>3 DEF SerialAt
    <3>2. ~Send(c)
      BY <1>2 DEF Send, Go, LocalOK, BeforeSend
    <3>3. ~ \E d \in Calls : Send(d) /\ key[d] = m
      BY <3>1, <3>2 DEF SerialAt
    <3> QED
      BY <3>1, <3>3, RowStep
  <2> QED
    BY <1>2, <2>1, <2>2, <2>3, OneMoves, OwnStep
<1>3. sends'[m] =< 1
  <2>1. CASE sends'[m] = sends[m]
    BY <2>1 DEF SerialAt
  <2>2. ASSUME NEW c \in Calls, Send(c), key[c] = m, sends'[m] = sends[m] + 1
        PROVE sends'[m] =< 1
    BY <2>2 DEF SerialAt, Send, BeforeSend, PC
  <2> QED
    BY <2>1, <2>2, RowStep
<1> QED
  BY <1>1, <1>2, <1>3 DEF SerialAt

\* AtMostOneSend holds when a caller repeats a call only after the previous one
\* ended: retries after crashes, failures and lost answers never deliver twice.
THEOREM RetriesSendOnce == RetriesWait => (Spec => []AtMostOneSend)
<1> SUFFICES ASSUME RetriesWait PROVE Spec => []AtMostOneSend
  OBVIOUS
<1> DEFINE IInv == LocalOK /\ SharedOK /\ DeliveryInv /\ \A m \in Keys : SerialAt(m)
<1>1. Init => IInv
  <2>1. Init => DeliveryInv
    BY DEF Init, DeliveryInv, FreshUnsent, SendingNotFresh, OkMeansSent,
           ConfirmedMeansSent, LateStops
  <2>2. ASSUME Init, NEW m \in Keys PROVE SerialAt(m)
    BY <2>2 DEF Init, SerialAt
  <2> QED
    BY <2>1, <2>2, InitTypes
<1>2. IInv /\ [Next]_vars => IInv'
  <2> SUFFICES ASSUME IInv, [Next]_vars PROVE IInv'
    OBVIOUS
  <2>1. ASSUME NEW m \in Keys, NEW c \in Calls, Start(c), key'[c] = m
        PROVE \A d \in Calls : key[d] # m
    BY <2>1 DEF Start, StartWith, LocalOK
  <2>2. ASSUME NEW m \in Keys PROVE SerialAt(m)'
    BY <2>1, SerialStep
  <2> QED
    BY <2>2, LocalStep, SharedStep, DeliveryInvStep
<1>3. IInv => AtMostOneSend
  BY DEF SerialAt, AtMostOneSend
<1> QED
  BY <1>1, <1>2, <1>3, PTL DEF Spec
-----------------------------------------------------------------------------
(* For the callers of the dispatch *)

\* An adapter's "ok" comes after an accepted message.
TrueReply == \A c \in Calls : reply[c] = "ok" => key[c] # NoKey /\ sends[key[c]] > 0

\* Deliveries are never taken back.
LEMMA SendsGrow ==
  ASSUME LocalOK, SharedOK, [Next]_vars, NEW m \in Keys, sends[m] > 0
  PROVE  sends'[m] > 0
BY RowStep DEF SharedOK

\* A call's own step returns, hears the adapter, or keeps what the adapter said.
LEMMA OwnReply ==
  ASSUME LocalOK, NEW c \in Calls, CallStep(c) \/ Throw(c) \/ Crash(c)
  PROVE  Return(c) \/ Send(c) \/ UNCHANGED <<key, reply>>
BY DEF CallStep, Throw, Crash, Approval, Lookup, Interrupt, Gate1, ReadConversation, Prepare,
   Invalidate, LeaseLook, LeaseUpdate, LeaseCreate, Take, Recheck, Gate2, Credential, Fail,
   Dispatch, Conclude, Release, Continue

LEMMA TrueReplyStep ==
  ASSUME LocalOK, SharedOK, TrueReply, [Next]_vars
  PROVE  TrueReply'
<1> SUFFICES ASSUME NEW c \in Calls, reply'[c] = "ok"
             PROVE key'[c] # NoKey /\ sends'[key'[c]] > 0
  BY DEF TrueReply
<1>1. CASE reply'[c] = reply[c] /\ key'[c] = key[c]
  <2>1. key[c] \in Keys /\ sends[key[c]] > 0
    BY <1>1 DEF TrueReply, LocalOK
  <2> QED
    BY <1>1, <2>1, SendsGrow
<1>2. CASE Start(c)
  BY <1>2 DEF Start, StartWith, LocalOK, Busy, TrueReply
<1>3. CASE Return(c)
  BY <1>3 DEF Return, LocalOK
<1>4. CASE Send(c)
  <2>1. key[c] \in Keys /\ key' = key
    BY <1>4, RunningKey DEF Send
  <2>2. \E a \in BOOLEAN : /\ reply'[c] = "ok" => a
                           /\ a => sends' = [sends EXCEPT ![key[c]] = @ + 1]
    BY <1>4 DEF Send, LocalOK
  <2>3. sends' = [sends EXCEPT ![key[c]] = @ + 1]
    BY <2>2
  <2> QED
    BY <2>1, <2>3 DEF SharedOK
<1> QED
  BY <1>1, <1>2, <1>3, <1>4, OneMoves, OwnReply
=============================================================================
