---------------------- MODULE DomainEventOutboxProofs ----------------------
(***************************************************************************)
(* Proofs about the outbox, for every number of events, sweeps, consumers, *)
(* administrators, attempts and faults.                                    *)
(***************************************************************************)
EXTENDS DomainEventOutbox, TLAPS

\* A step of the outbox is one of its actions: the case split every proof below
\* uses.
LEMMA ActionCases ==
  ASSUME [Next]_vars
  PROVE  \/ \E e \in Events : \/ Append(e) \/ BecomeDue(e) \/ LockExpires(e)
                              \/ LockOverrun(e)
         \/ \E s \in Sweeps : \/ RecoverStale(s) \/ ClaimBatch(s) \/ BatchDone(s)
                              \/ RefreshSkips(s) \/ Refresh(s) \/ Lookup(s)
                              \/ CreateConsumption(s) \/ UpdateConsumption(s)
                              \/ Handle(s) \/ Record(s) \/ Finish(s)
                              \/ RecordFails(s) \/ MarkProcessedFails(s)
                              \/ Crash(s)
         \/ \E o \in Operators : OperatorRead(o) \/ OperatorWrite(o)
         \/ UNCHANGED vars
BY DEF Next, RowStep, SweepStep, SweepFault, OperatorStep

\* A statement that writes one value, or adds one, to the rows of a set keeps the
\* column's type.
LEMMA SetAllType ==
  ASSUME NEW T, NEW f \in [Events -> T], NEW S, NEW v \in T
  PROVE  SetAll(f, S, v) \in [Events -> T]
BY DEF SetAll

LEMMA IncrementType ==
  ASSUME NEW f \in [Events -> Nat], NEW S
  PROVE  Increment(f, S) \in [Events -> Nat]
BY DEF Increment

\* Storing one entry of a table that is indexed by event and consumer keeps its
\* type.
LEMMA StoreType ==
  ASSUME NEW T, NEW f \in [Events -> [Consumers -> T]], NEW e, NEW c, NEW v \in T
  PROVE  [f EXCEPT ![e] = [@ EXCEPT ![c] = v]] \in [Events -> [Consumers -> T]]
OBVIOUS

\* ... and leaves every other entry alone.
LEMMA StoreElsewhere ==
  ASSUME NEW T, NEW f \in [Events -> [Consumers -> T]], NEW a, NEW b, NEW v,
         NEW e \in Events, NEW c \in Consumers, ~(a = e /\ b = c)
  PROVE  [f EXCEPT ![a] = [@ EXCEPT ![b] = v]][e][c] = f[e][c]
<1>1. CASE a # e
  BY <1>1
<1>2. CASE a = e /\ b # c
  BY <1>2
<1> QED
  BY <1>1, <1>2

\* An EXCEPT at an argument outside the domain changes nothing.
LEMMA StoreOutside ==
  ASSUME NEW A, NEW T, NEW f \in [A -> T], NEW a, a \notin A, NEW v
  PROVE  [f EXCEPT ![a] = v] \in [A -> T]
OBVIOUS

\* Moving past a consumer, with or without its error, keeps the loop's locals
\* typed.
LEMMA LoopType ==
  ASSUME TypeOK, NEW s \in Sweeps, NEW class \in {"TRANSIENT", "PERMANENT"},
         Succeeded(s) \/ Threw(s, class)
  PROVE  /\ k' \in [Sweeps -> Nat]
         /\ pc' \in [Sweeps -> SweepPC]
         /\ failure' \in [Sweeps -> {"NONE", "TRANSIENT", "PERMANENT"}]
<1>1. CASE NextConsumer(s)
  <2>1. k' \in [Sweeps -> Nat]
    BY <1>1 DEF NextConsumer, TypeOK
  <2>2. pc' \in [Sweeps -> SweepPC]
    BY <1>1 DEF NextConsumer, TypeOK, SweepPC
  <2>3. failure' \in [Sweeps -> {"NONE", "TRANSIENT", "PERMANENT"}]
    BY DEF Succeeded, Threw, TypeOK
  <2> QED
    BY <2>1, <2>2, <2>3
<1>2. CASE ~NextConsumer(s)
  <2>1. /\ failure' = [failure EXCEPT ![s] = class]
        /\ pc' = [pc EXCEPT ![s] = "finish"]
        /\ UNCHANGED k
    BY <1>2 DEF Succeeded, Threw
  <2> QED
    BY <2>1 DEF TypeOK, SweepPC
<1> QED
  BY <1>1, <1>2

\* A stored consumption row keeps the table's type.
LEMMA ConsumptionType ==
  ASSUME TypeOK, NEW s, NEW st \in ConsumptionStatus, StoreConsumption(s, st)
  PROVE  consumption' \in [Events -> [Consumers -> ConsumptionStatus]]
BY StoreType DEF StoreConsumption, TypeOK

\* Every row, sweep and request keeps its type: no interleaving of sweeps and
\* administrators writes a status outside the enums of the schema.
THEOREM TypeCorrect == Spec => []TypeOK
<1>1. Init => TypeOK
  BY OutboxAssumption
  DEF Init, TypeOK, Status, ConsumptionStatus, SweepPC, Outcome, Consumers
<1>2. TypeOK /\ [Next]_vars => TypeOK'
  <2> SUFFICES ASSUME TypeOK, [Next]_vars PROVE TypeOK'
    OBVIOUS
  <2> USE OutboxAssumption
      DEF TypeOK, Status, ConsumptionStatus, SweepPC, Outcome, local, rows,
          request, ghosts
  <2>1. ASSUME NEW e \in Events, Append(e) PROVE TypeOK'
    BY <2>1 DEF Append
  <2>2. ASSUME NEW e \in Events, BecomeDue(e) PROVE TypeOK'
    BY <2>2 DEF BecomeDue
  <2>3. ASSUME NEW e \in Events, LockExpires(e) PROVE TypeOK'
    BY <2>3 DEF LockExpires
  <2>4. ASSUME NEW e \in Events, LockOverrun(e) PROVE TypeOK'
    BY <2>4 DEF LockOverrun
  <2>5. ASSUME NEW s \in Sweeps, RecoverStale(s) PROVE TypeOK'
    BY <2>5, SetAllType, IncrementType DEF RecoverStale
  <2>6. ASSUME NEW s \in Sweeps, ClaimBatch(s) PROVE TypeOK'
    <3> PICK S \in SUBSET {e \in Events : Claimable(e)} :
          /\ status' = SetAll(status, S, "PROCESSING")
          /\ lockOwner' = SetAll(lockOwner, S, s)
          /\ stale' = SetAll(stale, S, FALSE)
          /\ attemptCount' = Increment(attemptCount, S)
          /\ batch' = [batch EXCEPT ![s] = S]
          /\ pc' = [pc EXCEPT ![s] = IF S = {} THEN "idle" ELSE "next"]
      BY <2>6 DEF ClaimBatch
    <3>1. /\ status' \in [Events -> Status]
          /\ lockOwner' \in [Events -> Sweeps \cup {NoSweep}]
          /\ stale' \in [Events -> BOOLEAN]
      BY SetAllType
    <3>2. /\ attemptCount' \in [Events -> Nat]
          /\ batch' \in [Sweeps -> SUBSET Events]
          /\ pc' \in [Sweeps -> SweepPC]
      BY IncrementType
    <3> QED
      BY <2>6, <3>1, <3>2 DEF ClaimBatch
  <2>7. ASSUME NEW s \in Sweeps, BatchDone(s) PROVE TypeOK'
    BY <2>7 DEF BatchDone
  <2>8. ASSUME NEW s \in Sweeps, RefreshSkips(s) PROVE TypeOK'
    BY <2>8 DEF RefreshSkips
  <2>9. ASSUME NEW s \in Sweeps, Refresh(s) PROVE TypeOK'
    <3> PICK e \in batch[s] :
          /\ batch' = [batch EXCEPT ![s] = @ \ {e}]
          /\ cur' = [cur EXCEPT ![s] = e]
          /\ attempts' = [attempts EXCEPT ![s] = attemptCount[e]]
          /\ IF e \in NewerEvents
             THEN /\ pc' = [pc EXCEPT ![s] = "finish"]
                  /\ failure' = [failure EXCEPT ![s] = "PERMANENT"]
             ELSE /\ pc' = [pc EXCEPT ![s] = "lookup"]
                  /\ failure' = [failure EXCEPT ![s] = "NONE"]
      BY <2>9, Zenon DEF Refresh
    <3>1. /\ batch' \in [Sweeps -> SUBSET Events]
          /\ cur' \in [Sweeps -> Events \cup {NoEvent}]
          /\ attempts' \in [Sweeps -> Nat]
      OBVIOUS
    <3>2. /\ pc' \in [Sweeps -> SweepPC]
          /\ failure' \in [Sweeps -> {"NONE", "TRANSIENT", "PERMANENT"}]
      <4>1. CASE e \in NewerEvents
        BY <4>1
      <4>2. CASE e \notin NewerEvents
        BY <4>2
      <4> QED
        BY <4>1, <4>2
    <3> QED
      BY <2>9, <3>1, <3>2 DEF Refresh
  <2>10. ASSUME NEW s \in Sweeps, Lookup(s) PROVE TypeOK'
    <3> DEFINE st == consumption[cur[s]][k[s]]
    <3>1. CASE AlreadyRun(st)
      BY <2>10, <3>1, LoopType DEF Lookup
    <3>2. CASE ~AlreadyRun(st)
      <4>1. pc' = [pc EXCEPT ![s] = IF st = "NONE" THEN "create" ELSE "update"]
        BY <2>10, <3>2 DEF Lookup
      <4> QED
        BY <2>10, <3>2, <4>1 DEF Lookup
    <3> QED
      BY <3>1, <3>2
  <2>11. ASSUME NEW s \in Sweeps, CreateConsumption(s) PROVE TypeOK'
    <3>1. CASE Threw(s, "TRANSIENT") /\ UNCHANGED consumption
      BY <2>11, <3>1, LoopType DEF CreateConsumption
    <3>2. CASE StoreConsumption(s, "PROCESSING") /\ UNCHANGED <<k, failure>>
               /\ pc' = [pc EXCEPT ![s] = "handle"]
      BY <2>11, <3>2, ConsumptionType DEF CreateConsumption
    <3> QED
      BY <2>11, <3>1, <3>2 DEF CreateConsumption
  <2>12. ASSUME NEW s \in Sweeps, UpdateConsumption(s) PROVE TypeOK'
    BY <2>12, ConsumptionType DEF UpdateConsumption
  <2>13. ASSUME NEW s \in Sweeps, Handle(s) PROVE TypeOK'
    <3>1. delivered' \in [Events -> [Consumers -> Nat]]
      <4>1. CASE UNCHANGED delivered
        BY <4>1
      <4>2. CASE delivered' = [delivered EXCEPT ![cur[s]] =
                   [@ EXCEPT ![k[s]] = delivered[cur[s]][k[s]] + 1]]
        <5>1. CASE cur[s] \in Events /\ k[s] \in Consumers
          BY <4>2, <5>1, StoreType
        <5>2. CASE cur[s] \notin Events
          BY <4>2, <5>2, StoreOutside
        <5>3. CASE cur[s] \in Events /\ k[s] \notin Consumers
          <6>1. [delivered[cur[s]] EXCEPT ![k[s]] = delivered[cur[s]][k[s]] + 1]
                  \in [Consumers -> Nat]
            BY <5>3, StoreOutside
          <6> QED
            BY <4>2, <5>3, <6>1
        <5> QED
          BY <5>1, <5>2, <5>3
      <4> QED
        BY <2>13, <4>1, <4>2 DEF Handle
    <3> QED
      BY <2>13, <3>1 DEF Handle
  <2>14. ASSUME NEW s \in Sweeps, Record(s) PROVE TypeOK'
    <3>1. RecordedAs(result[s]) \in ConsumptionStatus
      BY DEF RecordedAs, Recorded
    <3>2. result[s] \in Recorded \/ result[s] \in {"TRANSIENT", "PERMANENT"}
      BY DEF Recorded
    <3>3. /\ k' \in [Sweeps -> Nat]
          /\ pc' \in [Sweeps -> SweepPC]
          /\ failure' \in [Sweeps -> {"NONE", "TRANSIENT", "PERMANENT"}]
      BY <2>14, <3>2, LoopType DEF Record
    <3>4. consumption' \in [Events -> [Consumers -> ConsumptionStatus]]
      BY <2>14, <3>1, ConsumptionType DEF Record
    <3> QED
      BY <2>14, <3>3, <3>4 DEF Record
  <2>15. ASSUME NEW s \in Sweeps, Finish(s) PROVE TypeOK'
    BY <2>15 DEF Finish, Verdict, Forget
  <2>16. ASSUME NEW s \in Sweeps, RecordFails(s) PROVE TypeOK'
    BY <2>16, LoopType, ConsumptionType DEF RecordFails
  <2>17. ASSUME NEW s \in Sweeps, MarkProcessedFails(s) PROVE TypeOK'
    BY <2>17 DEF MarkProcessedFails
  <2>18. ASSUME NEW s \in Sweeps, Crash(s) PROVE TypeOK'
    BY <2>18 DEF Crash, Forget
  <2>19. ASSUME NEW o \in Operators, OperatorRead(o) PROVE TypeOK'
    BY <2>19 DEF OperatorRead
  <2>20. ASSUME NEW o \in Operators, OperatorWrite(o) PROVE TypeOK'
    BY <2>20 DEF OperatorWrite, Target
  <2>21. CASE UNCHANGED vars
    BY <2>21 DEF vars
  <2> QED
    BY ActionCases, <2>1, <2>2, <2>3, <2>4, <2>5, <2>6, <2>7, <2>8, <2>9, <2>10,
       <2>11, <2>12, <2>13, <2>14, <2>15, <2>16, <2>17, <2>18, <2>19, <2>20, <2>21
<1> QED
  BY <1>1, <1>2, PTL DEF Spec

-----------------------------------------------------------------------------
(* DeliveredBeforeProcessed.  It is not inductive: a sweep that writes         *)
(* PROCESSED relies on the handles it ran itself, on the consumption rows it   *)
(* found, and so on every sweep that wrote one.                                *)

\* What the rows of event e promise.
RowHonest(e) ==
  /\ status[e] = "PROCESSED" => \A c \in Consumers : delivered[e][c] > 0
  /\ \A c \in Consumers : consumption[e][c] \in Recorded => delivered[e][c] > 0

\* What sweep s knows while it runs the consumers of cur[s]: with no failure so
\* far, every consumer behind it was delivered; at "record" with a result, the
\* current one was.
SweepHonest(s) ==
  pc[s] \in Busy =>
    /\ cur[s] \in Events
    /\ k[s] \in 1..(NumConsumers + 1)
    /\ pc[s] # "finish" => k[s] \in Consumers
    /\ failure[s] = "NONE" =>
         /\ pc[s] = "finish" => k[s] = NumConsumers + 1
         /\ \A c \in Consumers : c < k[s] => delivered[cur[s]][c] > 0
    /\ pc[s] = "record" /\ result[s] \in Recorded => delivered[cur[s]][k[s]] > 0

DeliveryInv == (\A e \in Events : RowHonest(e)) /\ (\A s \in Sweeps : SweepHonest(s))

\* What was delivered stays delivered.
Kept == \A e \in Events, c \in Consumers :
          delivered[e][c] > 0 => delivered'[e][c] > 0

LocalsKept(s) ==
  /\ pc'[s] = pc[s] /\ cur'[s] = cur[s] /\ k'[s] = k[s]
  /\ result'[s] = result[s] /\ failure'[s] = failure[s]

\* A step that leaves a sweep's locals alone keeps what the sweep knows.
LEMMA SweepFrame ==
  ASSUME NEW s, SweepHonest(s), LocalsKept(s), Kept
  PROVE  SweepHonest(s)'
<1>1. pc'[s] \in Busy => SweepHonest(s)'
  BY DEF SweepHonest, LocalsKept, Kept, Consumers
<1> QED
  BY <1>1 DEF SweepHonest

\* A step that writes no consumption row, no success and no delivery keeps what
\* the rows promise.
LEMMA RowFrame ==
  ASSUME NEW e \in Events, RowHonest(e), UNCHANGED <<consumption, delivered>>,
         status'[e] = "PROCESSED" => status[e] = "PROCESSED"
  PROVE  RowHonest(e)'
BY DEF RowHonest

\* A sweep that is not busy after the step has nothing to keep.
LEMMA IdleHonest ==
  ASSUME NEW s, pc'[s] \notin Busy
  PROVE  SweepHonest(s)'
BY DEF SweepHonest

\* Consumer k was delivered or failed: the loop's knowledge moves on with it.
LEMMA AdvanceHonest ==
  ASSUME TypeOK, NEW s \in Sweeps, SweepHonest(s), pc[s] \in Busy, pc[s] # "finish",
         UNCHANGED <<cur, result>>, Kept,
         \/ Succeeded(s) /\ delivered'[cur[s]][k[s]] > 0
         \/ \E class \in {"TRANSIENT", "PERMANENT"} : Threw(s, class)
  PROVE  SweepHonest(s)' /\ \A t \in Sweeps \ {s} : LocalsKept(t)
<1> USE OutboxAssumption
<1>1. /\ cur[s] \in Events /\ k[s] \in Consumers /\ k[s] \in Nat
      /\ failure[s] = "NONE" =>
           \A c \in Consumers : c < k[s] => delivered[cur[s]][c] > 0
  BY DEF SweepHonest, TypeOK, Consumers
<1>2. CASE NextConsumer(s)
  <2>1. /\ k'[s] = k[s] + 1
        /\ pc'[s] = IF k[s] = NumConsumers THEN "finish" ELSE "lookup"
        /\ \A t \in Sweeps \ {s} : k'[t] = k[t] /\ pc'[t] = pc[t]
    BY <1>2 DEF NextConsumer, TypeOK
  <2>2. /\ failure'[s] = "NONE" => Succeeded(s) /\ failure[s] = "NONE"
        /\ \A t \in Sweeps \ {s} : failure'[t] = failure[t]
    BY DEF Succeeded, Threw, TypeOK
  <2>3. failure'[s] = "NONE" => delivered'[cur[s]][k[s]] > 0
    BY <2>2 DEF Threw, TypeOK
  <2>4. failure'[s] = "NONE" =>
          \A c \in Consumers : c < k'[s] => delivered'[cur[s]][c] > 0
    BY <1>1, <2>1, <2>2, <2>3 DEF Kept, Consumers
  <2> QED
    BY <1>1, <2>1, <2>2, <2>4 DEF SweepHonest, LocalsKept, Consumers
<1>3. CASE ~NextConsumer(s)
  <2>1. PICK class \in {"TRANSIENT", "PERMANENT"} :
          /\ failure' = [failure EXCEPT ![s] = class]
          /\ pc' = [pc EXCEPT ![s] = "finish"]
          /\ UNCHANGED k
    BY <1>3 DEF Succeeded, Threw
  <2> QED
    BY <1>1, <2>1 DEF SweepHonest, LocalsKept, TypeOK, Consumers
<1> QED
  BY <1>2, <1>3

\* A step of sweep s that leaves every other sweep's locals alone.
LEMMA SweepCompose ==
  ASSUME DeliveryInv, NEW s \in Sweeps, Kept,
         \A t \in Sweeps \ {s} : LocalsKept(t),
         SweepHonest(s)', \A e \in Events : RowHonest(e)'
  PROVE  DeliveryInv'
<1>1. \A t \in Sweeps \ {s} : SweepHonest(t)'
  BY SweepFrame DEF DeliveryInv
<1> QED
  BY <1>1 DEF DeliveryInv

\* A step that starts, ends or abandons work: no consumption row, no delivery.
LEMMA LeaveHonest ==
  ASSUME DeliveryInv, NEW s \in Sweeps, UNCHANGED <<consumption, delivered>>,
         pc'[s] \notin Busy, \A t \in Sweeps \ {s} : LocalsKept(t),
         \A e \in Events : status'[e] = "PROCESSED" => status[e] = "PROCESSED"
  PROVE  DeliveryInv'
<1>1. Kept /\ SweepHonest(s)'
  BY IdleHonest DEF Kept
<1>2. \A e \in Events : RowHonest(e)'
  BY RowFrame DEF DeliveryInv
<1> QED
  BY <1>1, <1>2, SweepCompose

\* A step outside the sweeps.
LEMMA OutsideHonest ==
  ASSUME DeliveryInv, UNCHANGED <<consumption, delivered, local>>,
         \A e \in Events : status'[e] = "PROCESSED" => status[e] = "PROCESSED"
  PROVE  DeliveryInv'
<1>1. \A e \in Events : RowHonest(e)'
  BY RowFrame DEF DeliveryInv
<1>2. \A s \in Sweeps : LocalsKept(s) /\ Kept
  BY DEF LocalsKept, Kept, local
<1> QED
  BY <1>1, <1>2, SweepFrame DEF DeliveryInv

\* Storing a consumption row that claims success only after a delivery.
LEMMA StoreHonest ==
  ASSUME TypeOK, DeliveryInv, NEW s \in Sweeps, cur[s] \in Events,
         k[s] \in Consumers, NEW st, StoreConsumption(s, st),
         st \in Recorded => delivered[cur[s]][k[s]] > 0, UNCHANGED <<status, delivered>>
  PROVE  \A e \in Events : RowHonest(e)'
<1> SUFFICES ASSUME NEW e \in Events, NEW c \in Consumers,
                    consumption'[e][c] \in Recorded
             PROVE  delivered[e][c] > 0
  BY DEF RowHonest, DeliveryInv
<1>1. CASE e = cur[s] /\ c = k[s]
  BY <1>1 DEF StoreConsumption, TypeOK
<1>2. CASE ~(e = cur[s] /\ c = k[s])
  BY <1>2 DEF StoreConsumption, TypeOK, DeliveryInv, RowHonest
<1> QED
  BY <1>1, <1>2

LEMMA DeliveryInvariant == Spec => []DeliveryInv
<1>1. Init => DeliveryInv
  BY DEF Init, DeliveryInv, RowHonest, SweepHonest, Busy, Recorded
<1>2. TypeOK /\ DeliveryInv /\ [Next]_vars => DeliveryInv'
  <2> SUFFICES ASSUME TypeOK, DeliveryInv, [Next]_vars PROVE DeliveryInv'
    OBVIOUS
  <2> USE OutboxAssumption DEF rows, local, request, ghosts
  <2>1. ASSUME NEW e \in Events,
               Append(e) \/ BecomeDue(e) \/ LockExpires(e) \/ LockOverrun(e)
        PROVE  DeliveryInv'
    <3>1. /\ UNCHANGED <<consumption, delivered, local>>
          /\ \A f \in Events : status'[f] = "PROCESSED" => status[f] = "PROCESSED"
      BY <2>1 DEF Append, BecomeDue, LockExpires, LockOverrun, TypeOK
    <3> QED
      BY <3>1, OutsideHonest
  <2>2. ASSUME NEW s \in Sweeps, RecoverStale(s) PROVE DeliveryInv'
    <3>1. /\ UNCHANGED <<consumption, delivered>> /\ pc'[s] \notin Busy
          /\ \A t \in Sweeps \ {s} : LocalsKept(t)
          /\ \A f \in Events : status'[f] = "PROCESSED" => status[f] = "PROCESSED"
      BY <2>2 DEF RecoverStale, SetAll, TypeOK, LocalsKept, Busy
    <3> QED
      BY <3>1, LeaveHonest
  <2>3. ASSUME NEW s \in Sweeps, ClaimBatch(s) PROVE DeliveryInv'
    <3>1. PICK S \in SUBSET Events : /\ status' = SetAll(status, S, "PROCESSING")
                 /\ pc' = [pc EXCEPT ![s] = IF S = {} THEN "idle" ELSE "next"]
      BY <2>3 DEF ClaimBatch
    <3>2. pc'[s] \notin Busy
      BY <3>1 DEF TypeOK, Busy
    <3>3. \A f \in Events : status'[f] = "PROCESSED" => status[f] = "PROCESSED"
      BY <3>1 DEF SetAll, TypeOK
    <3>4. /\ UNCHANGED <<consumption, delivered>>
          /\ \A t \in Sweeps \ {s} : LocalsKept(t)
      BY <2>3, <3>1 DEF ClaimBatch, LocalsKept, TypeOK
    <3> QED
      BY <3>2, <3>3, <3>4, LeaveHonest
  <2>4. ASSUME NEW s \in Sweeps, BatchDone(s) \/ RefreshSkips(s) PROVE DeliveryInv'
    <3>1. /\ UNCHANGED <<consumption, delivered, status>> /\ pc'[s] \notin Busy
          /\ \A t \in Sweeps \ {s} : LocalsKept(t)
      BY <2>4 DEF BatchDone, RefreshSkips, TypeOK, LocalsKept, Busy
    <3> QED
      BY <3>1, LeaveHonest
  <2>5. ASSUME NEW s \in Sweeps, Refresh(s) PROVE DeliveryInv'
    <3>1. PICK e \in batch[s] :
            /\ cur' = [cur EXCEPT ![s] = e]
            /\ IF e \in NewerEvents
               THEN /\ pc' = [pc EXCEPT ![s] = "finish"]
                    /\ failure' = [failure EXCEPT ![s] = "PERMANENT"]
               ELSE /\ pc' = [pc EXCEPT ![s] = "lookup"]
                    /\ failure' = [failure EXCEPT ![s] = "NONE"]
      BY <2>5 DEF Refresh
    <3>2. k' = [k EXCEPT ![s] = 1] /\ UNCHANGED <<consumption, delivered, status, result>>
      BY <2>5 DEF Refresh
    <3>3. e \in Events
      BY DEF TypeOK
    <3>4. SweepHonest(s)'
      BY <3>1, <3>2, <3>3 DEF SweepHonest, Consumers, TypeOK
    <3>5. \A t \in Sweeps \ {s} : LocalsKept(t)
      BY <3>1, <3>2 DEF LocalsKept, TypeOK
    <3>6. Kept /\ \A f \in Events : RowHonest(f)'
      BY <3>2, RowFrame DEF Kept, DeliveryInv
    <3> QED
      BY <3>4, <3>5, <3>6, SweepCompose
  <2>6. ASSUME NEW s \in Sweeps, Lookup(s) PROVE DeliveryInv'
    <3> DEFINE st == consumption[cur[s]][k[s]]
    <3>1. /\ UNCHANGED <<consumption, delivered, status, cur, result>> /\ Kept
          /\ \A f \in Events : RowHonest(f)'
      BY <2>6, RowFrame DEF Lookup, Kept, DeliveryInv
    <3>2. SweepHonest(s) /\ pc[s] = "lookup" /\ pc[s] \in Busy
      BY <2>6 DEF Lookup, DeliveryInv, Busy
    <3>3. cur[s] \in Events /\ k[s] \in Consumers
      BY <3>2 DEF SweepHonest
    <3>4. CASE AlreadyRun(st)
      <4>1. Succeeded(s) /\ delivered'[cur[s]][k[s]] > 0
        BY <2>6, <3>1, <3>3, <3>4 DEF Lookup, AlreadyRun, DeliveryInv, RowHonest
      <4> QED
        BY <3>1, <3>2, <4>1, AdvanceHonest, SweepCompose
    <3>5. CASE ~AlreadyRun(st)
      <4>1. /\ pc' = [pc EXCEPT ![s] = IF st = "NONE" THEN "create" ELSE "update"]
            /\ UNCHANGED <<k, failure>>
        BY <2>6, <3>5 DEF Lookup
      <4>2. SweepHonest(s)'
        BY <3>1, <3>2, <3>3, <4>1 DEF SweepHonest, TypeOK, Consumers
      <4>3. \A t \in Sweeps \ {s} : LocalsKept(t)
        BY <3>1, <4>1 DEF LocalsKept, TypeOK
      <4> QED
        BY <3>1, <4>2, <4>3, SweepCompose
    <3> QED
      BY <3>4, <3>5
  <2>7. ASSUME NEW s \in Sweeps, CreateConsumption(s) \/ UpdateConsumption(s)
        PROVE  DeliveryInv'
    <3>1. UNCHANGED <<delivered, status, cur, result>> /\ Kept
      BY <2>7 DEF CreateConsumption, UpdateConsumption, Kept
    <3>2. SweepHonest(s) /\ pc[s] \in {"create", "update"} /\ pc[s] \in Busy
      BY <2>7 DEF CreateConsumption, UpdateConsumption, DeliveryInv, Busy
    <3>3. cur[s] \in Events /\ k[s] \in Consumers
      BY <3>2 DEF SweepHonest
    <3>4. CASE Threw(s, "TRANSIENT") /\ UNCHANGED consumption
      <4>1. \A f \in Events : RowHonest(f)'
        BY <3>1, <3>4, RowFrame DEF DeliveryInv
      <4> QED
        BY <3>1, <3>2, <3>4, <4>1, AdvanceHonest, SweepCompose
    <3>5. CASE /\ StoreConsumption(s, "PROCESSING")
               /\ pc' = [pc EXCEPT ![s] = "handle"] /\ UNCHANGED <<k, failure>>
      <4>1. \A f \in Events : RowHonest(f)'
        BY <3>1, <3>3, <3>5, StoreHonest DEF Recorded
      <4>2. SweepHonest(s)'
        BY <3>1, <3>2, <3>3, <3>5 DEF SweepHonest, TypeOK, Consumers
      <4>3. \A t \in Sweeps \ {s} : LocalsKept(t)
        BY <3>1, <3>5 DEF LocalsKept, TypeOK
      <4> QED
        BY <3>1, <4>1, <4>2, <4>3, SweepCompose
    <3> QED
      BY <2>7, <3>4, <3>5 DEF CreateConsumption, UpdateConsumption
  <2>8. ASSUME NEW s \in Sweeps, Handle(s) PROVE DeliveryInv'
    <3>1. SweepHonest(s) /\ pc[s] = "handle" /\ pc[s] \in Busy
      BY <2>8 DEF Handle, DeliveryInv, Busy
    <3>2. cur[s] \in Events /\ k[s] \in Consumers
      BY <3>1 DEF SweepHonest
    <3>3. PICK r \in Outcome :
            /\ result' = [result EXCEPT ![s] = r]
            /\ delivered' = IF r \in Recorded
                 THEN [delivered EXCEPT ![cur[s]] =
                         [@ EXCEPT ![k[s]] = delivered[cur[s]][k[s]] + 1]]
                 ELSE delivered
      BY <2>8 DEF Handle
    <3>4. /\ UNCHANGED <<status, consumption, cur, k, failure>>
          /\ pc' = [pc EXCEPT ![s] = "record"]
      BY <2>8 DEF Handle
    <3>5. Kept
      BY <3>2, <3>3 DEF Kept, TypeOK
    <3>6. r \in Recorded => delivered'[cur[s]][k[s]] > 0
      BY <3>2, <3>3 DEF TypeOK
    <3>7. SweepHonest(s)'
      BY <3>1, <3>2, <3>3, <3>4, <3>5, <3>6 DEF SweepHonest, TypeOK, Kept, Consumers
    <3>8. \A f \in Events : RowHonest(f)'
      BY <3>4, <3>5 DEF RowHonest, Kept, DeliveryInv
    <3>9. \A t \in Sweeps \ {s} : LocalsKept(t)
      BY <3>3, <3>4 DEF LocalsKept, TypeOK
    <3> QED
      BY <3>5, <3>7, <3>8, <3>9, SweepCompose
  <2>9. ASSUME NEW s \in Sweeps, Record(s) \/ RecordFails(s) PROVE DeliveryInv'
    <3>1. UNCHANGED <<delivered, status, cur, result>> /\ Kept
      BY <2>9 DEF Record, RecordFails, Kept
    <3>2. SweepHonest(s) /\ pc[s] = "record" /\ pc[s] \in Busy
      BY <2>9 DEF Record, RecordFails, DeliveryInv, Busy
    <3>3. /\ cur[s] \in Events /\ k[s] \in Consumers
          /\ result[s] \in Recorded => delivered[cur[s]][k[s]] > 0
      BY <3>2 DEF SweepHonest
    <3>4. \A e \in Events : RowHonest(e)'
      <4>1. CASE Record(s)
        <5>1. RecordedAs(result[s]) \in Recorded => result[s] \in Recorded
          BY DEF RecordedAs, Recorded
        <5> QED
          BY <3>1, <3>3, <4>1, <5>1, StoreHonest DEF Record
      <4>2. CASE RecordFails(s)
        BY <3>1, <3>3, <4>2, StoreHonest DEF RecordFails, Recorded
      <4> QED
        BY <2>9, <4>1, <4>2
    <3>5. \/ Succeeded(s) /\ delivered'[cur[s]][k[s]] > 0
          \/ \E class \in {"TRANSIENT", "PERMANENT"} : Threw(s, class)
      BY <2>9, <3>1, <3>3 DEF Record, RecordFails, TypeOK, Outcome, Recorded
    <3> QED
      BY <3>1, <3>2, <3>4, <3>5, AdvanceHonest, SweepCompose
  <2>10. ASSUME NEW s \in Sweeps, Finish(s) PROVE DeliveryInv'
    <3>1. /\ SweepHonest(s) /\ pc[s] = "finish" /\ pc[s] \in Busy
          /\ UNCHANGED <<consumption, delivered>>
      BY <2>10 DEF Finish, DeliveryInv, Busy
    <3>2. cur[s] \in Events
      BY <3>1 DEF SweepHonest
    <3>3. Verdict(s) = "PROCESSED" =>
            \A c \in Consumers : delivered[cur[s]][c] > 0
      BY <3>1 DEF Verdict, SweepHonest, Consumers
    <3>4. \A e \in Events : RowHonest(e)'
      BY <2>10, <3>1, <3>2, <3>3 DEF Finish, RowHonest, DeliveryInv, TypeOK
    <3>5. pc'[s] \notin Busy
      BY <2>10 DEF Finish, TypeOK, Busy
    <3>6. \A t \in Sweeps \ {s} : LocalsKept(t)
      BY <2>10 DEF Finish, Forget, LocalsKept, TypeOK
    <3> QED
      BY <3>1, <3>4, <3>5, <3>6, IdleHonest, SweepCompose DEF Kept
  <2>11. ASSUME NEW s \in Sweeps, MarkProcessedFails(s) PROVE DeliveryInv'
    <3>1. /\ UNCHANGED <<consumption, delivered, status, pc, cur, k, result>>
          /\ failure' = [failure EXCEPT ![s] = "TRANSIENT"]
      BY <2>11 DEF MarkProcessedFails
    <3>2. SweepHonest(s)'
      BY <3>1 DEF SweepHonest, DeliveryInv, TypeOK
    <3>3. \A t \in Sweeps \ {s} : LocalsKept(t)
      BY <3>1 DEF LocalsKept, TypeOK
    <3>4. Kept /\ \A e \in Events : RowHonest(e)'
      BY <3>1, RowFrame DEF Kept, DeliveryInv
    <3> QED
      BY <3>2, <3>3, <3>4, SweepCompose
  <2>12. ASSUME NEW s \in Sweeps, Crash(s) PROVE DeliveryInv'
    <3>1. /\ UNCHANGED <<consumption, delivered, status>> /\ pc'[s] \notin Busy
          /\ \A t \in Sweeps \ {s} : LocalsKept(t)
      BY <2>12 DEF Crash, Forget, TypeOK, LocalsKept, Busy
    <3> QED
      BY <3>1, LeaveHonest
  <2>13. ASSUME NEW o \in Operators, OperatorRead(o) \/ OperatorWrite(o)
         PROVE  DeliveryInv'
    <3>1. UNCHANGED <<consumption, delivered, local>>
      BY <2>13 DEF OperatorRead, OperatorWrite
    <3>2. \A f \in Events : status'[f] = "PROCESSED" => status[f] = "PROCESSED"
      BY <2>13 DEF OperatorRead, OperatorWrite, Target, TypeOK
    <3> QED
      BY <3>1, <3>2, OutsideHonest
  <2>14. CASE UNCHANGED vars
    BY <2>14, OutsideHonest DEF vars
  <2> QED
    BY ActionCases, <2>1, <2>2, <2>3, <2>4, <2>5, <2>6, <2>7, <2>8, <2>9, <2>10,
       <2>11, <2>12, <2>13, <2>14
<1> QED
  BY <1>1, <1>2, TypeCorrect, PTL DEF Spec

\* An event is PROCESSED only when every consumer's handle returned for it.
THEOREM DeliveryCorrect == Spec => []DeliveredBeforeProcessed
<1>1. DeliveryInv => DeliveredBeforeProcessed
  BY DEF DeliveryInv, RowHonest, DeliveredBeforeProcessed
<1> QED
  BY <1>1, DeliveryInvariant, PTL

-----------------------------------------------------------------------------
(* While no lock expires under a running sweep and nobody retries by hand *)

Exclusive == MaxOverruns = 0 /\ "retry" \notin OperatorKinds

\* A claimed event is the claiming sweep's alone: no statement makes it claimable.
HeldAlone ==
  \A s \in Sweeps, e \in Events : Holds(s, e) =>
    /\ status[e] \in {"PROCESSING", "CANCELLED"} /\ ~stale[e]
    /\ \A t \in Sweeps : Holds(t, e) => t = s

\* The sweeps' locals agree with their program counters.
LocalsAgree ==
  \A s \in Sweeps :
    /\ pc[s] \in Busy => cur[s] \in Events /\ cur[s] \notin batch[s]
    /\ pc[s] \notin Busy => cur[s] = NoEvent
    /\ pc[s] \in {"idle", "claim"} => batch[s] = {}

OnlyCancels == \A o \in Operators : opkind[o] = "cancel"

\* A sweep past the lookup works on a row that records no success.
Unrecorded ==
  \A s \in Sweeps : pc[s] \in {"update", "handle", "record"} /\ k[s] \in Consumers
    => consumption[cur[s]][k[s]] \notin Recorded

ExclusiveInv == TypeOK /\ HeldAlone /\ LocalsAgree /\ OnlyCancels /\ Unrecorded

\* A step after which nobody holds more, and that leaves held rows unclaimable.
LEMMA HeldFrame ==
  ASSUME HeldAlone,
         \A s \in Sweeps, e \in Events : Holds(s, e)' => Holds(s, e),
         \A s \in Sweeps, e \in Events : Holds(s, e)' =>
           status'[e] \in {"PROCESSING", "CANCELLED"} /\ ~stale'[e]
  PROVE  HeldAlone'
BY DEF HeldAlone

\* The steps outside the sweeps leave what is claimed claimed.
LEMMA OutsideExclusive ==
  ASSUME Exclusive, ExclusiveInv,
         \/ \E e \in Events : Append(e) \/ BecomeDue(e) \/ LockExpires(e) \/ LockOverrun(e)
         \/ \E o \in Operators : OperatorRead(o) \/ OperatorWrite(o)
  PROVE  HeldAlone' /\ LocalsAgree' /\ OnlyCancels' /\ Unrecorded'
<1> USE OutboxAssumption DEF rows, local, request, ghosts, ExclusiveInv
<1>1. UNCHANGED <<consumption, local>>
  BY DEF Append, BecomeDue, LockExpires, LockOverrun, OperatorRead, OperatorWrite
<1>2. LocalsAgree' /\ Unrecorded'
  BY <1>1 DEF LocalsAgree, Unrecorded
<1>3. OnlyCancels'
  <2>1. CASE UNCHANGED opkind
    BY <2>1 DEF OnlyCancels
  <2>2. ASSUME NEW o \in Operators, OperatorRead(o) PROVE OnlyCancels'
    <3>1. PICK kind \in OperatorKinds : opkind' = [opkind EXCEPT ![o] = kind]
      BY <2>2 DEF OperatorRead
    <3>2. kind = "cancel"
      BY DEF Exclusive
    <3> QED
      BY <3>1, <3>2 DEF OnlyCancels, TypeOK
  <2> QED
    BY <2>1, <2>2 DEF Append, BecomeDue, LockExpires, LockOverrun, OperatorWrite
<1>4. \A s \in Sweeps, e \in Events : Holds(s, e)' <=> Holds(s, e)
  BY <1>1 DEF Holds
<1>5. ASSUME NEW s \in Sweeps, NEW e \in Events, Holds(s, e)
      PROVE  status'[e] \in {"PROCESSING", "CANCELLED"} /\ ~stale'[e]
  <2>1. status[e] \in {"PROCESSING", "CANCELLED"} /\ ~stale[e]
    BY <1>5 DEF HeldAlone
  <2>2. CASE \E f \in Events : Append(f) \/ BecomeDue(f)
    BY <2>1, <2>2 DEF Append, BecomeDue, TypeOK
  <2>3. CASE \E f \in Events : LockExpires(f)
    BY <1>5, <2>1, <2>3 DEF LockExpires, TypeOK
  <2>4. ~ \E f \in Events : LockOverrun(f)
    BY DEF LockOverrun, Exclusive, TypeOK
  <2>5. CASE \E o \in Operators : OperatorRead(o)
    BY <2>1, <2>5 DEF OperatorRead
  <2>6. ASSUME NEW o \in Operators, OperatorWrite(o)
        PROVE  status'[e] \in {"PROCESSING", "CANCELLED"} /\ ~stale'[e]
    <3>1. opkind[o] = "cancel"
      BY DEF OnlyCancels
    <3> QED
      BY <2>1, <2>6, <3>1 DEF OperatorWrite, Target, TypeOK
  <2> QED
    BY <2>2, <2>3, <2>4, <2>5, <2>6
<1>6. HeldAlone'
  BY <1>4, <1>5, HeldFrame
<1> QED
  BY <1>2, <1>3, <1>6

\* A step of s within its loop over the consumers, which may store a consumption row.
LEMMA LoopExclusive ==
  ASSUME ExclusiveInv, NEW s \in Sweeps, pc[s] \in Busy, pc'[s] \in Busy,
         UNCHANGED <<status, stale, batch, cur, opkind>>,
         \A t \in Sweeps \ {s} : pc'[t] = pc[t] /\ k'[t] = k[t],
         UNCHANGED consumption \/ \E st \in ConsumptionStatus : StoreConsumption(s, st),
         pc'[s] \in {"update", "handle", "record"} /\ k'[s] \in Consumers
           => consumption'[cur[s]][k'[s]] \notin Recorded
  PROVE  HeldAlone' /\ LocalsAgree' /\ OnlyCancels' /\ Unrecorded'
<1> USE DEF ExclusiveInv
<1>1. HeldAlone'
  BY HeldFrame DEF HeldAlone, Holds
<1>2. LocalsAgree'
  BY DEF LocalsAgree, Busy
<1>3. ASSUME NEW t \in Sweeps, t # s, pc'[t] \in {"update", "handle", "record"},
             k'[t] \in Consumers
      PROVE  consumption'[cur'[t]][k'[t]] \notin Recorded
  <2>1. /\ pc[t] \in Busy /\ k[t] \in Consumers
        /\ consumption[cur[t]][k[t]] \notin Recorded
    BY <1>3 DEF Unrecorded, Busy
  <2>2. cur[t] \in Events /\ cur[s] \in Events /\ cur[t] # cur[s]
    BY <1>3, <2>1 DEF LocalsAgree, HeldAlone, Holds
  <2> QED
    BY <1>3, <2>1, <2>2 DEF StoreConsumption, TypeOK
<1> QED
  BY <1>1, <1>2, <1>3 DEF OnlyCancels, Unrecorded

LEMMA ExclusiveStep ==
  ASSUME Exclusive, ExclusiveInv, [Next]_vars
  PROVE  HeldAlone' /\ LocalsAgree' /\ OnlyCancels' /\ Unrecorded'
<1> USE OutboxAssumption DEF rows, local, request, ghosts, ExclusiveInv
<1> DEFINE Goal == HeldAlone' /\ LocalsAgree' /\ OnlyCancels' /\ Unrecorded'
<1>1. ASSUME NEW s \in Sweeps, RecoverStale(s) PROVE Goal
  <2>1. \A t \in Sweeps, e \in Events : Holds(t, e)' <=> Holds(t, e)
    BY <1>1 DEF RecoverStale, Holds
  <2>2. ASSUME NEW t \in Sweeps, NEW e \in Events, Holds(t, e)
        PROVE  status'[e] = status[e] /\ stale'[e] = stale[e]
    <3>1. e \notin StaleClaims
      BY <2>2 DEF HeldAlone, StaleClaims
    <3> QED
      BY <1>1, <3>1 DEF RecoverStale, SetAll
  <2>3. HeldAlone'
    BY <2>1, <2>2, HeldFrame DEF HeldAlone
  <2> QED
    BY <1>1, <2>3 DEF RecoverStale, LocalsAgree, OnlyCancels, Unrecorded, TypeOK, Busy
<1>2. ASSUME NEW s \in Sweeps, ClaimBatch(s) PROVE Goal
  <2>1. PICK S \in SUBSET {e \in Events : Claimable(e)} :
          /\ status' = SetAll(status, S, "PROCESSING")
          /\ stale' = SetAll(stale, S, FALSE)
          /\ batch' = [batch EXCEPT ![s] = S]
          /\ pc' = [pc EXCEPT ![s] = IF S = {} THEN "idle" ELSE "next"]
    BY <1>2 DEF ClaimBatch
  <2>2. pc[s] = "claim" /\ UNCHANGED <<cur, k, consumption, opkind>>
    BY <1>2 DEF ClaimBatch
  <2>3. ASSUME NEW t \in Sweeps, NEW e \in Events, Holds(t, e) PROVE e \notin S
    BY <2>3 DEF HeldAlone, Claimable
  <2>4. ASSUME NEW t \in Sweeps, NEW e \in Events, Holds(t, e)'
        PROVE  (t = s /\ e \in S) \/ (t # s /\ e \notin S /\ Holds(t, e))
    <3>1. CASE t = s
      <4>1. cur[s] = NoEvent
        BY <2>2 DEF LocalsAgree, Busy
      <4> QED
        BY <2>1, <2>2, <2>4, <3>1, <4>1 DEF Holds, TypeOK
    <3>2. CASE t # s
      <4>1. Holds(t, e)
        BY <2>1, <2>2, <2>4, <3>2 DEF Holds, TypeOK
      <4> QED
        BY <2>3, <3>2, <4>1
    <3> QED
      BY <3>1, <3>2
  <2>5. ASSUME NEW e \in Events
        PROVE /\ e \in S => status'[e] = "PROCESSING" /\ stale'[e] = FALSE
              /\ e \notin S => status'[e] = status[e] /\ stale'[e] = stale[e]
    BY <2>1 DEF SetAll
  <2>6. HeldAlone'
    BY <2>4, <2>5 DEF HeldAlone
  <2>7. LocalsAgree' /\ Unrecorded'
    BY <2>1, <2>2 DEF LocalsAgree, Unrecorded, TypeOK, Busy
  <2> QED
    BY <2>2, <2>6, <2>7 DEF OnlyCancels
<1>3. ASSUME NEW s \in Sweeps, BatchDone(s) PROVE Goal
  <2>1. HeldAlone'
    BY <1>3, HeldFrame DEF BatchDone, Holds, HeldAlone
  <2> QED
    BY <1>3, <2>1 DEF BatchDone, LocalsAgree, OnlyCancels, Unrecorded, TypeOK, Busy
<1>4. ASSUME NEW s \in Sweeps, RefreshSkips(s) PROVE Goal
  <2>1. PICK e \in batch[s] : batch' = [batch EXCEPT ![s] = @ \ {e}]
    BY <1>4 DEF RefreshSkips
  <2>2. HeldAlone'
    BY <1>4, <2>1, HeldFrame DEF RefreshSkips, Holds, HeldAlone, TypeOK
  <2> QED
    BY <1>4, <2>1, <2>2 DEF RefreshSkips, LocalsAgree, OnlyCancels, Unrecorded, TypeOK
<1>5. ASSUME NEW s \in Sweeps, Refresh(s) PROVE Goal
  <2>1. PICK e \in batch[s] :
          /\ batch' = [batch EXCEPT ![s] = @ \ {e}]
          /\ cur' = [cur EXCEPT ![s] = e]
          /\ \/ pc' = [pc EXCEPT ![s] = "finish"]
             \/ pc' = [pc EXCEPT ![s] = "lookup"]
    BY <1>5 DEF Refresh
  <2>2. UNCHANGED <<status, stale, consumption, opkind>> /\ k' = [k EXCEPT ![s] = 1]
    BY <1>5 DEF Refresh
  <2>3. e \in Events
    BY DEF TypeOK
  <2>4. \A t \in Sweeps, f \in Events : Holds(t, f)' => Holds(t, f)
    BY <2>1 DEF Holds, TypeOK
  <2>5. HeldAlone'
    BY <2>2, <2>4, HeldFrame DEF HeldAlone
  <2>6. LocalsAgree'
    BY <2>1, <2>3 DEF LocalsAgree, TypeOK, Busy
  <2>7. Unrecorded'
    BY <2>1, <2>2 DEF Unrecorded, TypeOK
  <2> QED
    BY <2>2, <2>5, <2>6, <2>7 DEF OnlyCancels
<1>6. ASSUME NEW s \in Sweeps,
             \/ Lookup(s) \/ CreateConsumption(s) \/ UpdateConsumption(s) \/ Handle(s)
             \/ Record(s) \/ RecordFails(s) \/ MarkProcessedFails(s)
      PROVE Goal
  <2>0. pc[s] \in Busy /\ UNCHANGED <<status, stale, batch, cur, opkind>>
    BY <1>6 DEF Lookup, CreateConsumption, UpdateConsumption, Handle, Record, RecordFails,
       MarkProcessedFails, Busy
  <2>1. CASE Lookup(s)
    <3>1. UNCHANGED consumption
      BY <2>1 DEF Lookup
    <3>2. CASE AlreadyRun(consumption[cur[s]][k[s]])
      <4>1. NextConsumer(s)
        BY <2>1, <3>2 DEF Lookup, Succeeded
      <4>2. /\ pc'[s] \in {"finish", "lookup"}
            /\ \A t \in Sweeps \ {s} : pc'[t] = pc[t] /\ k'[t] = k[t]
        BY <4>1 DEF NextConsumer, TypeOK
      <4> QED
        BY <2>0, <3>1, <4>2, LoopExclusive DEF Busy
    <3>3. CASE ~AlreadyRun(consumption[cur[s]][k[s]])
      <4>1. /\ pc'[s] \in {"create", "update"} /\ k' = k
            /\ \A t \in Sweeps \ {s} : pc'[t] = pc[t]
        BY <2>1, <3>3 DEF Lookup, TypeOK
      <4> QED
        BY <2>0, <3>1, <3>3, <4>1, LoopExclusive DEF Busy, AlreadyRun
    <3> QED
      BY <3>2, <3>3
  <2>2. CASE UpdateConsumption(s) \/ (CreateConsumption(s) /\ consumption[cur[s]][k[s]] = "NONE")
    <3>1. StoreConsumption(s, "PROCESSING") /\ pc' = [pc EXCEPT ![s] = "handle"] /\ UNCHANGED k
      BY <2>2 DEF UpdateConsumption, CreateConsumption
    <3>2. pc'[s] = "handle" /\ \A t \in Sweeps \ {s} : pc'[t] = pc[t]
      BY <3>1 DEF TypeOK
    <3>3. cur[s] \in Events
      BY <2>0 DEF LocalsAgree
    <3>4. k[s] \in Consumers => consumption'[cur[s]][k[s]] = "PROCESSING"
      BY <3>1, <3>3 DEF StoreConsumption, TypeOK
    <3>5. "PROCESSING" \in ConsumptionStatus /\ "PROCESSING" \notin Recorded
      BY DEF ConsumptionStatus, Recorded
    <3> QED
      BY <2>0, <3>1, <3>2, <3>4, <3>5, LoopExclusive DEF Busy
  <2>3. CASE Handle(s)
    <3>1. /\ pc[s] = "handle" /\ pc'[s] = "record" /\ UNCHANGED <<k, consumption>>
          /\ \A t \in Sweeps \ {s} : pc'[t] = pc[t]
      BY <2>3 DEF Handle, TypeOK
    <3>2. k[s] \in Consumers => consumption[cur[s]][k[s]] \notin Recorded
      BY <3>1 DEF Unrecorded
    <3> QED
      BY <2>0, <3>1, <3>2, LoopExclusive DEF Busy
  <2>4. CASE \/ CreateConsumption(s) /\ consumption[cur[s]][k[s]] # "NONE"
             \/ Record(s) \/ RecordFails(s)
    <3>1. PICK class \in {"TRANSIENT", "PERMANENT"} : Succeeded(s) \/ Threw(s, class)
      <4>1. result[s] \in Recorded \cup {"TRANSIENT", "PERMANENT"}
        BY DEF TypeOK, Outcome, Recorded
      <4> QED
        BY <2>4, <4>1 DEF CreateConsumption, Record, RecordFails
    <3>2. /\ pc'[s] \in {"finish", "lookup"}
          /\ \A t \in Sweeps \ {s} : pc'[t] = pc[t] /\ k'[t] = k[t]
      BY <3>1 DEF Succeeded, Threw, NextConsumer, TypeOK
    <3>3. UNCHANGED consumption \/ \E st \in ConsumptionStatus : StoreConsumption(s, st)
      <4>1. RecordedAs(result[s]) \in ConsumptionStatus /\ "FAILED" \in ConsumptionStatus
        BY DEF RecordedAs, ConsumptionStatus, Recorded
      <4> QED
        BY <2>4, <4>1 DEF CreateConsumption, Record, RecordFails
    <3> QED
      BY <2>0, <3>2, <3>3, LoopExclusive DEF Busy
  <2>5. CASE MarkProcessedFails(s)
    <3>1. pc[s] = "finish" /\ UNCHANGED <<pc, k, consumption>>
      BY <2>5 DEF MarkProcessedFails
    <3> QED
      BY <2>0, <3>1, LoopExclusive DEF Busy
  <2> QED
    BY <1>6, <2>1, <2>2, <2>3, <2>4, <2>5
<1>7. ASSUME NEW s \in Sweeps, Finish(s) PROVE Goal
  <2>1. /\ cur' = [cur EXCEPT ![s] = NoEvent] /\ pc' = [pc EXCEPT ![s] = "next"]
        /\ status' = [status EXCEPT ![cur[s]] = Verdict(s)]
        /\ stale' = [stale EXCEPT ![cur[s]] = FALSE]
        /\ k' = [k EXCEPT ![s] = 1]
        /\ UNCHANGED <<batch, consumption, opkind>>
    BY <1>7 DEF Finish, Forget
  <2>2. pc[s] = "finish" /\ cur[s] \in Events /\ cur[s] \notin batch[s]
    BY <1>7 DEF Finish, LocalsAgree, Busy
  <2>3. \A t \in Sweeps, e \in Events : Holds(t, e)' => Holds(t, e) /\ e # cur[s]
    <3>1. ASSUME NEW t \in Sweeps, NEW e \in Events, Holds(t, e)' PROVE Holds(t, e)
      BY <2>1, <3>1 DEF Holds, TypeOK
    <3>2. ASSUME NEW t \in Sweeps, NEW e \in Events, Holds(t, e)', e = cur[s] PROVE FALSE
      <4>1. t = s
        BY <2>2, <3>1, <3>2 DEF HeldAlone, Holds
      <4> QED
        BY <2>1, <2>2, <3>2, <4>1 DEF Holds, TypeOK
    <3> QED
      BY <3>1, <3>2
  <2>4. HeldAlone'
    BY <2>1, <2>3, HeldFrame DEF HeldAlone
  <2>5. LocalsAgree' /\ Unrecorded'
    BY <2>1 DEF LocalsAgree, Unrecorded, TypeOK, Busy
  <2> QED
    BY <2>1, <2>4, <2>5 DEF OnlyCancels
<1>8. ASSUME NEW s \in Sweeps, Crash(s) PROVE Goal
  <2>1. /\ cur' = [cur EXCEPT ![s] = NoEvent] /\ pc' = [pc EXCEPT ![s] = "idle"]
        /\ batch' = [batch EXCEPT ![s] = {}] /\ k' = [k EXCEPT ![s] = 1]
        /\ UNCHANGED <<status, stale, consumption, opkind>>
    BY <1>8 DEF Crash, Forget
  <2>2. \A t \in Sweeps, e \in Events : Holds(t, e)' => Holds(t, e)
    BY <2>1 DEF Holds, TypeOK
  <2>3. HeldAlone'
    BY <2>1, <2>2, HeldFrame DEF HeldAlone
  <2>4. LocalsAgree' /\ Unrecorded'
    BY <2>1 DEF LocalsAgree, Unrecorded, TypeOK, Busy
  <2> QED
    BY <2>1, <2>3, <2>4 DEF OnlyCancels
<1>9. CASE UNCHANGED vars
  BY <1>9 DEF vars, HeldAlone, Holds, LocalsAgree, OnlyCancels, Unrecorded
<1> HIDE DEF Goal
<1>10. Goal
  BY <1>1, <1>2, <1>3, <1>4, <1>5, <1>6, <1>7, <1>8, <1>9, ActionCases, OutsideExclusive DEF Goal
<1> QED
  BY <1>10 DEF Goal

LEMMA ExclusiveInvariant == Exclusive => (Spec => []ExclusiveInv)
<1> SUFFICES ASSUME Exclusive PROVE Spec => []ExclusiveInv
  OBVIOUS
<1> DEFINE Rest == HeldAlone /\ LocalsAgree /\ OnlyCancels /\ Unrecorded
<1>1. Init => Rest
  BY OutboxAssumption DEF Init, HeldAlone, LocalsAgree, OnlyCancels, Unrecorded, Holds, Busy
<1>2. TypeOK /\ Rest /\ [Next]_vars => Rest'
  BY ExclusiveStep DEF ExclusiveInv
<1>3. TypeOK /\ Rest <=> ExclusiveInv
  BY DEF ExclusiveInv
<1> HIDE DEF Rest
<1> QED
  BY <1>1, <1>2, <1>3, TypeCorrect, PTL DEF Spec

\* OneSweepPerEvent: one sweep at most has an event, for any number of sweeps, crashes
\* and cancellations, while no lock expires under a running sweep.
THEOREM OneSweep == Exclusive => (Spec => []OneSweepPerEvent)
<1>1. ExclusiveInv => OneSweepPerEvent
  BY DEF ExclusiveInv, HeldAlone, OneSweepPerEvent
<1> QED
  BY <1>1, ExclusiveInvariant, PTL

\* Under the same conditions a recorded success is neither taken back nor replayed.
LEMMA SuccessStep ==
  ASSUME ExclusiveInv, [Next]_vars, NEW e \in Events, NEW c \in Consumers,
         consumption[e][c] \in Recorded
  PROVE  consumption'[e][c] \in Recorded /\ delivered'[e][c] = delivered[e][c]
<1> USE DEF ExclusiveInv, rows, local, request, ghosts
<1>1. ASSUME NEW s \in Sweeps, NEW st, StoreConsumption(s, st),
             \/ pc[s] \in {"update", "handle", "record"}
             \/ consumption[cur[s]][k[s]] = "NONE"
      PROVE  consumption'[e][c] \in Recorded
  <2>1. ~(cur[s] = e /\ k[s] = c)
    BY <1>1 DEF Unrecorded, Recorded
  <2> QED
    BY <1>1, <2>1 DEF StoreConsumption, TypeOK
<1>2. ASSUME NEW s \in Sweeps, Handle(s) PROVE delivered'[e][c] = delivered[e][c]
  <2>1. ~(cur[s] = e /\ k[s] = c)
    BY <1>2 DEF Handle, Unrecorded
  <2>2. \/ UNCHANGED delivered
        \/ delivered' = [delivered EXCEPT ![cur[s]] =
                           [@ EXCEPT ![k[s]] = delivered[cur[s]][k[s]] + 1]]
    BY <1>2 DEF Handle
  <2> DEFINE n == delivered[cur[s]][k[s]] + 1
  <2>3. delivered \in [Events -> [Consumers -> Nat]]
    BY DEF TypeOK
  <2>4. [delivered EXCEPT ![cur[s]] = [@ EXCEPT ![k[s]] = n]][e][c] = delivered[e][c]
    <3> HIDE DEF n
    <3> QED
      BY <2>1, <2>3, StoreElsewhere
  <2> QED
    BY <2>2, <2>4
<1>3. CASE UNCHANGED <<consumption, delivered>>
  BY <1>3
<1>4. ASSUME NEW s \in Sweeps,
             \/ CreateConsumption(s) \/ UpdateConsumption(s) \/ Record(s) \/ RecordFails(s)
      PROVE  consumption'[e][c] \in Recorded /\ delivered'[e][c] = delivered[e][c]
  <2>1. UNCHANGED delivered
    BY <1>4 DEF CreateConsumption, UpdateConsumption, Record, RecordFails
  <2>2. consumption'[e][c] \in Recorded
    BY <1>1, <1>4 DEF CreateConsumption, UpdateConsumption, Record, RecordFails
  <2> QED
    BY <2>1, <2>2
<1>5. ASSUME NEW s \in Sweeps, Handle(s)
      PROVE  consumption'[e][c] \in Recorded /\ delivered'[e][c] = delivered[e][c]
  BY <1>2, <1>5 DEF Handle
<1> QED
  BY <1>3, <1>4, <1>5, ActionCases
     DEF Append, BecomeDue, LockExpires, LockOverrun, RecoverStale, ClaimBatch, BatchDone,
         RefreshSkips, Refresh, Lookup, Finish, MarkProcessedFails, Crash, OperatorRead,
         OperatorWrite, vars

\* SuccessNotReplayed: under the same conditions no handle runs for a consumer whose
\* success is recorded, and nothing takes the record back.
THEOREM SuccessKept == Exclusive => (Spec => SuccessNotReplayed)
<1>1. ExclusiveInv /\ [Next]_vars =>
        \A e \in Events, c \in Consumers : consumption[e][c] \in Recorded =>
          /\ consumption'[e][c] \in Recorded
          /\ delivered'[e][c] = delivered[e][c]
  BY SuccessStep
<1> QED
  BY <1>1, ExclusiveInvariant, PTL DEF Spec, SuccessNotReplayed

\* ProcessedIsFinal: under the same conditions only an administrator whose read came
\* before takes PROCESSED back.
THEOREM ProcessedKept == Exclusive => (Spec => ProcessedIsFinal)
<1>1. ASSUME ExclusiveInv, [Next]_vars, NEW e \in Events, status[e] = "PROCESSED",
             \A o \in Operators : oprow[o] # e
      PROVE  status'[e] = "PROCESSED"
  <2> USE DEF ExclusiveInv, rows, local, request, ghosts
  <2>1. ASSUME NEW f \in Events, Append(f) PROVE status'[e] = "PROCESSED"
    BY <1>1, <2>1 DEF Append, TypeOK
  <2>2. ASSUME NEW s \in Sweeps, RecoverStale(s) PROVE status'[e] = "PROCESSED"
    BY <1>1, <2>2 DEF RecoverStale, SetAll, StaleClaims
  <2>3. ASSUME NEW s \in Sweeps, ClaimBatch(s) PROVE status'[e] = "PROCESSED"
    BY <1>1, <2>3 DEF ClaimBatch, SetAll, Claimable
  <2>4. ASSUME NEW s \in Sweeps, Finish(s) PROVE status'[e] = "PROCESSED"
    <3>1. cur[s] # e
      BY <1>1, <2>4 DEF Finish, HeldAlone, Holds
    <3> QED
      BY <1>1, <2>4, <3>1 DEF Finish, TypeOK
  <2>5. ASSUME NEW o \in Operators, OperatorWrite(o) PROVE status'[e] = "PROCESSED"
    BY <1>1, <2>5 DEF OperatorWrite, TypeOK
  <2>6. CASE UNCHANGED status
    BY <1>1, <2>6
  <2> QED
    BY <1>1, <2>1, <2>2, <2>3, <2>4, <2>5, <2>6, ActionCases
       DEF BecomeDue, LockExpires, LockOverrun, BatchDone, RefreshSkips, Refresh, Lookup,
           CreateConsumption, UpdateConsumption, Handle, Record, RecordFails,
           MarkProcessedFails, Crash, OperatorRead, vars
<1>2. ExclusiveInv /\ [Next]_vars =>
        \A e \in Events : status[e] = "PROCESSED" /\ (\A o \in Operators : oprow[o] # e) =>
          status'[e] = "PROCESSED"
  BY <1>1
<1> QED
  BY <1>2, ExclusiveInvariant, PTL DEF Spec, ProcessedIsFinal

-----------------------------------------------------------------------------
(* The outbox tracks its deliveries: the refinement of TrackedDelivery.  The      *)
(* mapping counts an event as acknowledged where DeliveredBeforeProcessed only    *)
(* needed it delivered, so one more thing must be known of a sweep's loop.        *)

\* While sweep s has seen no failure, the consumers behind it have a recorded success.
Behind(s) ==
  pc[s] \in Busy /\ failure[s] = "NONE" =>
    \A c \in Consumers : c < k[s] => consumption[cur[s]][c] \in Recorded

\* A request works on a row that exists.
RequestsExist ==
  \A o \in Operators : oppc[o] = "write" => oprow[o] \in Events /\ status[oprow[o]] # "NONE"

TrackedInv ==
  /\ ExclusiveInv /\ DeliveryInv
  /\ \A s \in Sweeps : Behind(s)
  /\ RequestsExist

\* A sweep's step leaves the locals of the other sweeps alone.
LEMMA OthersKept ==
  ASSUME TypeOK, NEW s \in Sweeps, SweepStep(s) \/ SweepFault(s), NEW t \in Sweeps, t # s
  PROVE  LocalsKept(t)
<1> USE DEF LocalsKept, TypeOK, rows, local
<1>1. CASE RecoverStale(s) \/ ClaimBatch(s) \/ BatchDone(s) \/ RefreshSkips(s)
  BY <1>1 DEF RecoverStale, ClaimBatch, BatchDone, RefreshSkips
<1>2. CASE Refresh(s)
  BY <1>2 DEF Refresh
<1>3. CASE Lookup(s) \/ CreateConsumption(s) \/ UpdateConsumption(s) \/ Handle(s)
  BY <1>3 DEF Lookup, CreateConsumption, UpdateConsumption, Handle, Succeeded, Threw,
     NextConsumer
<1>4. CASE Record(s) \/ RecordFails(s)
  BY <1>4 DEF Record, RecordFails, Succeeded, Threw, NextConsumer
<1>5. CASE Finish(s) \/ MarkProcessedFails(s) \/ Crash(s)
  BY <1>5 DEF Finish, MarkProcessedFails, Crash, Forget
<1> QED
  BY <1>1, <1>2, <1>3, <1>4, <1>5 DEF SweepStep, SweepFault

\* A sweep that did not move knows what it knew, since no success is taken back.
LEMMA BehindFrame ==
  ASSUME ExclusiveInv, [Next]_vars, NEW s \in Sweeps, Behind(s), LocalsKept(s)
  PROVE  Behind(s)'
<1>1. pc[s] \in Busy => cur[s] \in Events
  BY DEF ExclusiveInv, LocalsAgree
<1> QED
  BY <1>1, SuccessStep DEF Behind, LocalsKept

\* A sweep that moves past a consumer without a failure has found or stored its success.
LEMMA BehindSucceeded ==
  ASSUME ExclusiveInv, [Next]_vars, NEW s \in Sweeps, Behind(s), pc[s] \in Busy,
         Succeeded(s), UNCHANGED cur, consumption'[cur[s]][k[s]] \in Recorded
  PROVE  Behind(s)'
<1>1. cur[s] \in Events /\ k[s] \in Nat
  BY DEF ExclusiveInv, LocalsAgree, TypeOK
<1>2. k'[s] = k[s] + 1 /\ failure' = failure
  BY DEF Succeeded, NextConsumer, ExclusiveInv, TypeOK
<1>3. ASSUME NEW c \in Consumers, c < k[s] + 1, failure[s] = "NONE"
      PROVE  consumption'[cur[s]][c] \in Recorded
  <2>1. c < k[s] \/ c = k[s]
    BY <1>1, <1>3 DEF Consumers
  <2> QED
    BY <1>1, <1>3, <2>1, SuccessStep DEF Behind
<1> QED
  BY <1>2, <1>3 DEF Behind

\* ... and one that saw a failure, or begins, promises nothing.
LEMMA BehindNothing ==
  ASSUME NEW s \in Sweeps, pc'[s] \notin Busy \/ failure'[s] # "NONE" \/ k'[s] = 1
  PROVE  Behind(s)'
BY DEF Behind, Consumers

LEMMA ThrewFails ==
  ASSUME TypeOK, NEW s \in Sweeps, NEW class, class # "NONE", Threw(s, class)
  PROVE  failure'[s] # "NONE"
BY DEF Threw, TypeOK

LEMMA BehindStep ==
  ASSUME ExclusiveInv, DeliveryInv, [Next]_vars, \A s \in Sweeps : Behind(s)
  PROVE  \A s \in Sweeps : Behind(s)'
<1> USE OutboxAssumption DEF rows, local, request, ghosts
<1>0. TypeOK
  BY DEF ExclusiveInv
<1>1. CASE UNCHANGED local
  BY <1>1, BehindFrame DEF LocalsKept
<1>2. ASSUME NEW s \in Sweeps, SweepStep(s) \/ SweepFault(s) PROVE Behind(s)'
  <2>1. CASE \/ RecoverStale(s) \/ ClaimBatch(s) \/ BatchDone(s) \/ RefreshSkips(s)
             \/ Finish(s) \/ Crash(s)
    <3>1. pc'[s] \notin Busy
      BY <1>0, <2>1 DEF RecoverStale, ClaimBatch, BatchDone, RefreshSkips, Finish, Crash, TypeOK,
         Busy
    <3> QED
      BY <3>1, BehindNothing
  <2>2. CASE Refresh(s)
    BY <1>0, <2>2, BehindNothing DEF Refresh, TypeOK
  <2>3. CASE MarkProcessedFails(s)
    BY <1>0, <2>3, BehindNothing DEF MarkProcessedFails, TypeOK
  <2>4. CASE Lookup(s)
    <3>1. CASE AlreadyRun(consumption[cur[s]][k[s]])
      <4>1. Succeeded(s) /\ UNCHANGED <<cur, consumption>> /\ pc[s] \in Busy
        BY <2>4, <3>1 DEF Lookup, Busy
      <4> QED
        BY <3>1, <4>1, BehindSucceeded DEF AlreadyRun
    <3>2. CASE ~AlreadyRun(consumption[cur[s]][k[s]])
      BY <2>4, <3>2 DEF Lookup, Behind, Busy
    <3> QED
      BY <3>1, <3>2
  <2>5. CASE UpdateConsumption(s) \/ Handle(s)
             \/ (CreateConsumption(s) /\ consumption[cur[s]][k[s]] = "NONE")
    <3>1. pc[s] \in Busy /\ UNCHANGED <<cur, k, failure>>
      BY <2>5 DEF UpdateConsumption, Handle, CreateConsumption, Busy
    <3>2. cur[s] \in Events
      BY <3>1 DEF ExclusiveInv, LocalsAgree
    <3> QED
      BY <3>1, <3>2, SuccessStep DEF Behind
  <2>6. CASE CreateConsumption(s) /\ consumption[cur[s]][k[s]] # "NONE"
    <3>1. Threw(s, "TRANSIENT")
      BY <2>6 DEF CreateConsumption
    <3> QED
      BY <1>0, <3>1, ThrewFails, BehindNothing
  <2>7. CASE RecordFails(s)
    <3>1. Threw(s, "TRANSIENT")
      BY <2>7 DEF RecordFails
    <3> QED
      BY <1>0, <3>1, ThrewFails, BehindNothing
  <2>8. CASE Record(s)
    <3>1. CASE result[s] \in Recorded
      <4>1. Succeeded(s) /\ UNCHANGED cur /\ StoreConsumption(s, result[s]) /\ pc[s] = "record"
        BY <2>8, <3>1 DEF Record, RecordedAs
      <4>2. cur[s] \in Events /\ k[s] \in Consumers
        BY <4>1 DEF DeliveryInv, SweepHonest, Busy
      <4>3. consumption'[cur[s]][k[s]] = result[s]
        BY <1>0, <4>1, <4>2 DEF StoreConsumption, TypeOK
      <4> QED
        BY <3>1, <4>1, <4>3, BehindSucceeded DEF Busy
    <3>2. CASE result[s] \notin Recorded
      <4>1. Threw(s, result[s]) /\ result[s] # "NONE"
        BY <1>0, <2>8, <3>2 DEF Record, TypeOK, Outcome
      <4> QED
        BY <1>0, <4>1, ThrewFails, BehindNothing
    <3> QED
      BY <3>1, <3>2
  <2> QED
    BY <1>2, <2>1, <2>2, <2>3, <2>4, <2>5, <2>6, <2>7, <2>8 DEF SweepStep, SweepFault
<1>3. ASSUME NEW s \in Sweeps, SweepStep(s) \/ SweepFault(s), NEW t \in Sweeps PROVE Behind(t)'
  <2>1. CASE t = s
    BY <1>2, <1>3, <2>1
  <2>2. CASE t # s
    BY <1>0, <1>3, <2>2, OthersKept, BehindFrame
  <2> QED
    BY <2>1, <2>2
<1>4. CASE \/ \E e \in Events : RowStep(e)
           \/ \E o \in Operators : OperatorStep(o)
           \/ UNCHANGED vars
  <2>1. UNCHANGED local
    BY <1>4 DEF RowStep, Append, BecomeDue, LockExpires, LockOverrun, OperatorStep, OperatorRead,
       OperatorWrite, vars
  <2> QED
    BY <1>1, <2>1
<1> QED
  BY <1>3, <1>4 DEF Next

\* No row vanishes.
LEMMA NothingVanishes ==
  ASSUME TypeOK, [Next]_vars, NEW e \in Events, status[e] # "NONE"
  PROVE  status'[e] # "NONE"
<1> USE DEF TypeOK
<1>1. ASSUME NEW f \in Events, Append(f) PROVE status'[e] # "NONE"
  BY <1>1 DEF Append
<1>2. ASSUME NEW s \in Sweeps, RecoverStale(s) \/ ClaimBatch(s) PROVE status'[e] # "NONE"
  <2>1. CASE RecoverStale(s)
    BY <2>1 DEF RecoverStale, SetAll
  <2>2. CASE ClaimBatch(s)
    <3>1. PICK S : status' = SetAll(status, S, "PROCESSING")
      BY <2>2 DEF ClaimBatch
    <3> QED
      BY <3>1 DEF SetAll
  <2> QED
    BY <1>2, <2>1, <2>2
<1>3. ASSUME NEW s \in Sweeps, Finish(s) PROVE status'[e] # "NONE"
  BY <1>3 DEF Finish, Verdict
<1>4. ASSUME NEW o \in Operators, OperatorWrite(o) PROVE status'[e] # "NONE"
  BY <1>4 DEF OperatorWrite, Target
<1>5. CASE UNCHANGED status
  BY <1>5
<1> QED
  BY <1>1, <1>2, <1>3, <1>4, <1>5, ActionCases
     DEF BecomeDue, LockExpires, LockOverrun, BatchDone, RefreshSkips, Refresh, Lookup,
         CreateConsumption, UpdateConsumption, Handle, Record, RecordFails,
         MarkProcessedFails, Crash, OperatorRead, vars, rows

LEMMA RequestsExistStep ==
  ASSUME TypeOK, RequestsExist, [Next]_vars
  PROVE  RequestsExist'
<1>1. ASSUME NEW o \in Operators, oppc'[o] = "write",
             oppc[o] = "write", oprow'[o] = oprow[o]
      PROVE  oprow'[o] \in Events /\ status'[oprow'[o]] # "NONE"
  <2>1. PICK e \in Events : e = oprow[o] /\ status[e] # "NONE"
    BY <1>1 DEF RequestsExist
  <2> QED
    BY <1>1, <2>1, NothingVanishes
<1>2. ASSUME NEW p \in Operators, OperatorRead(p), NEW o \in Operators, oppc'[o] = "write"
      PROVE  oprow'[o] \in Events /\ status'[oprow'[o]] # "NONE"
  <2>1. CASE o = p
    BY <1>2, <2>1 DEF OperatorRead, TypeOK, rows
  <2>2. CASE o # p
    <3>1. oppc[o] = "write" /\ oprow'[o] = oprow[o]
      BY <1>2, <2>2 DEF OperatorRead, TypeOK
    <3> QED
      BY <1>1, <1>2, <3>1
  <2> QED
    BY <2>1, <2>2
<1>3. ASSUME NEW p \in Operators, OperatorWrite(p), NEW o \in Operators, oppc'[o] = "write"
      PROVE  oprow'[o] \in Events /\ status'[oprow'[o]] # "NONE"
  <2>1. oppc[o] = "write" /\ oprow'[o] = oprow[o]
    BY <1>3 DEF OperatorWrite, TypeOK
  <2> QED
    BY <1>1, <1>3, <2>1
<1>4. CASE UNCHANGED request
  BY <1>1, <1>4 DEF RequestsExist, request
<1> QED
  BY <1>2, <1>3, <1>4, ActionCases
     DEF RequestsExist, Append, BecomeDue, LockExpires, LockOverrun, RecoverStale, ClaimBatch,
         BatchDone, RefreshSkips, Refresh, Lookup, CreateConsumption, UpdateConsumption, Handle,
         Record, RecordFails, Finish, MarkProcessedFails, Crash, vars

LEMMA TrackedInvariant == Exclusive => (Spec => []TrackedInv)
<1> SUFFICES ASSUME Exclusive PROVE Spec => []TrackedInv
  OBVIOUS
<1> DEFINE Rest == (\A s \in Sweeps : Behind(s)) /\ RequestsExist
<1>1. Init => Rest
  BY DEF Init, Behind, RequestsExist, Busy
<1>2. ExclusiveInv /\ DeliveryInv /\ Rest /\ [Next]_vars => Rest'
  BY BehindStep, RequestsExistStep DEF ExclusiveInv
<1>3. ExclusiveInv /\ DeliveryInv /\ Rest => TrackedInv
  BY DEF TrackedInv
<1> HIDE DEF Rest
<1> QED
  BY <1>1, <1>2, <1>3, ExclusiveInvariant, DeliveryInvariant, PTL DEF Spec

\* The abstract state, as a function of the detailed one.
States == [e \in Events |-> DeliveryState(e)]

AckedBy == [e \in Events |-> {c \in Consumers : consumption[e][c] \in Recorded}]

InHand(e) == \E s \in Sweeps : cur[s] = e

\* Statuses of an event that is on its way, whoever has it in hand.
Moving == {"PENDING", "PROCESSING", "RETRY"}

LEMMA MovingIsPending ==
  ASSUME NEW e, status[e] \in Moving
  PROVE  DeliveryState(e) = "pending"
BY DEF DeliveryState, Moving, Settled

LEMMA InHandIsPending ==
  ASSUME NEW e, status[e] # "NONE", InHand(e)
  PROVE  DeliveryState(e) = "pending"
BY DEF DeliveryState, InHand

LEMMA SettledState ==
  ASSUME NEW e, status[e] \in Settled, ~InHand(e)
  PROVE  DeliveryState(e) = EndOf[status[e]]
BY DEF DeliveryState, InHand, Settled

\* An event whose row stays, or stays on its way, and that nobody takes or leaves.
LEMMA StateStays ==
  ASSUME NEW e,
         \/ status'[e] = status[e] /\ (InHand(e)' <=> InHand(e))
         \/ status[e] \in Moving /\ status'[e] \in Moving
  PROVE  DeliveryState(e)' = DeliveryState(e)
BY DEF DeliveryState, InHand, Moving, Settled

\* A step of one event.
LEMMA EnterStep ==
  ASSUME NEW e \in Events, NEW from, NEW to, DeliveryState(e) \in from,
         DeliveryState(e)' = to, \A f \in Events \ {e} : DeliveryState(f)' = DeliveryState(f),
         UNCHANGED <<delivered, consumption>>
  PROVE  Tracked!Enter(e, from, to)
<1>1. States' = [States EXCEPT ![e] = to]
  BY DEF States
<1> QED
  BY <1>1 DEF States, Tracked!Enter

\* A step that is none.
LEMMA TrackedStutter ==
  ASSUME \A f \in Events : DeliveryState(f)' = DeliveryState(f), UNCHANGED delivered,
         \A f \in Events, c \in Consumers :
           consumption'[f][c] \in Recorded <=> consumption[f][c] \in Recorded
  PROVE  UNCHANGED <<States, delivered, AckedBy>>
BY DEF States, AckedBy

\* What is true of an event in the hand of a sweep that runs its consumers.
LEMMA BusyEvent ==
  ASSUME TrackedInv, NEW s \in Sweeps, pc[s] \in Busy
  PROVE  /\ cur[s] \in Events /\ InHand(cur[s])
         /\ status[cur[s]] \in {"PROCESSING", "CANCELLED"}
         /\ DeliveryState(cur[s]) = "pending"
         /\ pc[s] # "finish" => k[s] \in Consumers
         /\ \A t \in Sweeps : cur[t] = cur[s] => t = s
<1>1. cur[s] \in Events
  BY DEF TrackedInv, ExclusiveInv, LocalsAgree
<1>2. PICK e \in Events : e = cur[s]
  BY <1>1
<1>3. Holds(s, e) /\ \A t \in Sweeps : cur[t] = e => Holds(t, e)
  BY <1>2 DEF Holds
<1>4. status[e] \in {"PROCESSING", "CANCELLED"} /\ \A t \in Sweeps : cur[t] = e => t = s
  BY <1>3 DEF TrackedInv, ExclusiveInv, HeldAlone
<1>5. InHand(e)
  BY <1>2 DEF InHand
<1>6. DeliveryState(e) = "pending"
  BY <1>4, <1>5, InHandIsPending
<1> QED
  BY <1>2, <1>4, <1>5, <1>6 DEF TrackedInv, DeliveryInv, SweepHonest

\* The step maps to one of the promised steps, or to none.
TrackedStep == Tracked!TrackedNext \/ UNCHANGED <<States, delivered, AckedBy>>

\* The first statement of a sweep and its claim, which moves rows by the set.
LEMMA SetsTracked ==
  ASSUME TrackedInv, NEW s \in Sweeps, RecoverStale(s) \/ ClaimBatch(s)
  PROVE  TrackedStep
<1>1. UNCHANGED <<cur, delivered, consumption>>
  BY DEF RecoverStale, ClaimBatch, ghosts
<1>2. \A f \in Events : \/ status'[f] = status[f]
                        \/ status[f] \in Moving /\ status'[f] \in Moving
  <2>1. CASE RecoverStale(s)
    BY <2>1 DEF RecoverStale, SetAll, StaleClaims, Moving
  <2>2. CASE ClaimBatch(s)
    <3>1. PICK S \in SUBSET {e \in Events : Claimable(e)} :
            status' = SetAll(status, S, "PROCESSING")
      BY <2>2 DEF ClaimBatch
    <3> QED
      BY <3>1 DEF SetAll, Claimable, Moving
  <2> QED
    BY <2>1, <2>2
<1>3. \A f \in Events : InHand(f)' <=> InHand(f)
  BY <1>1 DEF InHand
<1>4. \A f \in Events : DeliveryState(f)' = DeliveryState(f)
  BY <1>2, <1>3, StateStays
<1> QED
  BY <1>1, <1>4, TrackedStutter DEF TrackedStep

\* Steps that touch neither a status nor what is in hand nor a success.
LEMMA QuietTracked ==
  ASSUME UNCHANGED <<status, cur, delivered>>,
         \A f \in Events, c \in Consumers :
           consumption'[f][c] \in Recorded <=> consumption[f][c] \in Recorded
  PROVE  TrackedStep
<1>1. \A f \in Events : DeliveryState(f)' = DeliveryState(f)
  BY StateStays DEF InHand
<1> QED
  BY <1>1, TrackedStutter DEF TrackedStep

\* A consumption row that records no success before and after.
LEMMA StoreTracked ==
  ASSUME TrackedInv, NEW s \in Sweeps, pc[s] \in Busy, NEW st, st \notin Recorded,
         StoreConsumption(s, st), consumption[cur[s]][k[s]] \notin Recorded,
         UNCHANGED <<status, cur, delivered>>
  PROVE  TrackedStep
<1>1. cur[s] \in Events
  BY BusyEvent
<1>2. consumption \in [Events -> [Consumers -> ConsumptionStatus]]
  BY DEF TrackedInv, ExclusiveInv, TypeOK
<1>3. ASSUME NEW f \in Events, NEW c \in Consumers
      PROVE  consumption'[f][c] \in Recorded <=> consumption[f][c] \in Recorded
  <2>1. CASE f = cur[s] /\ c = k[s]
    BY <1>1, <1>2, <2>1 DEF StoreConsumption
  <2>2. CASE ~(f = cur[s] /\ c = k[s])
    BY <1>1, <1>2, <2>2 DEF StoreConsumption
  <2> QED
    BY <2>1, <2>2
<1> QED
  BY <1>3, QuietTracked

LEMMA AppendTracked ==
  ASSUME TrackedInv, NEW e \in Events, Append(e)
  PROVE  TrackedStep
<1>1. /\ status[e] = "NONE" /\ status'[e] = "PENDING"
      /\ \A f \in Events \ {e} : status'[f] = status[f]
      /\ UNCHANGED <<cur, delivered, consumption>>
  BY DEF Append, TrackedInv, ExclusiveInv, TypeOK, ghosts, local
<1>2. DeliveryState(e) = "absent" /\ DeliveryState(e)' = "pending"
  BY <1>1 DEF DeliveryState, Settled
<1>3. \A f \in Events \ {e} : DeliveryState(f)' = DeliveryState(f)
  BY <1>1, StateStays DEF InHand
<1>4. Tracked!Publish(e)
  BY <1>1, <1>2, <1>3, EnterStep DEF Tracked!Publish
<1> QED
  BY <1>4 DEF TrackedStep, Tracked!TrackedNext

\* A sweep takes an event into its hand.
LEMMA RefreshTracked ==
  ASSUME TrackedInv, NEW s \in Sweeps, Refresh(s)
  PROVE  TrackedStep
<1>1. PICK e \in batch[s] : status[e] = "PROCESSING" /\ cur' = [cur EXCEPT ![s] = e]
  BY DEF Refresh
<1>2. pc[s] = "next" /\ UNCHANGED <<status, delivered, consumption>>
  BY DEF Refresh, rows, ghosts
<1>3. cur[s] = NoEvent /\ cur \in [Sweeps -> Events \cup {NoEvent}]
  BY <1>2 DEF TrackedInv, ExclusiveInv, LocalsAgree, Busy, TypeOK
<1>4. ASSUME NEW f \in Events PROVE DeliveryState(f)' = DeliveryState(f)
  <2>1. CASE f = e
    BY <1>1, <1>2, <2>1, StateStays DEF Moving
  <2>2. CASE f # e
    <3>1. InHand(f)' <=> InHand(f)
      BY <1>1, <1>3, <2>2, OutboxAssumption DEF InHand
    <3> QED
      BY <1>2, <3>1, StateStays
  <2> QED
    BY <2>1, <2>2
<1> QED
  BY <1>2, <1>4, TrackedStutter DEF TrackedStep

LEMMA HandleTracked ==
  ASSUME TrackedInv, NEW s \in Sweeps, Handle(s)
  PROVE  TrackedStep
<1>1. pc[s] = "handle" /\ UNCHANGED <<status, cur, consumption>>
  BY DEF Handle, rows
<1>2. PICK e \in Events, c \in Consumers : e = cur[s] /\ c = k[s]
  BY <1>1, BusyEvent DEF Busy
<1>3. DeliveryState(e) = "pending" /\ consumption[e][c] \notin Recorded
  BY <1>1, <1>2, BusyEvent DEF Busy, TrackedInv, ExclusiveInv, Unrecorded
<1>4. \/ UNCHANGED delivered
      \/ delivered' = [delivered EXCEPT ![e] = [@ EXCEPT ![c] = delivered[e][c] + 1]]
  BY <1>2 DEF Handle
<1>5. CASE UNCHANGED delivered
  BY <1>1, <1>5, QuietTracked
<1>6. CASE delivered' = [delivered EXCEPT ![e] = [@ EXCEPT ![c] = delivered[e][c] + 1]]
  <2>1. delivered' = [delivered EXCEPT ![e] =
                        [delivered[e] EXCEPT ![c] = delivered[e][c] + 1]]
    BY <1>6
  <2>2. \A f \in Events : DeliveryState(f)' = DeliveryState(f)
    BY <1>1, StateStays DEF InHand
  <2>3. UNCHANGED <<States, AckedBy>> /\ States[e] = "pending" /\ c \notin AckedBy[e]
    BY <1>1, <1>3, <2>2 DEF States, AckedBy
  <2>4. Tracked!Deliver(e, c)
    BY <2>1, <2>3 DEF Tracked!Deliver, States, AckedBy
  <2> QED
    BY <2>4 DEF TrackedStep, Tracked!TrackedNext
<1> QED
  BY <1>4, <1>5, <1>6

LEMMA RecordTracked ==
  ASSUME TrackedInv, NEW s \in Sweeps, Record(s)
  PROVE  TrackedStep
<1>1. /\ pc[s] = "record" /\ StoreConsumption(s, RecordedAs(result[s]))
      /\ UNCHANGED <<status, cur, delivered>>
  BY DEF Record, rows, ghosts
<1>2. PICK e \in Events, c \in Consumers : e = cur[s] /\ c = k[s]
  BY <1>1, BusyEvent DEF Busy
<1>3. DeliveryState(e) = "pending" /\ consumption[e][c] \notin Recorded
  BY <1>1, <1>2, BusyEvent DEF Busy, TrackedInv, ExclusiveInv, Unrecorded
<1>4. CASE result[s] \notin Recorded
  BY <1>1, <1>2, <1>3, <1>4, StoreTracked DEF RecordedAs, Recorded, Busy
<1>5. CASE result[s] \in Recorded
  <2>1. delivered[e][c] > 0
    BY <1>1, <1>2, <1>5 DEF TrackedInv, DeliveryInv, SweepHonest, Busy
  <2>2. consumption \in [Events -> [Consumers -> ConsumptionStatus]]
    BY DEF TrackedInv, ExclusiveInv, TypeOK
  <2>3. consumption' = [consumption EXCEPT ![e] = [@ EXCEPT ![c] = result[s]]]
    BY <1>1, <1>2, <1>5 DEF StoreConsumption, RecordedAs
  <2>4. AckedBy' = [AckedBy EXCEPT ![e] = AckedBy[e] \cup {c}]
    <3>1. ASSUME NEW f \in Events, f # e PROVE AckedBy'[f] = AckedBy[f]
      BY <2>2, <2>3, <3>1 DEF AckedBy
    <3>2. AckedBy'[e] = AckedBy[e] \cup {c}
      BY <1>5, <2>2, <2>3 DEF AckedBy
    <3> QED
      BY <3>1, <3>2 DEF AckedBy
  <2>5. \A f \in Events : DeliveryState(f)' = DeliveryState(f)
    BY <1>1, StateStays DEF InHand
  <2>6. UNCHANGED <<States, delivered>> /\ States[e] = "pending"
    BY <1>1, <1>3, <2>5 DEF States
  <2>7. Tracked!Acknowledge(e, c)
    BY <2>1, <2>4, <2>6 DEF Tracked!Acknowledge, States, AckedBy
  <2> QED
    BY <2>7 DEF TrackedStep, Tracked!TrackedNext
<1> QED
  BY <1>4, <1>5

\* The verdict on an event, when nobody else has it in hand.
LEMMA FinishTracked ==
  ASSUME TrackedInv, NEW s \in Sweeps, Finish(s)
  PROVE  TrackedStep
<1>1. pc[s] = "finish" /\ UNCHANGED <<delivered, consumption>>
  BY DEF Finish, ghosts
<1>2. PICK e \in Events : e = cur[s]
  BY <1>1, BusyEvent DEF Busy
<1>3. DeliveryState(e) = "pending" /\ \A t \in Sweeps : cur[t] = e => t = s
  BY <1>1, <1>2, BusyEvent DEF Busy
<1>4. /\ status'[e] = Verdict(s) /\ cur' = [cur EXCEPT ![s] = NoEvent]
      /\ \A f \in Events \ {e} : status'[f] = status[f]
      /\ cur \in [Sweeps -> Events \cup {NoEvent}]
  BY <1>2 DEF Finish, Forget, TrackedInv, ExclusiveInv, TypeOK
<1>5. ~InHand(e)' /\ \A f \in Events \ {e} : InHand(f)' <=> InHand(f)
  BY <1>2, <1>3, <1>4, OutboxAssumption DEF InHand
<1>6. \A f \in Events \ {e} : DeliveryState(f)' = DeliveryState(f)
  BY <1>4, <1>5, StateStays
<1>7. CASE Verdict(s) = "PROCESSED"
  <2>1. failure[s] = "NONE"
    BY <1>7 DEF Verdict
  <2>2. \A c \in Consumers : consumption[e][c] \in Recorded
    BY <1>1, <1>2, <2>1, OutboxAssumption
       DEF TrackedInv, Behind, DeliveryInv, SweepHonest, Busy, Consumers
  <2>3. DeliveryState(e)' = "delivered"
    BY <1>4, <1>5, <1>7 DEF DeliveryState, InHand, Settled, EndOf
  <2>4. AckedBy[e] = Consumers
    BY <2>2 DEF AckedBy
  <2>5. Tracked!Succeed(e)
    BY <1>1, <1>3, <1>6, <2>3, <2>4, EnterStep DEF Tracked!Succeed, AckedBy
  <2> QED
    BY <2>5 DEF TrackedStep, Tracked!TrackedNext
<1>8. CASE Verdict(s) = "DEAD_LETTER"
  <2>1. DeliveryState(e)' = "abandoned"
    BY <1>4, <1>5, <1>8 DEF DeliveryState, InHand, Settled, EndOf
  <2>2. Tracked!Abandon(e)
    BY <1>1, <1>3, <1>6, <2>1, EnterStep DEF Tracked!Abandon
  <2> QED
    BY <2>2 DEF TrackedStep, Tracked!TrackedNext
<1>9. CASE Verdict(s) = "RETRY"
  <2>1. DeliveryState(e)' = "pending"
    BY <1>4, <1>9 DEF DeliveryState, Settled
  <2> QED
    BY <1>1, <1>3, <1>6, <2>1, TrackedStutter DEF TrackedStep
<1> QED
  BY <1>7, <1>8, <1>9 DEF Verdict

\* A crash lets go of what was in hand: a cancellation that came meanwhile stands.
LEMMA CrashTracked ==
  ASSUME TrackedInv, NEW s \in Sweeps, Crash(s)
  PROVE  TrackedStep
<1>1. /\ UNCHANGED <<status, delivered, consumption>>
      /\ cur' = [cur EXCEPT ![s] = NoEvent] /\ cur \in [Sweeps -> Events \cup {NoEvent}]
  BY DEF Crash, Forget, rows, ghosts, TrackedInv, ExclusiveInv, TypeOK
<1>2. CASE pc[s] \notin Busy
  <2>1. cur[s] = NoEvent
    BY <1>2 DEF TrackedInv, ExclusiveInv, LocalsAgree
  <2>2. UNCHANGED cur
    BY <1>1, <2>1
  <2> QED
    BY <1>1, <2>2, QuietTracked
<1>3. CASE pc[s] \in Busy
  <2>1. PICK e \in Events : e = cur[s]
    BY <1>3, BusyEvent
  <2>2. /\ DeliveryState(e) = "pending" /\ status[e] \in {"PROCESSING", "CANCELLED"}
        /\ \A t \in Sweeps : cur[t] = e => t = s
    BY <1>3, <2>1, BusyEvent
  <2>3. ~InHand(e)' /\ \A f \in Events \ {e} : InHand(f)' <=> InHand(f)
    BY <1>1, <2>1, <2>2, OutboxAssumption DEF InHand
  <2>4. \A f \in Events \ {e} : DeliveryState(f)' = DeliveryState(f)
    BY <1>1, <2>3, StateStays
  <2>5. CASE status[e] = "PROCESSING"
    <3>1. DeliveryState(e)' = DeliveryState(e)
      BY <1>1, <2>5, StateStays DEF Moving
    <3> QED
      BY <1>1, <2>4, <3>1, TrackedStutter DEF TrackedStep
  <2>6. CASE status[e] = "CANCELLED"
    <3>1. DeliveryState(e)' = "withdrawn"
      BY <1>1, <2>3, <2>6 DEF DeliveryState, InHand, Settled, EndOf
    <3>2. Tracked!Withdraw(e)
      BY <1>1, <2>2, <2>4, <3>1, EnterStep DEF Tracked!Withdraw
    <3> QED
      BY <3>2 DEF TrackedStep, Tracked!TrackedNext
  <2> QED
    BY <2>2, <2>5, <2>6
<1> QED
  BY <1>2, <1>3

LEMMA OperatorWriteTracked ==
  ASSUME TrackedInv, NEW o \in Operators, OperatorWrite(o)
  PROVE  TrackedStep
<1>1. PICK e \in Events : e = oprow[o] /\ status[e] # "NONE"
  BY DEF OperatorWrite, TrackedInv, RequestsExist
<1>2. /\ UNCHANGED <<cur, delivered, consumption>> /\ status'[e] = "CANCELLED"
      /\ \A f \in Events \ {e} : status'[f] = status[f]
  BY <1>1 DEF OperatorWrite, Target, TrackedInv, ExclusiveInv, OnlyCancels, TypeOK, local, ghosts
<1>3. \A f \in Events : InHand(f)' <=> InHand(f)
  BY <1>2 DEF InHand
<1>4. \A f \in Events \ {e} : DeliveryState(f)' = DeliveryState(f)
  BY <1>2, <1>3, StateStays
<1>5. CASE InHand(e)
  <2>1. DeliveryState(e) = "pending" /\ DeliveryState(e)' = "pending"
    BY <1>1, <1>2, <1>3, <1>5, InHandIsPending DEF DeliveryState, InHand
  <2> QED
    BY <1>2, <1>4, <2>1, TrackedStutter DEF TrackedStep
<1>6. CASE ~InHand(e)
  <2>1. DeliveryState(e)' = "withdrawn"
    BY <1>2, <1>3, <1>6 DEF DeliveryState, InHand, Settled, EndOf
  <2>2. CASE status[e] = "CANCELLED"
    <3>1. DeliveryState(e) = "withdrawn"
      BY <1>6, <2>2, SettledState DEF Settled, EndOf
    <3> QED
      BY <1>2, <1>4, <2>1, <3>1, TrackedStutter DEF TrackedStep
  <2>3. CASE status[e] # "CANCELLED"
    <3>1. DeliveryState(e) \in {"pending", "delivered", "abandoned"}
      BY <1>1, <2>3 DEF DeliveryState, Settled, EndOf
    <3>2. Tracked!Withdraw(e)
      BY <1>2, <1>4, <2>1, <3>1, EnterStep DEF Tracked!Withdraw
    <3> QED
      BY <3>2 DEF TrackedStep, Tracked!TrackedNext
  <2> QED
    BY <2>2, <2>3
<1> QED
  BY <1>5, <1>6

LEMMA StepTracked ==
  ASSUME TrackedInv, [Next]_vars
  PROVE  TrackedStep
<1>1. ASSUME NEW s \in Sweeps, CreateConsumption(s) \/ UpdateConsumption(s)
      PROVE  TrackedStep
  <2>1. UNCHANGED <<status, cur, delivered>> /\ pc[s] \in Busy
    BY <1>1 DEF CreateConsumption, UpdateConsumption, rows, ghosts, Busy
  <2>2. \/ UNCHANGED consumption
        \/ /\ StoreConsumption(s, "PROCESSING")
           /\ pc[s] = "update" \/ consumption[cur[s]][k[s]] = "NONE"
    BY <1>1 DEF CreateConsumption, UpdateConsumption
  <2>3. pc[s] = "update" => consumption[cur[s]][k[s]] \notin Recorded
    BY BusyEvent DEF Busy, TrackedInv, ExclusiveInv, Unrecorded
  <2>4. CASE UNCHANGED consumption
    BY <2>1, <2>4, QuietTracked
  <2>5. CASE consumption # consumption'
    BY <2>1, <2>2, <2>3, <2>5, StoreTracked DEF Recorded
  <2> QED
    BY <2>4, <2>5
<1>2. ASSUME NEW s \in Sweeps, RecordFails(s) PROVE TrackedStep
  <2>1. /\ pc[s] = "record" /\ StoreConsumption(s, "FAILED")
        /\ UNCHANGED <<status, cur, delivered>>
    BY <1>2 DEF RecordFails, rows, ghosts
  <2>2. consumption[cur[s]][k[s]] \notin Recorded
    BY <2>1, BusyEvent DEF Busy, TrackedInv, ExclusiveInv, Unrecorded
  <2> QED
    BY <2>1, <2>2, StoreTracked DEF Recorded, Busy
<1>3. CASE UNCHANGED <<status, cur, delivered, consumption>>
  BY <1>3, QuietTracked
<1> QED
  BY <1>1, <1>2, <1>3, ActionCases, AppendTracked, SetsTracked, RefreshTracked, HandleTracked,
     RecordTracked, FinishTracked, CrashTracked, OperatorWriteTracked
     DEF BecomeDue, LockExpires, LockOverrun, BatchDone, RefreshSkips, Lookup,
         MarkProcessedFails, OperatorRead, vars, rows, local, ghosts

\* While no lock expires under a running sweep and nobody retries by hand, the outbox
\* implements TrackedDelivery: each consumer gets an event until its success is recorded
\* and not again, PROCESSED means that all successes are, and nothing is delivered once
\* the event is over, whatever sweeps overlap and crash.
THEOREM OutboxTracksDelivery == Exclusive => (Spec => OutboxIsTracked)
<1> SUFFICES ASSUME Exclusive PROVE Spec => OutboxIsTracked
  OBVIOUS
<1>1. Init => Tracked!TrackedInit
  BY DEF Init, Tracked!TrackedInit, DeliveryState, Recorded
<1>2. TrackedInv /\ [Next]_vars =>
        [Tracked!TrackedNext]_<<[e \in Events |-> DeliveryState(e)], delivered,
           [e \in Events |-> {c \in Consumers : consumption[e][c] \in Recorded}]>>
  BY StepTracked DEF TrackedStep, States, AckedBy
<1> QED
  BY <1>1, <1>2, TrackedInvariant, PTL DEF Spec, OutboxIsTracked, Tracked!TrackedSpec
=============================================================================
