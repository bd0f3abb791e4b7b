---------------------- MODULE PublishingDispatchProofs ----------------------
(* Type correctness of PublishingDispatch, and its guarantees about the post, *)
(* for any number of sweeps and requests and any bounds.                      *)
EXTENDS PublishingDispatch, TLAPS

USE PublishingAssumption
USE DEF job, people, ghosts, Goto, Answering, Use, Event, Store

-----------------------------------------------------------------------------
(* Type correctness *)

LEMMA TypeInit == Init => TypeOK
<1> SUFFICES ASSUME Init PROVE TypeOK
  OBVIOUS
<1>1. status \in Status /\ approval \in {"NONE", "PENDING", "APPROVED", "REJECTED"}
  BY DEF Init, Status, Queued
<1>2. used \in [{"requests", "faults", "events"} -> Nat]
  BY DEF Init
<1> QED
  BY <1>1, <1>2 DEF Init, TypeOK, ExternalOutcome, SweepPC, OperatorPC, Flight

LEMMA ConcludedType ==
  ASSUME NEW p, NEW f \in Flight \ {"none"}, NEW a \in Answers(f)
  PROVE  /\ Concluded(p, a) \in {"recheck", "record", "fail", "reconcile"}
         /\ Concluded(p, a) \in {"recheck", "record"} => f = "accepted"
BY DEF Concluded, Answers, Flight

\* Every step of a sweep keeps the types.
LEMMA DispatchType ==
  ASSUME TypeOK, NEW s \in Sweeps, Dispatch(s) PROVE TypeOK'
<1> USE DEF TypeOK, SweepPC, Status, ExternalOutcome
<1>1. CASE Look(s)
  BY <1>1 DEF Look
<1>2. CASE Claim(s)
  BY <1>2 DEF Claim
<1>3. CASE Check(s)
  BY <1>3 DEF Check
<1>4. CASE Call(s)
  BY <1>4 DEF Call, Flight
<1>5. CASE Answer(s)
  BY <1>5, ConcludedType DEF Answer, Goto
<1>6. CASE Timeout(s)
  BY <1>6 DEF Timeout
<1>7. CASE Recheck(s)
  BY <1>7 DEF Recheck
<1>8. CASE Record(s)
  <2>1. status' \in Status /\ outcome' \in ExternalOutcome /\ pc' \in [Sweeps -> SweepPC]
    BY <1>8 DEF Record, StorePublished
  <2>2. postId' \in BOOLEAN
    BY <1>8, Zenon DEF Record, StorePublished
  <2> QED
    BY <1>8, <2>1, <2>2 DEF Record
<1>9. CASE MarkFailed(s)
  BY <1>9 DEF MarkFailed
<1>10. CASE MarkReconciliation(s)
  BY <1>10 DEF MarkReconciliation
<1>11. CASE Throw(s)
  BY <1>11 DEF Throw
<1>12. CASE Crash(s)
  BY <1>12 DEF Crash
<1> QED
  BY <1>1, <1>2, <1>3, <1>4, <1>5, <1>6, <1>7, <1>8, <1>9, <1>10, <1>11, <1>12
  DEF Dispatch

\* Every step of a request keeps the types.
LEMMA AskType ==
  ASSUME TypeOK, NEW o \in Operators, Ask(o) PROVE TypeOK'
<1> USE DEF TypeOK, OperatorPC, Status, ExternalOutcome
<1>1. CASE Request(o)
  BY <1>1 DEF Request, Writes, Kinds
<1>2. CASE Approve(o)
  BY <1>2 DEF Approve, Queued
<1>3. CASE Reject(o)
  BY <1>3 DEF Reject
<1>4. CASE RejectRequest(o)
  BY <1>4 DEF RejectRequest
<1>5. CASE Cancel(o)
  BY <1>5 DEF Cancel
<1>6. CASE Confirm(o)
  BY <1>6 DEF Confirm, StorePublished
<1>7. CASE Deny(o)
  BY <1>7 DEF Deny, StoreFailed
<1>8. CASE Stamp(o)
  BY <1>8 DEF Stamp
<1> QED
  BY <1>1, <1>2, <1>3, <1>4, <1>5, <1>6, <1>7, <1>8 DEF Ask

LEMMA TypeStep == TypeOK /\ [Next]_vars => TypeOK'
<1> SUFFICES ASSUME TypeOK, [Next]_vars PROVE TypeOK'
  OBVIOUS
<1>1. ASSUME NEW s \in Sweeps, Decide(s) PROVE TypeOK'
  <2>1. /\ flight' \in [Sweeps -> Flight]
        /\ posts' \in Nat
    BY <1>1 DEF Decide, TypeOK, Flight
  <2>2. live' \in BOOLEAN
    BY <1>1, Zenon DEF Decide, TypeOK
  <2> QED
    BY <1>1, <2>1, <2>2 DEF Decide, TypeOK
<1>2. CASE BecomeDue
  BY <1>2 DEF BecomeDue, TypeOK
<1>3. CASE Delete
  <2>1. used' \in [{"requests", "faults", "events"} -> Nat]
    BY <1>3 DEF Delete, TypeOK
  <2>2. live' \in BOOLEAN
    BY <1>3, Zenon DEF Delete
  <2> QED
    BY <1>3, <2>1, <2>2 DEF Delete, TypeOK
<1>4. CASE Webhook
  <2>1. used' \in [{"requests", "faults", "events"} -> Nat]
    BY <1>4 DEF Webhook, TypeOK
  <2>2. status' \in Status /\ outcome' \in ExternalOutcome /\ postId' \in BOOLEAN
    BY <1>4 DEF Webhook, TypeOK, StorePublished, StoreFailed, StoreUncertain, Status,
                ExternalOutcome
  <2> QED
    BY <1>4, <2>1, <2>2 DEF Webhook, TypeOK
<1>5. CASE UNCHANGED vars
  BY <1>5 DEF vars, TypeOK
<1> QED
  BY <1>1, <1>2, <1>3, <1>4, <1>5, DispatchType, AskType DEF Next

\* The job, the sweeps, the requests and the platform keep their types.
THEOREM PublishingTypeCorrect == Spec => []TypeOK
BY TypeInit, TypeStep, PTL DEF Spec

-----------------------------------------------------------------------------
(* One claim, one call, one post *)

\* Nobody has claimed the job yet, and somebody still may.
Untouched == status \in Dispatchable \cup {"PENDING_APPROVAL"}

\* The sweep has not claimed the job, or is through with it.
Outside(s) == pc[s] \in {"idle", "claim"}

Nothing == calls = 0 /\ \A s \in Sweeps : Outside(s)

\* Before the claim nothing has happened; after a withdrawal nothing will.
ClaimInv == (Untouched => Nothing) /\ (withdrawn => ~Untouched /\ Nothing)

\* One sweep dispatches the job, and makes its call last.
OneDispatch ==
  /\ \A s, t \in Sweeps : ~Outside(s) /\ ~Outside(t) => s = t
  /\ \A s \in Sweeps : pc[s] \in {"check", "call"} => calls = 0

\* One call is ever on its way, and nothing is posted while it is.
OneFlight ==
  /\ calls = 0 => posts = 0 /\ \A s \in Sweeps : flight[s] = "none"
  /\ \A s \in Sweeps : flight[s] = "out" => posts = 0
  /\ \A s, t \in Sweeps : flight[s] # "none" /\ flight[t] # "none" => s = t
  /\ posts =< 1

\* What speaks for a post follows from a post.
EvidenceInv ==
  /\ status = "PUBLISHED" \/ outcome = "CONFIRMED" \/ postId \/ live => posts > 0
  /\ \A s \in Sweeps : pc[s] \in {"recheck", "record"} \/ flight[s] = "accepted" => posts > 0
  /\ \A o \in Operators : oppc[o] = "confirm" => posts > 0

PostInv == TypeOK /\ ClaimInv /\ OneDispatch /\ OneFlight /\ EvidenceInv

LEMMA PostInit == Init => PostInv
BY TypeInit DEF Init, PostInv, ClaimInv, Nothing, Outside, OneDispatch, OneFlight, EvidenceInv,
                Queued

\* A claim of an untouched job is the first one.
LEMMA ClaimStep ==
  ASSUME PostInv, NEW s \in Sweeps, Claim(s)
  PROVE  ClaimInv' /\ OneDispatch' /\ OneFlight' /\ EvidenceInv'
<1>1. CASE Claimable
  <2>1. Untouched /\ Nothing
    BY <1>1 DEF PostInv, ClaimInv, Untouched, Claimable
  <2>2. ~Untouched' /\ ~withdrawn'
    BY <1>1, <2>1 DEF PostInv, ClaimInv, Claim, Untouched, Dispatchable
  <2>3. /\ pc'[s] = "check" /\ \A t \in Sweeps \ {s} : pc'[t] = pc[t]
        /\ calls' = 0
    BY <1>1, <2>1 DEF Claim, PostInv, TypeOK, Nothing
  <2> QED
    BY <1>1, <2>1, <2>2, <2>3
    DEF Claim, PostInv, ClaimInv, OneDispatch, OneFlight, EvidenceInv, Nothing, Outside
<1>2. CASE ~Claimable
  BY <1>2 DEF Claim, PostInv, TypeOK, ClaimInv, OneDispatch, OneFlight, EvidenceInv, Nothing,
              Outside, Untouched
<1> QED
  BY <1>1, <1>2

\* The call of the one dispatch is the first one.
LEMMA CallStep ==
  ASSUME PostInv, NEW s \in Sweeps, Call(s)
  PROVE  ClaimInv' /\ OneDispatch' /\ OneFlight' /\ EvidenceInv'
<1>1. calls = 0 /\ calls' = 1 /\ posts' = 0 /\ ~Untouched /\ ~withdrawn
  BY DEF Call, PostInv, ClaimInv, OneDispatch, OneFlight, Nothing, Outside
<1>2. /\ \A t \in Sweeps \ {s} : pc'[t] = pc[t] /\ flight'[t] = "none" /\ Outside(t)
      /\ pc'[s] = "await" /\ flight'[s] = "out"
  BY <1>1 DEF Call, PostInv, TypeOK, OneDispatch, OneFlight, Outside
<1> QED
  BY <1>1, <1>2 DEF Call, PostInv, ClaimInv, OneDispatch, OneFlight, EvidenceInv, Nothing,
                    Outside, Untouched

\* The provider decides once.
LEMMA DecideStep ==
  ASSUME PostInv, NEW s \in Sweeps, Decide(s)
  PROVE  ClaimInv' /\ OneDispatch' /\ OneFlight' /\ EvidenceInv'
<1>1. posts = 0 /\ calls # 0
  BY DEF Decide, PostInv, OneFlight
<1>2. /\ \A t \in Sweeps \ {s} : flight'[t] = "none"
      /\ flight'[s] \in {"accepted", "refused"}
      /\ posts' \in {0, 1} /\ flight'[s] = "accepted" => posts' = 1
      /\ live' => posts' = 1 \/ live
  BY <1>1 DEF Decide, PostInv, TypeOK, OneFlight
<1> QED
  BY <1>1, <1>2 DEF Decide, PostInv, ClaimInv, OneDispatch, OneFlight, EvidenceInv, Nothing,
                    Outside, Untouched

\* Every other step of a sweep leaves calls and posts alone and makes no job untouched.
LEMMA DispatchStep ==
  ASSUME PostInv, NEW s \in Sweeps, Dispatch(s)
  PROVE  ClaimInv' /\ OneDispatch' /\ OneFlight' /\ EvidenceInv'
<1> USE DEF PostInv, TypeOK, ClaimInv, OneDispatch, OneFlight, EvidenceInv, Nothing, Outside,
            Untouched, Dispatchable
<1>1. CASE Look(s)
  BY <1>1 DEF Look
<1>2. CASE Check(s)
  BY <1>2 DEF Check
<1>3. CASE Answer(s)
  BY <1>3, ConcludedType DEF Answer, Goto
<1>4. CASE Timeout(s)
  BY <1>4 DEF Timeout
<1>5. CASE Recheck(s)
  BY <1>5 DEF Recheck
<1>6. CASE Record(s)
  BY <1>6 DEF Record, StorePublished
<1>7. CASE MarkFailed(s)
  BY <1>7 DEF MarkFailed
<1>8. CASE MarkReconciliation(s)
  BY <1>8 DEF MarkReconciliation
<1>9. CASE Throw(s)
  BY <1>9 DEF Throw
<1>10. CASE Crash(s)
  BY <1>10 DEF Crash
<1> QED
  BY <1>1, <1>2, <1>3, <1>4, <1>5, <1>6, <1>7, <1>8, <1>9, <1>10, ClaimStep, CallStep
  DEF Dispatch

\* People approve only what is pending, and withdraw only what nobody has claimed.
LEMMA AskStep ==
  ASSUME PostInv, NEW o \in Operators, Ask(o)
  PROVE  ClaimInv' /\ OneDispatch' /\ OneFlight' /\ EvidenceInv'
<1> USE DEF PostInv, TypeOK, ClaimInv, OneDispatch, OneFlight, EvidenceInv, Nothing, Outside,
            Untouched, Dispatchable
<1>1. CASE Request(o)
  BY <1>1 DEF Request, Writes, Allowed
<1>2. CASE Approve(o)
  BY <1>2 DEF Approve, StillPending, Queued
<1>3. CASE Reject(o)
  BY <1>3 DEF Reject, StillPending
<1>4. CASE RejectRequest(o)
  BY <1>4 DEF RejectRequest
<1>5. CASE Cancel(o)
  BY <1>5 DEF Cancel
<1>6. CASE Confirm(o)
  BY <1>6 DEF Confirm, StorePublished
<1>7. CASE Deny(o)
  BY <1>7 DEF Deny, StoreFailed
<1>8. CASE Stamp(o)
  BY <1>8 DEF Stamp
<1> QED
  BY <1>1, <1>2, <1>3, <1>4, <1>5, <1>6, <1>7, <1>8 DEF Ask

LEMMA PostStep == PostInv /\ [Next]_vars => PostInv'
<1> SUFFICES ASSUME PostInv, [Next]_vars
             PROVE  ClaimInv' /\ OneDispatch' /\ OneFlight' /\ EvidenceInv'
  BY TypeStep DEF PostInv
<1> USE DEF PostInv, TypeOK, ClaimInv, OneDispatch, OneFlight, EvidenceInv, Nothing, Outside,
            Untouched, Dispatchable
<1>1. CASE BecomeDue
  BY <1>1 DEF BecomeDue
<1>2. CASE Delete
  BY <1>2 DEF Delete
<1>3. CASE Webhook
  BY <1>3 DEF Webhook, StorePublished, StoreFailed, StoreUncertain
<1>4. CASE UNCHANGED vars
  BY <1>4 DEF vars
<1> QED
  BY <1>1, <1>2, <1>3, <1>4, DispatchStep, DecideStep, AskStep DEF Next

LEMMA PostCorrect == Spec => []PostInv
BY PostInit, PostStep, PTL DEF Spec

\* However many sweeps overlap, crash and time out, the provider accepts one post per job.
THEOREM PostsOnce == Spec => []PostedOnce
<1>1. PostInv => PostedOnce
  BY DEF PostInv, OneFlight, PostedOnce
<1> QED
  BY <1>1, PostCorrect, PTL

\* Nothing is published or confirmed that the provider has not accepted.
THEOREM PublishedCorrect == Spec => []PublishedMeansPosted
<1>1. PostInv => PublishedMeansPosted
  BY DEF PostInv, EvidenceInv, PublishedMeansPosted
<1> QED
  BY <1>1, PostCorrect, PTL

\* A job that was rejected or cancelled before a claim is never sent.
THEOREM WithdrawnCorrect == Spec => []WithdrawnNeverSent
<1>1. PostInv => WithdrawnNeverSent
  BY DEF PostInv, ClaimInv, Nothing, WithdrawnNeverSent
<1> QED
  BY <1>1, PostCorrect, PTL

-----------------------------------------------------------------------------
(* Confirmations and failures *)

\* A confirmation is written over by stampNote alone: the conditional updates ask for an
\* outcome that is open, and a rejection for a job that nobody has claimed.
THEOREM ConfirmationsStay == Spec => ConfirmedStays
<1>1. ASSUME PostInv, [Next]_vars, outcome = "CONFIRMED", \A o \in Operators : oppc[o] # "stamp"
      PROVE  outcome' = "CONFIRMED"
  <2> USE <1>1
  <2>1. posts > 0 /\ posts \in Nat /\ ~Untouched
    BY DEF PostInv, TypeOK, EvidenceInv, ClaimInv, Nothing, OneFlight
  <2>2. ~OpenOutcome /\ ~StillPending /\ ~Claimable
    BY <2>1 DEF OpenOutcome, StillPending, Claimable, Untouched
  <2>3. ASSUME NEW s \in Sweeps, Dispatch(s) PROVE outcome' = "CONFIRMED"
    BY <2>2, <2>3 DEF Dispatch, Look, Claim, Check, Call, Answer, Timeout, Recheck, Record,
                      MarkFailed, MarkReconciliation, Throw, Crash, StorePublished
  <2>4. ASSUME NEW o \in Operators, Ask(o) PROVE outcome' = "CONFIRMED"
    BY <2>2, <2>4 DEF Ask, Request, Approve, Reject, RejectRequest, Cancel, Confirm, Deny, Stamp,
                      StorePublished, StoreFailed
  <2>5. ASSUME BecomeDue \/ Delete \/ Webhook \/ (\E s \in Sweeps : Decide(s)) \/ UNCHANGED vars
        PROVE  outcome' = "CONFIRMED"
    BY <2>2, <2>5 DEF BecomeDue, Delete, Webhook, Decide, vars, StorePublished, StoreFailed,
                      StoreUncertain
  <2> QED
    BY <2>3, <2>4, <2>5 DEF Next
<1>2. PostInv /\ [Next]_vars
        => [outcome = "CONFIRMED" /\ (\A o \in Operators : oppc[o] # "stamp")
              => outcome' = "CONFIRMED"]_vars
  BY <1>1
<1> QED
  BY <1>2, PostCorrect, PTL DEF Spec, ConfirmedStays

\* The post is not on the platform, and no call is left that could bring it there.
Settled == ~live /\ \A s \in Sweeps : flight[s] # "out"

\* The native path, and every plain error was a refusal.
Plain == path = "native" /\ ~misled

\* Whoever is about to write FAILED knows that the post is settled: a dispatch because no
\* call was made or the provider refused it, a lookup because the post was there and is gone.
\* What is on the platform came by a call.
FailInv ==
  /\ live => \E s \in Sweeps : flight[s] = "accepted"
  /\ \A o \in Operators : oppc[o] = "deny" => posts > 0 /\ ~live
  /\ outcome = "FAILED" => \A s \in Sweeps : pc[s] \notin {"check", "call"}
  /\ Plain => /\ outcome = "FAILED" => Settled
              /\ \A s \in Sweeps : pc[s] = "fail" => Settled

LEMMA FailInit == Init => FailInv
BY DEF Init, FailInv

\* On the native path an answer fails the dispatch only if it is a plain error.
LEMMA FailMeansError ==
  ASSUME NEW f \in Flight \ {"none"}, NEW a \in Answers(f), Concluded("native", a) = "fail"
  PROVE  a = "error"
BY DEF Concluded, Answers, Flight

\* What a dispatch inside its claim knows: the job was claimed, and no other sweep is inside.
LEMMA InsideAlone ==
  ASSUME PostInv, NEW s \in Sweeps, ~Outside(s)
  PROVE  /\ \A t \in Sweeps \ {s} : Outside(t)
         /\ ~Untouched /\ ~withdrawn
BY DEF PostInv, OneDispatch, ClaimInv, Nothing

LEMMA FailDispatch ==
  ASSUME PostInv, FailInv, NEW s \in Sweeps, Dispatch(s)
  PROVE  FailInv'
<1> USE DEF PostInv, TypeOK
<1>1. CASE Look(s)
  BY <1>1 DEF Look, FailInv, Plain, Settled
<1>2. CASE Claim(s)
  <2>1. outcome' = "FAILED" => outcome = "FAILED" /\ ~Claimable
    BY <1>2 DEF Claim
  <2>2. UNCHANGED <<posts, live, oppc, path, flight, misled>>
        /\ \A t \in Sweeps : pc'[t] = "fail" => pc[t] = "fail"
    BY <1>2 DEF Claim
  <2>3. ~Claimable => \A t \in Sweeps : pc'[t] \in {"check", "call"} => pc[t] \in {"check", "call"}
    BY <1>2 DEF Claim
  <2> QED
    BY <2>1, <2>2, <2>3 DEF FailInv, Plain, Settled
<1>3. CASE Check(s)
  <2>1. UNCHANGED <<outcome, posts, live, oppc, path, flight, misled>> /\ pc[s] = "check"
        /\ \A t \in Sweeps \ {s} : pc'[t] = pc[t]
    BY <1>3 DEF Check
  <2>2. \A t \in Sweeps : flight[t] = "none"
    BY <2>1 DEF OneDispatch, OneFlight
  <2>3. ~live
    BY <2>1 DEF OneDispatch, OneFlight, EvidenceInv
  <2> QED
    BY <2>1, <2>2, <2>3 DEF FailInv, Plain, Settled
<1>4. CASE Call(s)
  <2>1. pc[s] = "call" /\ calls = 0 /\ posts = 0 /\ outcome # "FAILED"
    BY <1>4 DEF Call, OneDispatch, OneFlight, FailInv
  <2>2. \A t \in Sweeps \ {s} : Outside(t)
    BY <2>1, InsideAlone DEF Outside
  <2>3. /\ UNCHANGED <<outcome, posts, live, oppc>>
        /\ pc'[s] = "await" /\ \A t \in Sweeps \ {s} : pc'[t] = pc[t]
    BY <1>4 DEF Call
  <2>4. \A t \in Sweeps : pc'[t] \notin {"check", "call", "fail"}
    BY <2>2, <2>3 DEF Outside
  <2>5. ~live
    BY <2>1 DEF EvidenceInv
  <2> QED
    BY <2>1, <2>3, <2>4, <2>5 DEF FailInv
<1>5. CASE Answer(s)
  <2>1. PICK a \in Answers(flight[s]) :
          /\ pc' = [pc EXCEPT ![s] = Concluded(path, a)]
          /\ misled' = (misled \/ (a = "error" /\ flight[s] # "refused"))
    BY <1>5 DEF Answer, Goto
  <2>2. /\ UNCHANGED <<outcome, posts, live, oppc, path, flight>>
        /\ flight[s] \in Flight \ {"none"}
        /\ \A t \in Sweeps \ {s} : pc'[t] = pc[t]
        /\ pc'[s] = Concluded(path, a)
    BY <1>5, <2>1 DEF Answer
  <2>3. pc'[s] \notin {"check", "call"}
    BY <2>1, <2>2, ConcludedType
  <2>5. Plain' => Plain
    BY <2>1, <2>2 DEF Plain
  <2>4. ASSUME Plain', pc'[s] = "fail" PROVE Settled
    <3>0. Plain
      BY <2>4, <2>5
    <3>3. a = "error"
      BY <2>1, <2>2, <2>4, <3>0, FailMeansError DEF Plain
    <3>1. flight[s] = "refused"
      BY <2>1, <2>4, <3>3 DEF Plain
    <3>2. \A t \in Sweeps : flight[t] # "none" => t = s
      BY <3>1 DEF OneFlight
    <3>4. ~live
      BY <3>1, <3>2 DEF FailInv
    <3> QED
      BY <3>1, <3>2, <3>4 DEF Settled
  <2>6. Settled' <=> Settled
    BY <2>2 DEF Settled
  <2> QED
    BY <2>2, <2>3, <2>4, <2>5, <2>6 DEF FailInv
<1>6. CASE Timeout(s) \/ Recheck(s) \/ Throw(s) \/ Crash(s)
  <2>1. UNCHANGED <<outcome, posts, live, oppc, path, flight, misled>>
        /\ \A t \in Sweeps : pc'[t] \in {"check", "call", "fail"} => pc'[t] = pc[t]
    BY <1>6 DEF Timeout, Recheck, Throw, Crash
  <2> QED
    BY <2>1 DEF FailInv, Plain, Settled
<1>7. CASE Record(s) \/ MarkReconciliation(s)
  <2>1. UNCHANGED <<posts, live, oppc, path, flight, misled>>
        /\ (outcome' = "FAILED" => outcome = "FAILED")
        /\ \A t \in Sweeps : pc'[t] \in {"check", "call", "fail"} => pc'[t] = pc[t]
    BY <1>7 DEF Record, MarkReconciliation, StorePublished
  <2> QED
    BY <2>1 DEF FailInv, Plain, Settled
<1>8. CASE MarkFailed(s)
  <2>1. UNCHANGED <<posts, live, oppc, path, flight, misled>> /\ pc[s] = "fail" /\ pc'[s] = "idle"
        /\ \A t \in Sweeps \ {s} : pc'[t] = pc[t]
    BY <1>8 DEF MarkFailed
  <2>2. \A t \in Sweeps : pc'[t] \notin {"check", "call"}
    BY <2>1, InsideAlone DEF Outside
  <2> QED
    BY <2>1, <2>2 DEF FailInv, Plain, Settled
<1> QED
  BY <1>1, <1>2, <1>3, <1>4, <1>5, <1>6, <1>7, <1>8 DEF Dispatch

LEMMA FailAsk ==
  ASSUME PostInv, FailInv, NEW o \in Operators, Ask(o)
  PROVE  FailInv'
<1> USE DEF PostInv, TypeOK
<1>1. CASE Request(o)
  <2>1. UNCHANGED <<outcome, posts, live, pc, path, flight, misled>>
        /\ \A p \in Operators : oppc'[p] = "deny" => oppc[p] = "deny" \/ (postId /\ ~live)
    BY <1>1 DEF Request, Writes, Kinds
  <2> QED
    BY <2>1 DEF FailInv, Plain, Settled, EvidenceInv
<1>2. CASE Approve(o) \/ RejectRequest(o) \/ Cancel(o) \/ Confirm(o) \/ Stamp(o)
  <2>1. UNCHANGED <<posts, live, pc, path, flight, misled>>
        /\ (outcome' = "FAILED" => outcome = "FAILED")
        /\ \A p \in Operators : oppc'[p] = "deny" => oppc[p] = "deny"
    BY <1>2 DEF Approve, RejectRequest, Cancel, Confirm, Stamp, StorePublished
  <2> QED
    BY <2>1 DEF FailInv, Plain, Settled
<1>3. CASE Reject(o)
  <2>1. UNCHANGED <<posts, live, pc, path, flight, misled>>
        /\ \A p \in Operators : oppc'[p] = "deny" => oppc[p] = "deny"
    BY <1>3 DEF Reject
  <2>2. outcome' = "FAILED" => outcome = "FAILED" \/ Untouched
    BY <1>3 DEF Reject, StillPending, Untouched
  <2>3. Untouched => Settled /\ \A s \in Sweeps : pc[s] \notin {"check", "call"}
    BY DEF ClaimInv, Nothing, Outside, OneFlight, EvidenceInv, Settled
  <2> QED
    BY <2>1, <2>2, <2>3 DEF FailInv, Plain, Settled
<1>4. CASE Deny(o)
  <2>1. UNCHANGED <<posts, live, pc, path, flight, misled>> /\ oppc[o] = "deny"
        /\ \A p \in Operators : oppc'[p] = "deny" => oppc[p] = "deny"
    BY <1>4 DEF Deny
  <2>2. posts > 0 /\ ~live
    BY <2>1 DEF FailInv
  <2>3. Settled /\ \A s \in Sweeps : pc[s] \notin {"check", "call"}
    BY <2>2 DEF Settled, OneFlight, OneDispatch
  <2> QED
    BY <2>1, <2>3 DEF FailInv, Plain, Settled
<1> QED
  BY <1>1, <1>2, <1>3, <1>4 DEF Ask

LEMMA FailStep == PostInv /\ FailInv /\ [Next]_vars => FailInv'
<1> SUFFICES ASSUME PostInv, FailInv, [Next]_vars PROVE FailInv'
  OBVIOUS
<1> USE DEF PostInv, TypeOK
<1>1. ASSUME NEW s \in Sweeps, Decide(s) PROVE FailInv'
  <2>1. flight[s] = "out" /\ posts = 0 /\ posts' \in Nat
    BY <1>1 DEF Decide, OneFlight
  <2>2. UNCHANGED <<outcome, pc, oppc, path>>
    BY <1>1 DEF Decide
  <2>3. \A o \in Operators : oppc[o] # "deny"
    BY <2>1 DEF FailInv
  <2>4. Plain' => Plain
    BY <1>1, <2>1 DEF Decide, Plain
  <2>5. ~Settled
    BY <2>1 DEF Settled
  <2>6. live' => flight'[s] = "accepted"
    <3>1. ~live
      BY <2>1 DEF EvidenceInv
    <3> QED
      BY <1>1, <3>1 DEF Decide
  <2> QED
    BY <2>2, <2>3, <2>4, <2>5, <2>6 DEF FailInv
<1>2. CASE BecomeDue
  BY <1>2 DEF BecomeDue, FailInv, Plain, Settled
<1>3. CASE Delete
  BY <1>3 DEF Delete, FailInv, Plain, Settled
<1>4. CASE Webhook
  <2>1. UNCHANGED <<posts, live, pc, oppc, path, flight>> /\ ~Plain' /\ posts > 0
    BY <1>4 DEF Webhook, Plain, EvidenceInv
  <2>2. \A s \in Sweeps : pc[s] \notin {"check", "call"}
    BY <2>1 DEF OneDispatch, OneFlight
  <2> QED
    BY <2>1, <2>2 DEF FailInv
<1>5. CASE UNCHANGED vars
  BY <1>5 DEF vars, FailInv, Plain, Settled
<1> QED
  BY <1>1, <1>2, <1>3, <1>4, <1>5, FailDispatch, FailAsk DEF Next

\* A native job that failed is not public and will not become so, as long as the errors
\* that dispatch.ts:589 takes for refusals are refusals.
THEOREM FailuresAreTrue == Spec => []FailedMeansNotPosted
<1>1. FailInv => FailedMeansNotPosted
  BY DEF FailInv, Plain, Settled, FailedMeansNotPosted
<1> QED
  BY <1>1, FailInit, FailStep, PostCorrect, PTL DEF Spec
=============================================================================
