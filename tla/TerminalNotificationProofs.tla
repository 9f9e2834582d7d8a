--------------------- MODULE TerminalNotificationProofs ---------------------
(***************************************************************************)
(* Proofs about TerminalNotification for any number of runs, turns and     *)
(* deliverers: the attempt number of a claim is a fence.                   *)
(***************************************************************************)
EXTENDS TerminalNotification, FiniteSetTheorems, TLAPS

USE RunsAssumption, RunOfAssumption, SweepersAssumption, BoundAssumption

-----------------------------------------------------------------------------
\* Cardinalities of sets of runs and turns are natural numbers.
LEMMA Ranks ==
  /\ \A S \in SUBSET Runs : Cardinality(S) \in Nat
  /\ \A S \in SUBSET Turns : Cardinality(S) \in Nat
  BY FS_CardinalityType, FS_Subset

\* A deliverer that leaves carries no claim, and the others keep theirs.
LEMMA LeaveEffect ==
  ASSUME TypeOK, NEW d \in Deliverers, Leave(d)
  PROVE  /\ pc' = [pc EXCEPT ![d] = "idle"]
         /\ run' \in [Deliverers -> Runs \cup {NoRun}]
         /\ mine' \in [Deliverers -> Nat]
         /\ todo' \in [Deliverers -> SUBSET Turns]
         /\ cur' \in [Deliverers -> Turns \cup {NoTurn}]
         /\ pc'[d] = "idle"
         /\ todo'[d] = {}
         /\ \A e \in Deliverers :
              e # d => /\ pc'[e] = pc[e]
                       /\ run'[e] = run[e]
                       /\ mine'[e] = mine[e]
                       /\ todo'[e] = todo[e]
                       /\ cur'[e] = cur[e]
  BY DEF TypeOK, Leave

\* The initial state has the types of TypeOK.
LEMMA TypeInit == Init => TypeOK
  BY DEF Init, TypeOK, Finished, Delivering

\* Every step keeps the types: a claim, a mark or a pending hook belongs to a
\* run that has a terminal status.
LEMMA TypeStep == TypeOK /\ [Next]_vars => TypeOK'
<1> SUFFICES ASSUME TypeOK, [Next]_vars PROVE TypeOK'
  OBVIOUS
<1> USE DEF TypeOK, Finished, Delivering, Goto, outbox, chat, locals, budget
<1>1. ASSUME NEW t \in Turns, Confirm(t) PROVE TypeOK'
  BY <1>1 DEF Confirm
<1>2. ASSUME NEW t \in Turns, Park(t) PROVE TypeOK'
  <2>1. {u \in Turns : parkedAt[u] > 0} \in SUBSET Turns
    OBVIOUS
  <2>2. 1 + Cardinality({u \in Turns : parkedAt[u] > 0}) \in Nat
    BY <2>1, Ranks
  <2> QED
    BY <1>2, <2>2 DEF Park
<1>3. ASSUME NEW r \in Runs, Finish(r) PROVE TypeOK'
  <2>1. Finished \in SUBSET Runs
    OBVIOUS
  <2>2. Cardinality(Finished) + 1 \in Nat \ {0}
    BY <2>1, Ranks
  <2>3. /\ finishedAt' \in [Runs -> Nat]
        /\ finishedAt'[r] > 0
        /\ \A x \in Runs : x # r => finishedAt'[x] = finishedAt[x]
    BY <1>3, <2>2 DEF Finish
  <2> QED
    BY <1>3, <2>3 DEF Finish
<1>4. ASSUME NEW r \in Runs, ClaimAges(r) PROVE TypeOK'
  BY <1>4 DEF ClaimAges, Age
<1>5. ASSUME NEW r \in Runs, SlowDelivery(r) PROVE TypeOK'
  BY <1>5 DEF SlowDelivery, Age
<1>6. ASSUME NEW r \in Runs, LoseHook(r) PROVE TypeOK'
  BY <1>6 DEF LoseHook, Fault
<1>7. ASSUME NEW d \in Deliverers, NEW r \in Runs, FromHook(d, r) PROVE TypeOK'
  BY <1>7 DEF FromHook, Begin
<1>8. ASSUME NEW d \in Deliverers, NEW r \in Runs, FromSweep(d, r) PROVE TypeOK'
  BY <1>8 DEF FromSweep, Begin
<1>9. ASSUME NEW d \in Deliverers, NEW t \in Turns, ResumeFails(d, t) PROVE TypeOK'
  BY <1>9 DEF ResumeFails, Fault
<1>10. ASSUME NEW d \in Deliverers, ReadAttempts(d) PROVE TypeOK'
  <2>1. CASE Eligible(run[d])
    BY <1>10, <2>1 DEF ReadAttempts
  <2>2. CASE ~Eligible(run[d])
    BY <1>10, <2>2, LeaveEffect DEF ReadAttempts
  <2> QED
    BY <2>1, <2>2
<1>11. ASSUME NEW d \in Deliverers, ClaimNotification(d) PROVE TypeOK'
  <2>1. CASE Eligible(run[d]) /\ attempts[run[d]] = mine[d]
    BY <1>11, <2>1 DEF ClaimNotification, Eligible
  <2>2. CASE ~(Eligible(run[d]) /\ attempts[run[d]] = mine[d])
    BY <1>11, <2>2, LeaveEffect DEF ClaimNotification
  <2> QED
    BY <2>1, <2>2
<1>12. ASSUME NEW d \in Deliverers, FindTurns(d) PROVE TypeOK'
  BY <1>12 DEF FindTurns, Waiting
<1>13. ASSUME NEW d \in Deliverers, NEW t \in Turns, ResumeTurn(d, t) PROVE TypeOK'
  BY <1>13 DEF ResumeTurn
<1>14. ASSUME NEW d \in Deliverers, LoopEnds(d) PROVE TypeOK'
  BY <1>14 DEF LoopEnds
<1>15. ASSUME NEW d \in Deliverers, Delivered(d) PROVE TypeOK'
  BY <1>15 DEF Delivered
<1>16. ASSUME NEW d \in Deliverers, Finalize(d) PROVE TypeOK'
  <2>1. CASE Fence(d)
    BY <1>16, <2>1, LeaveEffect DEF Finalize, Fence
  <2>2. CASE ~Fence(d)
    BY <1>16, <2>2, LeaveEffect DEF Finalize
  <2> QED
    BY <2>1, <2>2
<1>17. ASSUME NEW d \in Deliverers, Release(d) PROVE TypeOK'
  <2>1. CASE Fence(d)
    BY <1>17, <2>1, LeaveEffect DEF Release
  <2>2. CASE ~Fence(d)
    BY <1>17, <2>2, LeaveEffect DEF Release
  <2> QED
    BY <2>1, <2>2
<1>18. ASSUME NEW d \in Deliverers, NotifyFails(d) PROVE TypeOK'
  BY <1>18 DEF NotifyFails, Fault
<1>19. ASSUME NEW d \in Deliverers, Die(d) PROVE TypeOK'
  BY <1>19, LeaveEffect DEF Die, Fault
<1>20. CASE UNCHANGED vars
  BY <1>20 DEF vars
<1> QED
  BY <1>1, <1>2, <1>3, <1>4, <1>5, <1>6, <1>7, <1>8, <1>9, <1>10, <1>11, <1>12,
     <1>13, <1>14, <1>15, <1>16, <1>17, <1>18, <1>19, <1>20, SMTT(30) DEF Next, Deliver

\* The types hold of every reachable state: nothing is claimed, marked or
\* promised a hook for a run that has no terminal status yet.
THEOREM OutboxTypeCorrect == Spec => []TypeOK
  BY TypeInit, TypeStep, PTL DEF Spec

-----------------------------------------------------------------------------
\* A step in which nobody takes a claim or marks a run keeps the fence: the
\* deliverers keep what they carry or lay it down.
LEMMA FenceFrame ==
  ASSUME OutboxInv, attempts' = attempts, notified' = notified,
         \A d \in Deliverers :
           pc'[d] \in Delivering =>
             pc[d] \in Delivering /\ run'[d] = run[d] /\ mine'[d] = mine[d]
  PROVE  ClaimsDistinct' /\ NotMarkedUnderDelivery'
  BY DEF OutboxInv, ClaimsDistinct, NotMarkedUnderDelivery

\* A claim takes a number nobody carries.
LEMMA ClaimKeepsFence ==
  ASSUME OutboxInv, NEW d \in Deliverers, ClaimNotification(d)
  PROVE  ClaimsDistinct' /\ NotMarkedUnderDelivery'
<1> USE DEF OutboxInv, TypeOK, Delivering
<1>1. CASE Eligible(run[d]) /\ attempts[run[d]] = mine[d]
  <2>1. /\ run[d] \in Runs
        /\ run' = run
        /\ notified' = notified
        /\ run[d] \notin notified
        /\ mine'[d] = attempts[run[d]] + 1
        /\ attempts'[run[d]] = attempts[run[d]] + 1
        /\ \A r \in Runs : r # run[d] => attempts'[r] = attempts[r]
        /\ \A e \in Deliverers : e # d => pc'[e] = pc[e] /\ mine'[e] = mine[e]
    BY <1>1 DEF ClaimNotification, Goto, Eligible
  <2>2. ASSUME NEW e \in Deliverers, e # d, pc'[e] \in Delivering
        PROVE  /\ pc[e] \in Delivering
               /\ run[e] \in Runs
               /\ mine'[e] = mine[e]
               /\ mine[e] <= attempts[run[e]]
               /\ mine[e] \in Nat
    BY <2>1, <2>2 DEF ClaimsDistinct
  <2>3. \A e \in Deliverers : pc'[e] \in Delivering => mine'[e] <= attempts'[run'[e]]
    BY <2>1, <2>2
  <2>4. ASSUME NEW e \in Deliverers, e # d, pc'[e] \in Delivering, run[e] = run[d]
        PROVE  mine'[e] # mine'[d]
    BY <2>1, <2>2, <2>4
  <2>5. ClaimsDistinct'
    BY <2>1, <2>2, <2>3, <2>4 DEF ClaimsDistinct
  <2>6. NotMarkedUnderDelivery'
    BY <2>1, <2>2 DEF NotMarkedUnderDelivery
  <2> QED
    BY <2>5, <2>6
<1>2. CASE ~(Eligible(run[d]) /\ attempts[run[d]] = mine[d])
  BY <1>2, LeaveEffect, FenceFrame DEF ClaimNotification
<1> QED
  BY <1>1, <1>2

\* Only the delivery with the newest claim marks the run, and it is the only
\* one with that claim.
LEMMA FinalizeKeepsFence ==
  ASSUME OutboxInv, NEW d \in Deliverers, Finalize(d)
  PROVE  ClaimsDistinct' /\ NotMarkedUnderDelivery'
<1>1. CASE Fence(d)
  <2>1. /\ pc[d] \in Delivering
        /\ attempts[run[d]] = mine[d]
        /\ attempts' = attempts
        /\ notified' = notified \cup {run[d]}
        /\ TypeOK
    BY <1>1 DEF Finalize, Fence, Delivering, OutboxInv
  <2>2. /\ pc'[d] = "idle"
        /\ \A e \in Deliverers : e # d => pc'[e] = pc[e] /\ run'[e] = run[e] /\ mine'[e] = mine[e]
    BY <2>1, LeaveEffect DEF Finalize
  <2>3. ASSUME NEW e \in Deliverers, pc'[e] \in Delivering
        PROVE  e # d /\ pc[e] \in Delivering /\ run'[e] = run[e] /\ mine'[e] = mine[e]
    BY <2>2, <2>3 DEF Delivering
  <2>4. ClaimsDistinct'
    BY <2>1, <2>3 DEF OutboxInv, ClaimsDistinct
  <2>5. ASSUME NEW e \in Deliverers, pc'[e] \in Delivering, mine'[e] = attempts'[run'[e]]
        PROVE  run'[e] \notin notified'
    <3>1. run[e] \notin notified
      BY <2>1, <2>3, <2>5 DEF OutboxInv, NotMarkedUnderDelivery
    <3>2. run[e] # run[d]
      BY <2>1, <2>3, <2>5 DEF OutboxInv, ClaimsDistinct
    <3> QED
      BY <2>1, <2>3, <2>5, <3>1, <3>2
  <2> QED
    BY <2>4, <2>5 DEF NotMarkedUnderDelivery
<1>2. CASE ~Fence(d)
  BY <1>2, LeaveEffect, FenceFrame DEF Finalize, OutboxInv, Delivering
<1> QED
  BY <1>1, <1>2

\* Every step keeps the fence.
LEMMA OutboxStep == OutboxInv /\ [Next]_vars => OutboxInv'
<1> SUFFICES ASSUME OutboxInv, [Next]_vars PROVE ClaimsDistinct' /\ NotMarkedUnderDelivery'
  BY TypeStep DEF OutboxInv
<1> TypeOK
  BY DEF OutboxInv
<1> DEFINE Goal == ClaimsDistinct' /\ NotMarkedUnderDelivery'
<1> USE DEF outbox, chat, locals, budget
<1>1. ASSUME NEW t \in Turns, Confirm(t) \/ Park(t) PROVE Goal
  BY <1>1, FenceFrame DEF Confirm, Park
<1>2. ASSUME NEW r \in Runs, Finish(r) \/ ClaimAges(r) \/ SlowDelivery(r) \/ LoseHook(r) PROVE Goal
  BY <1>2, FenceFrame DEF Finish, ClaimAges, SlowDelivery, Age, LoseHook
<1>3. ASSUME NEW d \in Deliverers, NEW r \in Runs, FromHook(d, r) \/ FromSweep(d, r) PROVE Goal
  <2>1. /\ pc' = [pc EXCEPT ![d] = "read"]
        /\ run' = [run EXCEPT ![d] = r]
        /\ mine' = mine /\ attempts' = attempts /\ notified' = notified
    BY <1>3 DEF FromHook, FromSweep, Begin, Goto
  <2> QED
    BY <2>1, FenceFrame DEF TypeOK, Delivering
<1>4. ASSUME NEW d \in Deliverers, ReadAttempts(d) PROVE Goal
  <2>1. CASE Eligible(run[d])
    BY <1>4, <2>1, FenceFrame DEF ReadAttempts, Goto, TypeOK, Delivering
  <2>2. CASE ~Eligible(run[d])
    BY <1>4, <2>2, LeaveEffect, FenceFrame DEF ReadAttempts, Delivering
  <2> QED
    BY <2>1, <2>2
<1>5. ASSUME NEW d \in Deliverers, ClaimNotification(d) PROVE Goal
  BY <1>5, ClaimKeepsFence
<1>6. ASSUME NEW d \in Deliverers,
             FindTurns(d) \/ (\E t \in Turns : ResumeTurn(d, t)) \/ LoopEnds(d) \/ Delivered(d) \/ NotifyFails(d)
      PROVE  Goal
  <2>1. /\ pc[d] \in Delivering
        /\ \E label \in Delivering : pc' = [pc EXCEPT ![d] = label]
        /\ run' = run /\ mine' = mine /\ attempts' = attempts /\ notified' = notified
    BY <1>6 DEF FindTurns, ResumeTurn, LoopEnds, Delivered, NotifyFails, Goto, Delivering
  <2> QED
    BY <2>1, FenceFrame DEF TypeOK
<1>7. ASSUME NEW d \in Deliverers, Finalize(d) PROVE Goal
  BY <1>7, FinalizeKeepsFence
<1>8. ASSUME NEW d \in Deliverers, Release(d) \/ Die(d) PROVE Goal
  BY <1>8, LeaveEffect, FenceFrame DEF Release, Die, Delivering
<1>9. ASSUME NEW d \in Deliverers, NEW t \in Turns, ResumeFails(d, t) PROVE Goal
  BY <1>9, FenceFrame DEF ResumeFails
<1>10. CASE UNCHANGED vars
  BY <1>10, FenceFrame DEF vars
<1> QED
  BY <1>1, <1>2, <1>3, <1>4, <1>5, <1>6, <1>7, <1>8, <1>9, <1>10 DEF Next, Deliver

\* The attempt number fences stale finalizers: a run is never marked as
\* notified while the delivery with its newest claim is still under way, for
\* any number of deliverers, expired claims, crashes and lost hooks.
THEOREM StaleFinalizersAreFenced == Spec => []NotMarkedUnderDelivery
<1>1. Init => OutboxInv
  BY TypeInit DEF Init, OutboxInv, ClaimsDistinct, NotMarkedUnderDelivery, Delivering
<1>2. OutboxInv => NotMarkedUnderDelivery
  BY DEF OutboxInv
<1> QED
  BY <1>1, <1>2, OutboxStep, PTL DEF Spec

-----------------------------------------------------------------------------
\* A step that takes no claim keeps every delivery under its claim, if it
\* leaves the row of the run alone.
LEMMA HeldFrame ==
  ASSUME DeliveryHoldsItsClaim,
         \A d \in Deliverers :
           pc'[d] \in Delivering =>
             /\ pc[d] \in Delivering /\ run'[d] = run[d] /\ mine'[d] = mine[d]
             /\ run[d] \in claimed \ aged => run[d] \in claimed' \ aged'
             /\ attempts'[run[d]] = attempts[run[d]]
  PROVE  DeliveryHoldsItsClaim'
  BY DEF DeliveryHoldsItsClaim

\* A step that leaves the turns alone and lists none keeps what is said of them.
LEMMA TurnsFrame ==
  ASSUME HeardOnce, turn' = turn, resumed' = resumed,
         \A d \in Deliverers :
           /\ todo'[d] \subseteq todo[d]
           /\ todo'[d] # {} => run'[d] = run[d] /\ pc'[d] \in {"resume", "loop"}
           /\ pc'[d] = "loop" => pc[d] = "loop" /\ cur'[d] = cur[d]
  PROVE  ListedTurnsAreParked' /\ HeardTurnsHaveGoneOn' /\ ResumedOnce'
  BY DEF HeardOnce, ListedTurnsAreParked, HeardTurnsHaveGoneOn, ResumedOnce

\* A deliverer that is not in the middle of resuming has nothing listed.
LEMMA NothingListed ==
  ASSUME ListedTurnsAreParked, NEW d \in Deliverers, pc[d] \notin {"resume", "loop"}
  PROVE  todo[d] = {}
  BY DEF ListedTurnsAreParked

\* At most one delivery of a run is under way.
LEMMA OneDelivery ==
  ASSUME OutboxInv, HeardOnce, NEW d \in Deliverers, NEW e \in Deliverers,
         pc[d] \in Delivering, pc[e] \in Delivering, run[d] = run[e]
  PROVE  d = e
  BY DEF OutboxInv, ClaimsDistinct, HeardOnce, DeliveryHoldsItsClaim

\* Where a delivery holds its claim, nobody else may take the run.
LEMMA ClaimExcludes ==
  ASSUME HeardOnce, NEW d \in Deliverers, NEW r \in Runs,
         pc[d] \in Delivering, Eligible(r)
  PROVE  run[d] # r
  BY DEF HeardOnce, DeliveryHoldsItsClaim, Eligible

\* Leaving gives up at most the own claim.
LEMMA LeaveKeepsHeardOnce ==
  ASSUME TypeOK, HeardOnce, NEW d \in Deliverers, Leave(d), UNCHANGED chat,
         attempts' = attempts,
         \A e \in Deliverers :
           e # d /\ pc[e] \in Delivering /\ run[e] \in claimed \ aged => run[e] \in claimed' \ aged'
  PROVE  HeardOnce'
<1>1. DeliveryHoldsItsClaim'
  BY LeaveEffect, HeldFrame DEF HeardOnce, Delivering
<1>2. ListedTurnsAreParked' /\ HeardTurnsHaveGoneOn' /\ ResumedOnce'
  <2>1. turn' = turn /\ resumed' = resumed
    BY DEF chat
  <2>2. \A e \in Deliverers : todo'[e] # {} => pc[e] \in {"resume", "loop"}
    BY LeaveEffect, NothingListed DEF HeardOnce
  <2> QED
    BY <2>1, <2>2, LeaveEffect, TurnsFrame
<1> QED
  BY <1>1, <1>2 DEF HeardOnce

\* The claim of a notification keeps the other deliveries under theirs.
LEMMA ClaimKeepsHeardOnce ==
  ASSUME OutboxInv, HeardOnce, NEW d \in Deliverers, ClaimNotification(d)
  PROVE  HeardOnce'
<1> TypeOK
  BY DEF OutboxInv
<1>1. CASE Eligible(run[d]) /\ attempts[run[d]] = mine[d]
  <2>1. /\ run[d] \in Runs
        /\ run' = run /\ todo' = todo /\ cur' = cur /\ turn' = turn /\ resumed' = resumed
        /\ pc' = [pc EXCEPT ![d] = "find"] /\ pc[d] = "claim"
        /\ claimed' = claimed \cup {run[d]} /\ aged' = aged \ {run[d]}
        /\ mine' = [mine EXCEPT ![d] = @ + 1]
        /\ attempts' = [attempts EXCEPT ![run[d]] = @ + 1]
    BY <1>1 DEF ClaimNotification, Goto, TypeOK, chat
  <2>2. ASSUME NEW e \in Deliverers, pc'[e] \in Delivering
        PROVE  run'[e] \in claimed' \ aged' /\ mine'[e] = attempts'[run'[e]]
    <3>1. CASE e = d
      BY <1>1, <2>1, <3>1 DEF TypeOK
    <3>2. CASE e # d
      <4>1. pc[e] \in Delivering /\ run[e] \in Runs
        BY <2>1, <2>2, <3>2 DEF TypeOK, Delivering
      <4>2. run[e] # run[d]
        BY <1>1, <2>1, <4>1, ClaimExcludes
      <4> QED
        BY <2>1, <3>2, <4>1, <4>2 DEF TypeOK, HeardOnce, DeliveryHoldsItsClaim
    <3> QED
      BY <3>1, <3>2
  <2>3. todo[d] = {}
    BY <2>1, NothingListed DEF HeardOnce
  <2>4. ListedTurnsAreParked' /\ HeardTurnsHaveGoneOn' /\ ResumedOnce'
    <3>1. \A e \in Deliverers :
            /\ todo'[e] \subseteq todo[e]
            /\ todo'[e] # {} => run'[e] = run[e] /\ pc'[e] \in {"resume", "loop"}
            /\ pc'[e] = "loop" => pc[e] = "loop" /\ cur'[e] = cur[e]
      BY <2>1, <2>3 DEF TypeOK, HeardOnce, ListedTurnsAreParked
    <3> QED
      BY <2>1, <3>1, TurnsFrame
  <2> QED
    BY <2>2, <2>4 DEF HeardOnce, DeliveryHoldsItsClaim
<1>2. CASE ~(Eligible(run[d]) /\ attempts[run[d]] = mine[d])
  BY <1>2, LeaveKeepsHeardOnce DEF ClaimNotification
<1> QED
  BY <1>1, <1>2

\* Resuming a turn takes it out of every list there is: it was in one only.
LEMMA ResumeKeepsHeardOnce ==
  ASSUME OutboxInv, HeardOnce, NEW d \in Deliverers, NEW t \in Turns, ResumeTurn(d, t)
  PROVE  HeardOnce'
<1> USE DEF OutboxInv, TypeOK
<1>1. /\ pc[d] = "resume" /\ t \in todo[d] /\ RunOf[t] = run[d] /\ turn[t] = "parked"
      /\ resumed[t] = 0
      /\ turn' = [turn EXCEPT ![t] = "running"] /\ resumed' = [resumed EXCEPT ![t] = @ + 1]
      /\ todo' = [todo EXCEPT ![d] = @ \ {t}] /\ cur' = [cur EXCEPT ![d] = t]
      /\ pc' = [pc EXCEPT ![d] = "loop"]
      /\ run' = run /\ mine' = mine /\ UNCHANGED outbox
  BY DEF ResumeTurn, Goto, HeardOnce, ListedTurnsAreParked, HeardTurnsHaveGoneOn
<1>2. DeliveryHoldsItsClaim'
  BY <1>1, HeldFrame DEF HeardOnce, Delivering, outbox
<1>3. ASSUME NEW e \in Deliverers, NEW u \in todo'[e]
      PROVE  pc'[e] \in {"resume", "loop"} /\ RunOf[u] = run'[e] /\ turn'[u] = "parked"
  <2>1. u \in todo[e] /\ u \in Turns /\ pc[e] \in {"resume", "loop"} /\ RunOf[u] = run[e] /\ turn[u] = "parked"
    BY <1>1, <1>3 DEF HeardOnce, ListedTurnsAreParked
  <2>2. u # t
    <3>1. CASE e = d
      BY <1>1, <1>3, <3>1
    <3>2. CASE e # d
      BY <1>1, <2>1, <3>2, OneDelivery DEF Delivering
    <3> QED
      BY <3>1, <3>2
  <2> QED
    BY <1>1, <2>1, <2>2
<1>4. ASSUME NEW e \in Deliverers, pc'[e] = "loop" PROVE turn'[cur'[e]] \in {"running", "closed"}
  BY <1>1, <1>4 DEF HeardOnce, HeardTurnsHaveGoneOn
<1>5. ASSUME NEW u \in Turns
      PROVE  /\ turn'[u] \in {"confirm", "resuming", "parked"} => resumed'[u] = 0
             /\ resumed'[u] <= 1
  BY <1>1, <1>5 DEF HeardOnce, HeardTurnsHaveGoneOn, ResumedOnce
<1> QED
  BY <1>2, <1>3, <1>4, <1>5 DEF HeardOnce, ListedTurnsAreParked, HeardTurnsHaveGoneOn, ResumedOnce

\* A turn that ends, or whose resume fails, is in nobody's list afterwards.
LEMMA CloseKeepsHeardOnce ==
  ASSUME OutboxInv, HeardOnce, NEW d \in Deliverers, NEW t \in Turns,
         (LoopEnds(d) /\ t = cur[d]) \/ ResumeFails(d, t)
  PROVE  HeardOnce'
<1> USE DEF OutboxInv, TypeOK
<1>1. /\ turn' = [turn EXCEPT ![t] = "closed"] /\ resumed' = resumed
      /\ todo'[d] \subseteq todo[d] \ {t}
      /\ \A e \in Deliverers : e # d => todo'[e] = todo[e] /\ cur'[e] = cur[e] /\ pc'[e] = pc[e]
      /\ pc[d] \in {"resume", "loop"} /\ pc'[d] = "resume"
      /\ run' = run /\ mine' = mine /\ UNCHANGED outbox
  <2>1. CASE LoopEnds(d) /\ t = cur[d]
    <3>1. t \notin todo[d]
      BY <2>1 DEF LoopEnds, HeardOnce, ListedTurnsAreParked, HeardTurnsHaveGoneOn
    <3> QED
      BY <2>1, <3>1 DEF LoopEnds, Goto
  <2>2. CASE ResumeFails(d, t)
    BY <2>2 DEF ResumeFails
  <2> QED
    BY <2>1, <2>2
<1>2. \A e \in Deliverers : e # d => t \notin todo[e]
  <2>1. CASE LoopEnds(d) /\ t = cur[d]
    BY <2>1 DEF LoopEnds, HeardOnce, ListedTurnsAreParked, HeardTurnsHaveGoneOn
  <2>2. CASE ResumeFails(d, t)
    <3>1. pc[d] \in Delivering /\ RunOf[t] = run[d]
      BY <2>2 DEF ResumeFails, Delivering, HeardOnce, ListedTurnsAreParked
    <3>2. ASSUME NEW e \in Deliverers, t \in todo[e] PROVE e = d
      <4>1. pc[e] \in Delivering /\ RunOf[t] = run[e]
        BY <3>2 DEF Delivering, HeardOnce, ListedTurnsAreParked
      <4> QED
        BY <3>1, <4>1, OneDelivery
    <3> QED
      BY <3>2
  <2> QED
    BY <2>1, <2>2
<1>3. DeliveryHoldsItsClaim'
  BY <1>1, HeldFrame DEF HeardOnce, Delivering, outbox
<1>4. ListedTurnsAreParked'
  BY <1>1, <1>2 DEF HeardOnce, ListedTurnsAreParked
<1>5. HeardTurnsHaveGoneOn' /\ ResumedOnce'
  BY <1>1 DEF HeardOnce, HeardTurnsHaveGoneOn, ResumedOnce
<1> QED
  BY <1>3, <1>4, <1>5 DEF HeardOnce

\* A deliverer that gives its claim back or marks the run is the only one on it.
LEMMA EndKeepsHeardOnce ==
  ASSUME OutboxInv, HeardOnce, NEW d \in Deliverers, Finalize(d) \/ Release(d)
  PROVE  HeardOnce'
<1>1. /\ TypeOK /\ Leave(d) /\ UNCHANGED chat /\ attempts' = attempts
      /\ pc[d] \in Delivering
      /\ claimed \ {run[d]} \subseteq claimed' /\ aged' \subseteq aged
  BY DEF Finalize, Release, OutboxInv, Delivering
<1>2. ASSUME NEW e \in Deliverers, e # d, pc[e] \in Delivering PROVE run[e] # run[d]
  BY <1>1, <1>2, OneDelivery
<1> QED
  BY <1>1, <1>2, LeaveKeepsHeardOnce

\* Every step keeps the exclusion, as long as no live delivery is taken for dead.
LEMMA ResumeStep == ResumeInv /\ [Next]_vars => ResumeInv'
<1> SUFFICES ASSUME ResumeInv, [Next]_vars, stalls' = 0 PROVE HeardOnce'
  BY OutboxStep DEF ResumeInv
<1>0. OutboxInv /\ TypeOK /\ (stalls = 0 => HeardOnce)
  BY DEF ResumeInv, OutboxInv
<1> USE DEF outbox, chat, locals, budget
<1>1. ASSUME NEW t \in Turns, Confirm(t) \/ Park(t) PROVE HeardOnce'
  <2>1. /\ HeardOnce /\ turn[t] \in {"confirm", "resuming"}
        /\ \E s \in {"resuming", "parked"} : turn' = [turn EXCEPT ![t] = s]
        /\ UNCHANGED <<outbox, resumed, locals>>
    BY <1>0, <1>1 DEF Confirm, Park
  <2>2. DeliveryHoldsItsClaim'
    BY <2>1, HeldFrame DEF HeardOnce
  <2>3. ListedTurnsAreParked' /\ HeardTurnsHaveGoneOn' /\ ResumedOnce'
    BY <1>0, <2>1 DEF TypeOK, HeardOnce, ListedTurnsAreParked, HeardTurnsHaveGoneOn, ResumedOnce
  <2> QED
    BY <2>2, <2>3 DEF HeardOnce
<1>2. ASSUME NEW r \in Runs, Finish(r) \/ LoseHook(r) PROVE HeardOnce'
  <2>1. HeardOnce /\ UNCHANGED <<claimed, aged, attempts, chat, locals>>
    BY <1>0, <1>2 DEF Finish, LoseHook
  <2> QED
    BY <2>1, HeldFrame, TurnsFrame, NothingListed DEF HeardOnce, ListedTurnsAreParked
<1>3. ASSUME NEW r \in Runs, ClaimAges(r) PROVE HeardOnce'
  <2>1. /\ HeardOnce /\ UNCHANGED <<claimed, attempts, chat, locals>>
        /\ aged' = aged \cup {r}
    BY <1>0, <1>3 DEF ClaimAges, Age
  <2>2. \A d \in Deliverers : pc[d] \in Delivering => run[d] # r
    BY <1>3, <2>1 DEF ClaimAges, Attended, HeardOnce, DeliveryHoldsItsClaim
  <2>3. DeliveryHoldsItsClaim'
    BY <2>1, <2>2, HeldFrame DEF HeardOnce
  <2> QED
    BY <2>1, <2>3, TurnsFrame DEF HeardOnce, ListedTurnsAreParked
<1>4. ASSUME NEW r \in Runs, SlowDelivery(r) PROVE HeardOnce'
  BY <1>0, <1>4 DEF SlowDelivery, TypeOK
<1>5. ASSUME NEW d \in Deliverers, NEW r \in Runs, FromHook(d, r) \/ FromSweep(d, r) PROVE HeardOnce'
  <2>1. /\ HeardOnce /\ pc[d] = "idle"
        /\ pc' = [pc EXCEPT ![d] = "read"]
        /\ run' = [run EXCEPT ![d] = r]
        /\ UNCHANGED <<claimed, aged, attempts, mine, todo, cur, turn, resumed>>
    BY <1>0, <1>5 DEF FromHook, FromSweep, Begin, Goto
  <2>2. todo[d] = {}
    BY <2>1, NothingListed DEF HeardOnce
  <2>3. DeliveryHoldsItsClaim'
    BY <1>0, <2>1, HeldFrame DEF HeardOnce, TypeOK, Delivering
  <2> QED
    BY <1>0, <2>1, <2>2, <2>3, TurnsFrame DEF TypeOK, HeardOnce, ListedTurnsAreParked
<1>6. ASSUME NEW d \in Deliverers, ReadAttempts(d) PROVE HeardOnce'
  <2>1. CASE Eligible(run[d])
    <3>1. /\ HeardOnce /\ pc[d] = "read"
          /\ pc' = [pc EXCEPT ![d] = "claim"]
          /\ mine' = [mine EXCEPT ![d] = attempts[run[d]]]
          /\ UNCHANGED <<outbox, run, todo, cur, chat>>
      BY <1>0, <1>6, <2>1 DEF ReadAttempts, Goto
    <3>2. todo[d] = {}
      BY <3>1, NothingListed DEF HeardOnce
    <3>3. DeliveryHoldsItsClaim'
      BY <1>0, <3>1, HeldFrame DEF HeardOnce, TypeOK, Delivering
    <3> QED
      BY <1>0, <3>1, <3>2, <3>3, TurnsFrame DEF TypeOK, HeardOnce, ListedTurnsAreParked
  <2>2. CASE ~Eligible(run[d])
    BY <1>0, <1>6, <2>2, LeaveKeepsHeardOnce DEF ReadAttempts
  <2> QED
    BY <2>1, <2>2
<1>7. ASSUME NEW d \in Deliverers, ClaimNotification(d) PROVE HeardOnce'
  BY <1>0, <1>7, ClaimKeepsHeardOnce DEF ClaimNotification
<1>8. ASSUME NEW d \in Deliverers, FindTurns(d) PROVE HeardOnce'
  <2>1. /\ HeardOnce /\ pc[d] = "find"
        /\ pc' = [pc EXCEPT ![d] = "resume"]
        /\ todo' = [todo EXCEPT ![d] = Waiting(run[d])]
        /\ UNCHANGED <<outbox, run, mine, cur, chat>>
    BY <1>0, <1>8 DEF FindTurns, Goto
  <2>2. DeliveryHoldsItsClaim'
    BY <1>0, <2>1, HeldFrame DEF HeardOnce, TypeOK, Delivering
  <2>3. ListedTurnsAreParked'
    BY <1>0, <2>1 DEF TypeOK, HeardOnce, ListedTurnsAreParked, Waiting
  <2>4. HeardTurnsHaveGoneOn' /\ ResumedOnce'
    BY <1>0, <2>1 DEF TypeOK, HeardOnce, HeardTurnsHaveGoneOn, ResumedOnce
  <2> QED
    BY <2>2, <2>3, <2>4 DEF HeardOnce
<1>9. ASSUME NEW d \in Deliverers, NEW t \in Turns, ResumeTurn(d, t) PROVE HeardOnce'
  BY <1>0, <1>9, ResumeKeepsHeardOnce DEF ResumeTurn
<1>10. ASSUME NEW d \in Deliverers, LoopEnds(d) PROVE HeardOnce'
  <2>1. cur[d] \in Turns /\ HeardOnce
    BY <1>0, <1>10 DEF LoopEnds, TypeOK
  <2> QED
    BY <1>0, <1>10, <2>1, CloseKeepsHeardOnce
<1>11. ASSUME NEW d \in Deliverers, NEW t \in Turns, ResumeFails(d, t) PROVE HeardOnce'
  <2>1. HeardOnce
    BY <1>0, <1>11 DEF ResumeFails
  <2> QED
    BY <1>0, <1>11, <2>1, CloseKeepsHeardOnce
<1>12. ASSUME NEW d \in Deliverers, Delivered(d) \/ NotifyFails(d) PROVE HeardOnce'
  <2>1. /\ HeardOnce /\ pc[d] \in {"find", "resume"} /\ (pc[d] = "resume" => todo[d] = {})
        /\ \E label \in {"final", "release"} : pc' = [pc EXCEPT ![d] = label]
        /\ UNCHANGED <<outbox, run, mine, todo, cur, chat>>
    BY <1>0, <1>12 DEF Delivered, NotifyFails, Goto
  <2>2. todo[d] = {}
    BY <2>1, NothingListed DEF HeardOnce
  <2>3. DeliveryHoldsItsClaim'
    BY <1>0, <2>1, HeldFrame DEF HeardOnce, TypeOK, Delivering
  <2> QED
    BY <1>0, <2>1, <2>2, <2>3, TurnsFrame DEF TypeOK, HeardOnce, ListedTurnsAreParked
<1>13. ASSUME NEW d \in Deliverers, Finalize(d) \/ Release(d) PROVE HeardOnce'
  <2>1. HeardOnce
    BY <1>0, <1>13 DEF Finalize, Release
  <2> QED
    BY <1>0, <1>13, <2>1, EndKeepsHeardOnce
<1>14. ASSUME NEW d \in Deliverers, Die(d) PROVE HeardOnce'
  <2>1. HeardOnce
    BY <1>0, <1>14 DEF Die
  <2> QED
    BY <1>0, <1>14, <2>1, LeaveKeepsHeardOnce DEF Die
<1>15. CASE UNCHANGED vars
  <2>1. HeardOnce /\ UNCHANGED <<claimed, aged, attempts, chat, locals>>
    BY <1>0, <1>15 DEF vars
  <2> QED
    BY <2>1, HeldFrame, TurnsFrame DEF HeardOnce, ListedTurnsAreParked
<1> QED
  BY <1>1, <1>2, <1>3, <1>4, <1>5, <1>6, <1>7, <1>8, <1>9, <1>10, <1>11, <1>12,
     <1>13, <1>14, <1>15 DEF Next, Deliver

\* The result of a run is fed into a turn that waits for it at most once, for
\* any number of deliverers, lost hooks, crashes and failed statements, as long
\* as no claim ages out under a delivery that is still alive.
THEOREM ResultIsHeardOnce == Spec => []ResumedOnceUnlessSlow
<1>1. Init => ResumeInv
  <2>1. Init => OutboxInv
    BY TypeInit DEF Init, OutboxInv, ClaimsDistinct, NotMarkedUnderDelivery, Delivering
  <2>2. Init => HeardOnce
    BY DEF Init, HeardOnce, DeliveryHoldsItsClaim, ListedTurnsAreParked,
           HeardTurnsHaveGoneOn, ResumedOnce, Delivering
  <2> QED
    BY <2>1, <2>2 DEF ResumeInv
<1>2. ResumeInv => ResumedOnceUnlessSlow
  BY DEF ResumeInv, HeardOnce, ResumedOnceUnlessSlow
<1> QED
  BY <1>1, <1>2, ResumeStep, PTL DEF Spec

=============================================================================
