----------------------- MODULE PlaybookDispatchProofs -----------------------
(***************************************************************************)
(* Machine-checked proofs about PlaybookDispatch, for every set of runs,   *)
(* workers and users, every limit and every bound on stalls and faults.    *)
(***************************************************************************)
EXTENDS PlaybookDispatch, FiniteSetTheorems, TLAPS

USE RunsAssumption, OwnerAssumption, LimitAssumption, BoundAssumption,
    SetsAssumption, NullAssumption

-----------------------------------------------------------------------------
\* Every variable keeps its type: in particular the two vocabularies, of runs
\* ("cancelled") and of rows ("canceled"), are never mixed.
LEMMA TypeInit == Init => TypeOK
  BY DEF Init, TypeOK, Terminal, Active, Closed, Labels, Busy, Beating

\* What the helpers of the actions do to the types.
LEMMA CloseRowType ==
  ASSUME TypeOK, NEW r \in Runs, NEW q \in Closed, CloseRow(r, q)
  PROVE  /\ queue' \in [Runs -> Active \cup Closed \cup {"none"}]
         /\ by' \in [Runs -> Workers \cup {NoWorker}]
         /\ attempt' \in [Runs -> Nat]
         /\ expired' \subseteq Runs
         /\ past' \in [Workers -> SUBSET Runs]
  BY DEF TypeOK, CloseRow, FreshLease

\* A status is only ever replaced by a terminal one.
LEMMA SettleType ==
  ASSUME TypeOK, NEW r \in Runs, NEW s \in Terminal, Settle(r, s)
  PROVE  status' \in [Runs -> Terminal \cup {"none", "pending", "running"}]
  BY DEF TypeOK, Settle

\* A worker that lays its run down is idle or down and holds nothing.
LEMMA LeaveType ==
  ASSUME TypeOK, NEW w \in Workers, NEW label \in {"idle", "down"}, Leave(w, label)
  PROVE  /\ pc' \in [Workers -> Labels]
         /\ job' \in [Workers -> Runs \cup {NoRun}]
         /\ \A v \in Workers : pc'[v] \in Busy => job'[v] \in Runs
         /\ held' \in [Workers -> Nat]
         /\ lost' \in [Workers -> BOOLEAN]
         /\ out' \in [Workers -> Terminal \cup {"none"}]
         /\ escapes' \in [Workers -> BOOLEAN]
  BY DEF TypeOK, Leave, Labels, Busy, Beating

\* Every action of the queue, the workers and the users keeps the types.
LEMMA TypeStep == TypeOK /\ [Next]_vars => TypeOK'
<1> SUFFICES ASSUME TypeOK, [Next]_vars PROVE TypeOK'
  OBVIOUS
<1> USE DEF TypeOK, Terminal, Active, Closed, Labels, Busy, Beating,
            runVars, rowVars, leaseVars, workVars, budget, Goto, FreshLease
<1>1. ASSUME NEW r \in Runs, Enqueue(r) PROVE TypeOK'
  BY <1>1 DEF Enqueue
<1>2. ASSUME NEW r \in Runs, Cancel(r) PROVE TypeOK'
  <2>1. live' \subseteq Runs \X Nat
    BY <1>2 DEF Cancel
  <2>2. CASE queue[r] = "queued"
    BY <1>2, <2>1, <2>2, CloseRowType, SettleType DEF Cancel
  <2>3. CASE queue[r] # "queued"
    BY <1>2, <2>1, <2>3 DEF Cancel
  <2> QED
    BY <2>2, <2>3
<1>3. ASSUME NEW r \in Runs, AbandonedLeaseEnds(r) PROVE TypeOK'
  BY <1>3 DEF AbandonedLeaseEnds, LeaseEnds
<1>4. ASSUME NEW r \in Runs, Stall(r) PROVE TypeOK'
  BY <1>4 DEF Stall, LeaseEnds
<1>5. ASSUME NEW j \in live, OrphanEnds(j[1], j[2]) PROVE TypeOK'
  BY <1>5 DEF OrphanEnds
<1>6. ASSUME NEW w \in Workers, ReadNow(w) PROVE TypeOK'
  BY <1>6 DEF ReadNow
<1>7. ASSUME NEW w \in Workers, NothingToClaim(w) PROVE TypeOK'
  BY <1>7, LeaveType DEF NothingToClaim
<1>8. ASSUME NEW w \in Workers, NEW r \in Runs, Recover(w, r) PROVE TypeOK'
  BY <1>8 DEF Recover, CleanupJob, RecoverRow, CloseRow, Settle, Settled, Requeue, Mirror
<1>9. ASSUME NEW w \in Workers, NEW r \in Runs, Claim(w, r) PROVE TypeOK'
  BY <1>9 DEF Claim
<1>10. ASSUME NEW w \in Workers, NEW r \in Runs, RejectTargets(w, r) PROVE TypeOK'
  BY <1>10, CloseRowType, SettleType, LeaveType DEF RejectTargets
<1>11. ASSUME NEW w \in Workers, StartRefused(w) PROVE TypeOK'
  BY <1>11, LeaveType DEF StartRefused
<1>12. ASSUME NEW w \in Workers, Start(w) PROVE TypeOK'
  <2>1. CASE cancel[job[w]]
    <3>1. pc' \in [Workers -> Labels] /\ out' \in [Workers -> Terminal \cup {"none"}]
      BY <1>12, <2>1 DEF Start
    <3>2. held' \in [Workers -> Nat]
      BY <1>12 DEF Start
    <3>3. \A v \in Workers : pc'[v] \in Busy => job'[v] \in Runs
      BY <1>12, <2>1 DEF Start
    <3> QED
      BY <1>12, <3>1, <3>2, <3>3 DEF Start
  <2>2. CASE ~cancel[job[w]]
    <3>1. pc' \in [Workers -> Labels] /\ held' \in [Workers -> Nat] /\ out' = out
      BY <1>12, <2>2 DEF Start
    <3>2. \A v \in Workers : pc'[v] \in Busy => job'[v] \in Runs
      BY <1>12, <2>2 DEF Start
    <3> QED
      BY <1>12, <3>1, <3>2 DEF Start
  <2> QED
    BY <2>1, <2>2
<1>13. ASSUME NEW w \in Workers, Heartbeat(w) PROVE TypeOK'
  <2>2. lost' \in [Workers -> BOOLEAN]
    BY <1>13 DEF Heartbeat
  <2>3. expired' \subseteq Runs /\ past' \in [Workers -> SUBSET Runs]
    <3>1. CASE FreshLease(job[w])
      BY <3>1
    <3>2. CASE UNCHANGED leaseVars
      BY <3>2
    <3> QED
      BY <1>13, <3>1, <3>2 DEF Heartbeat
  <2> QED
    BY <1>13, <2>2, <2>3 DEF Heartbeat
<1>14. ASSUME NEW w \in Workers, PrepareFails(w) PROVE TypeOK'
  BY <1>14 DEF PrepareFails
<1>15. ASSUME NEW w \in Workers, SaveRunning(w) PROVE TypeOK'
  BY <1>15 DEF SaveRunning, Refused, Settled
<1>16. ASSUME NEW w \in Workers, CheckBeforeLaunch(w) PROVE TypeOK'
  <2>1. lost' \in [Workers -> BOOLEAN]
    BY <1>16 DEF CheckBeforeLaunch, NoteCancel, Probe
  <2>2. CASE ShouldCancel(w)
    <3>1. pc' \in [Workers -> Labels] /\ out' \in [Workers -> Terminal \cup {"none"}]
      BY <1>16, <2>2 DEF CheckBeforeLaunch
    <3>2. \A v \in Workers : pc'[v] \in Busy => job'[v] \in Runs
      BY <1>16, <2>2 DEF CheckBeforeLaunch
    <3> QED
      BY <1>16, <2>1, <2>2, <3>1, <3>2 DEF CheckBeforeLaunch
  <2>3. CASE ~ShouldCancel(w)
    BY <1>16, <2>1, <2>3 DEF CheckBeforeLaunch
  <2> QED
    BY <2>2, <2>3
<1>17. ASSUME NEW w \in Workers, Launch(w) PROVE TypeOK'
  BY <1>17 DEF Launch
<1>18. ASSUME NEW w \in Workers, StopExecution(w) PROVE TypeOK'
  BY <1>18 DEF StopExecution, NoteCancel, Probe, Without
<1>19. ASSUME NEW w \in Workers, NEW s \in Terminal, ExecutionEnds(w, s) PROVE TypeOK'
  BY <1>19 DEF ExecutionEnds, NoteCancel, Probe, Without
<1>20. ASSUME NEW w \in Workers, NextCommand(w) PROVE TypeOK'
  BY <1>20 DEF NextCommand, Without
<1>21. ASSUME NEW w \in Workers, SaveOutcome(w) PROVE TypeOK'
  <2>1. lost' \in [Workers -> BOOLEAN]
    BY <1>21 DEF SaveOutcome, Refused
  <2>2. CASE OwnsClaim(w)
    <3>1. status' \in [Runs -> Terminal \cup {"none", "pending", "running"}]
      BY <1>21, <2>2 DEF SaveOutcome, Settle
    <3>2. UNCHANGED lost
      BY <1>21, <2>2 DEF SaveOutcome
    <3> QED
      BY <1>21, <3>1, <3>2 DEF SaveOutcome
  <2>3. CASE ~OwnsClaim(w)
    BY <1>21, <2>1, <2>3 DEF SaveOutcome
  <2> QED
    BY <2>2, <2>3
<1>22. ASSUME NEW w \in Workers, CheckClaim(w) PROVE TypeOK'
  <2>1. CASE OwnsClaim(w)
    BY <1>22, <2>1 DEF CheckClaim
  <2>2. CASE ~OwnsClaim(w)
    BY <1>22, <2>2, LeaveType DEF CheckClaim
  <2> QED
    BY <2>1, <2>2
<1>23. ASSUME NEW w \in Workers, ReadRun(w) PROVE TypeOK'
  BY <1>23 DEF ReadRun, Settled
<1>24. ASSUME NEW w \in Workers, PersistFallback(w) PROVE TypeOK'
  <2>1. CASE FenceOwned(w) /\ ~Settled(job[w])
    BY <1>24, <2>1 DEF PersistFallback, Settle, Settled
  <2>2. CASE ~(FenceOwned(w) /\ ~Settled(job[w]))
    BY <1>24, <2>2, LeaveType DEF PersistFallback
  <2> QED
    BY <2>1, <2>2
<1>25. ASSUME NEW w \in Workers, FinishCanceled(w) PROVE TypeOK'
  <2>1. job[w] \in Runs
    BY <1>25 DEF FinishCanceled
  <2>2. CASE FenceOwned(w)
    BY <1>25, <2>1, <2>2, CloseRowType, SettleType, LeaveType DEF FinishCanceled
  <2>3. CASE ~FenceOwned(w)
    BY <1>25, <2>3, LeaveType DEF FinishCanceled
  <2> QED
    BY <2>2, <2>3
<1>26. ASSUME NEW w \in Workers, Complete(w) PROVE TypeOK'
  <2>1. job[w] \in Runs
    BY <1>26 DEF Complete
  <2>2. CASE MayClose(w, {"canceled", "interrupted", "failed"})
    BY <1>26, <2>1, <2>2, CloseRowType, SettleType, LeaveType DEF Complete
  <2>3. CASE ~MayClose(w, {"canceled", "interrupted", "failed"})
    BY <1>26, <2>3, LeaveType DEF Complete
  <2> QED
    BY <2>2, <2>3
<1>27. ASSUME NEW w \in Workers, Fail(w) PROVE TypeOK'
  <2>1. job[w] \in Runs
    BY <1>27 DEF Fail
  <2>2. CASE MayClose(w, {"canceled", "interrupted", "completed"})
    BY <1>27, <2>1, <2>2, CloseRowType, SettleType, LeaveType DEF Fail
  <2>3. CASE ~MayClose(w, {"canceled", "interrupted", "completed"})
    BY <1>27, <2>3, LeaveType DEF Fail
  <2> QED
    BY <2>2, <2>3
<1>28. ASSUME NEW w \in Workers, Raise(w) PROVE TypeOK'
  <2>1. CASE Leave(w, "idle")
    BY <1>28, <2>1, LeaveType DEF Raise, Fault
  <2>2. CASE /\ pc' = [pc EXCEPT ![w] = "except"]
             /\ escapes' = [escapes EXCEPT ![w] = TRUE]
             /\ out' = [out EXCEPT ![w] = "none"]
             /\ pc[w] \in Beating
             /\ UNCHANGED <<job, held, lost>>
    <3>1. \A v \in Workers : pc'[v] \in Busy => job'[v] \in Runs
      BY <2>2
    <3>2. faults' \in 0 .. MaxFaults
      BY <1>28 DEF Raise, Fault
    <3> QED
      BY <1>28, <2>2, <3>1, <3>2 DEF Raise
  <2> QED
    BY <1>28, <2>1, <2>2 DEF Raise
<1>29. ASSUME NEW w \in Workers, LoseLease(w) PROVE TypeOK'
  BY <1>29 DEF LoseLease, Fault
<1>30. ASSUME NEW w \in Workers, Crash(w) PROVE TypeOK'
  BY <1>30, LeaveType DEF Crash, Fault
<1>31. ASSUME NEW w \in Workers, Restart(w) PROVE TypeOK'
  BY <1>31 DEF Restart
<1>32. CASE UNCHANGED vars
  BY <1>32 DEF vars
<1> HIDE DEF TypeOK, Terminal, Active, Closed, Labels, Busy, Beating,
             runVars, rowVars, leaseVars, workVars, budget, Goto, FreshLease
<1> QED
  BY <1>1, <1>2, <1>3, <1>4, <1>5, <1>6, <1>7, <1>8, <1>9, <1>10, <1>11, <1>12,
     <1>13, <1>14, <1>15, <1>16, <1>17, <1>18, <1>19, <1>20, <1>21, <1>22, <1>23,
     <1>24, <1>25, <1>26, <1>27, <1>28, <1>29, <1>30, <1>31, <1>32, ZenonT(60)
     DEF Next, Step, Claiming, Running, Finalizing

THEOREM TypeCorrect == Spec => []TypeOK
  BY TypeInit, TypeStep, PTL DEF Spec

-----------------------------------------------------------------------------
\* The part of SafetyInv that speaks of runs and rows only.
RowInv == RowShape /\ QueuedIsClaimable /\ RowsAgree /\ CancelledOnRequest /\ NoReplay

\* Nothing is queued, claimed or running at first.
LEMMA SafetyInit == Init => SafetyInv
<1> SUFFICES ASSUME Init PROVE SafetyInv
  OBVIOUS
<1>1. TypeOK
  BY TypeInit
<1>2. RowShape /\ QueuedIsClaimable /\ RowsAgree /\ CancelledOnRequest /\ NoReplay
  BY DEF Init, RowShape, QueuedIsClaimable, RowsAgree, CancelledOnRequest, NoReplay,
         Closed, Settled, Terminal
<1>3. LeaseShape
  BY DEF Init, LeaseShape
<1>4. WorkerShape
  BY DEF Init, WorkerShape, WorkerFact
<1> QED
  BY <1>1, <1>2, <1>3, <1>4 DEF SafetyInv

\* What is said of runs and rows survives a step that leaves them alone.
LEMMA RowFrame ==
  ASSUME RowInv, UNCHANGED <<status, cancel, queue, by, attempt>>
  PROVE  RowInv'
  BY DEF RowInv, RowShape, QueuedIsClaimable, RowsAgree, CancelledOnRequest, NoReplay, Settled

\* What is said of leases survives a step that leaves them alone.
LEMMA LeaseFrame ==
  ASSUME LeaseShape, UNCHANGED <<queue, expired, past>>
  PROVE  LeaseShape'
  BY DEF LeaseShape, Claims

\* Closing a row ends its lease everywhere.
LEMMA CloseRowLease ==
  ASSUME TypeOK, LeaseShape, NEW r \in Runs, NEW q \in Closed, CloseRow(r, q)
  PROVE  LeaseShape'
  BY DEF TypeOK, LeaseShape, CloseRow, FreshLease, Claims, Closed

\* Giving one row a fresh lease, or taking its lease away, leaves every
\* worker's reading of the clock consistent with the others.
LEMMA FreshLeaseShape ==
  ASSUME TypeOK, LeaseShape, NEW r \in Runs, FreshLease(r), UNCHANGED queue
  PROVE  LeaseShape'
  BY DEF TypeOK, LeaseShape, FreshLease, Claims

\* The run of worker v is not reopened, its cancellation is not withdrawn, and
\* it is not finished by somebody else while its row is claimed by v.
Kept(v) ==
  LET r == job[v] IN
  /\ cancel[r] => cancel'[r]
  /\ Settled(r) => status'[r] = status[r]
  /\ queue'[r] = "claimed" /\ by'[r] = v =>
       queue[r] = "claimed" /\ by[r] = v /\ status'[r] = status[r]

\* What a worker relies on survives every step of somebody else that does not
\* reopen its run and does not finish the run of a row it has claimed.
LEMMA OtherWorker ==
  ASSUME TypeOK, NEW v \in Workers, WorkerFact(v),
         pc'[v] = pc[v], job'[v] = job[v], out'[v] = out[v], lost'[v] = lost[v],
         job[v] \in Runs => Kept(v)
  PROVE  WorkerFact(v)'
<1>1. CASE job[v] \in Runs
  BY <1>1 DEF Kept, WorkerFact, Settled, Terminal
<1>2. CASE job[v] \notin Runs
  <2>1. pc[v] \notin Busy
    BY <1>2 DEF TypeOK
  <2> QED
    BY <2>1 DEF WorkerFact, Busy, Beating
<1> QED
  BY <1>1, <1>2

\* transition_playbook_run changes one run, and only if it has no terminal
\* status yet.
LEMMA SettleEffect ==
  ASSUME TypeOK, NEW r \in Runs, NEW s \in Terminal, Settle(r, s)
  PROVE  \A x \in Runs : status'[x] = IF x = r /\ ~Settled(r) THEN s ELSE status[x]
  BY DEF TypeOK, Settle, Settled

\* Closing a row leaves its attempt and the worker it is claimed by.
LEMMA CloseRowEffect ==
  ASSUME TypeOK, NEW r \in Runs, NEW q \in Closed, CloseRow(r, q)
  PROVE  /\ \A x \in Runs : queue'[x] = IF x = r THEN q ELSE queue[x]
         /\ by' = by /\ attempt' = attempt
  BY DEF TypeOK, CloseRow

\* Every action keeps the inductive invariant: one step for each of them.
LEMMA SafetyStep == SafetyInv /\ [Next]_vars => SafetyInv'
<1> SUFFICES ASSUME SafetyInv, [Next]_vars PROVE SafetyInv'
  OBVIOUS
<1>0. TypeOK /\ TypeOK' /\ RowInv /\ LeaseShape /\ WorkerShape
  BY TypeStep DEF SafetyInv, RowInv
<1> SUFFICES RowInv' /\ LeaseShape' /\ WorkerShape'
  BY <1>0 DEF SafetyInv, RowInv
<1> USE DEF runVars, rowVars, leaseVars, workVars
<1>1. ASSUME NEW r \in Runs, Enqueue(r) PROVE RowInv' /\ LeaseShape' /\ WorkerShape'
  <2>1. RowInv'
    BY <1>0, <1>1 DEF TypeOK, Enqueue, RowInv, RowShape, QueuedIsClaimable, RowsAgree, CancelledOnRequest, NoReplay, Settled, Terminal, Closed
  <2>2. LeaseShape'
    BY <1>0, <1>1 DEF TypeOK, LeaseShape, Claims, Enqueue
  <2>3. WorkerShape'
    BY <1>0, <1>1 DEF TypeOK, WorkerShape, WorkerFact, Settled, Terminal, RowInv, RowShape, Enqueue
  <2> QED
    BY <2>1, <2>2, <2>3
<1>2. ASSUME NEW r \in Runs, AbandonedLeaseEnds(r) PROVE RowInv' /\ LeaseShape' /\ WorkerShape'
  <2>1. RowInv'
    BY <1>0, <1>2, RowFrame DEF AbandonedLeaseEnds, LeaseEnds
  <2>2. LeaseShape'
    BY <1>0, <1>2 DEF TypeOK, LeaseShape, AbandonedLeaseEnds, LeaseEnds, Claims
  <2>3. WorkerShape'
    BY <1>0, <1>2 DEF TypeOK, WorkerShape, WorkerFact, Settled, Terminal, AbandonedLeaseEnds, LeaseEnds
  <2> QED
    BY <2>1, <2>2, <2>3
<1>3. ASSUME NEW r \in Runs, Stall(r) PROVE RowInv' /\ LeaseShape' /\ WorkerShape'
  <2>1. RowInv'
    BY <1>0, <1>3, RowFrame DEF Stall, LeaseEnds
  <2>2. LeaseShape'
    BY <1>0, <1>3 DEF TypeOK, LeaseShape, Stall, LeaseEnds, Claims
  <2>3. WorkerShape'
    BY <1>0, <1>3 DEF TypeOK, WorkerShape, WorkerFact, Settled, Terminal, Stall, LeaseEnds
  <2> QED
    BY <2>1, <2>2, <2>3
<1>4. ASSUME NEW j \in live, OrphanEnds(j[1], j[2]) PROVE RowInv' /\ LeaseShape' /\ WorkerShape'
  <2>1. RowInv'
    BY <1>0, <1>4, RowFrame DEF OrphanEnds
  <2>2. LeaseShape'
    BY <1>0, <1>4, LeaseFrame DEF OrphanEnds
  <2>3. WorkerShape'
    BY <1>0, <1>4 DEF TypeOK, WorkerShape, WorkerFact, Settled, Terminal, OrphanEnds
  <2> QED
    BY <2>1, <2>2, <2>3
<1>5. ASSUME NEW w \in Workers, ReadNow(w) PROVE RowInv' /\ LeaseShape' /\ WorkerShape'
  <2>1. RowInv'
    BY <1>0, <1>5, RowFrame DEF ReadNow
  <2>2. LeaseShape'
    BY <1>0, <1>5 DEF TypeOK, LeaseShape, Claims, ReadNow
  <2>3. WorkerShape'
    BY <1>0, <1>5 DEF TypeOK, WorkerShape, WorkerFact, Settled, Terminal, ReadNow, Goto
  <2> QED
    BY <2>1, <2>2, <2>3
<1>6. ASSUME NEW w \in Workers, NothingToClaim(w) PROVE RowInv' /\ LeaseShape' /\ WorkerShape'
  <2>1. RowInv'
    BY <1>0, <1>6, RowFrame DEF NothingToClaim
  <2>2. LeaseShape'
    BY <1>0, <1>6, LeaseFrame DEF NothingToClaim
  <2>3. WorkerShape'
    BY <1>0, <1>6 DEF TypeOK, WorkerShape, WorkerFact, Settled, Terminal, NothingToClaim, Leave
  <2> QED
    BY <2>1, <2>2, <2>3
<1>7. ASSUME NEW w \in Workers, StartRefused(w) PROVE RowInv' /\ LeaseShape' /\ WorkerShape'
  <2>1. RowInv'
    BY <1>0, <1>7, RowFrame DEF StartRefused
  <2>2. LeaseShape'
    BY <1>0, <1>7, LeaseFrame DEF StartRefused
  <2>3. WorkerShape'
    BY <1>0, <1>7 DEF TypeOK, WorkerShape, WorkerFact, Settled, Terminal, StartRefused, Leave
  <2> QED
    BY <2>1, <2>2, <2>3
<1>8. ASSUME NEW w \in Workers, Start(w) PROVE RowInv' /\ LeaseShape' /\ WorkerShape'
  <2>1. RowInv'
    BY <1>0, <1>8, RowFrame DEF Start
  <2>2. LeaseShape'
    BY <1>0, <1>8, LeaseFrame DEF Start
  <2>3. WorkerShape'
    BY <1>0, <1>8 DEF TypeOK, WorkerShape, WorkerFact, Settled, Terminal, Start, Goto
  <2> QED
    BY <2>1, <2>2, <2>3
<1>9. ASSUME NEW w \in Workers, Heartbeat(w) PROVE RowInv' /\ LeaseShape' /\ WorkerShape'
  <2>1. RowInv'
    BY <1>0, <1>9, RowFrame DEF Heartbeat
  <2>2. LeaseShape'
    BY <1>0, <1>9, LeaseFrame, FreshLeaseShape DEF TypeOK, Busy, Heartbeat
  <2>3. WorkerShape'
    BY <1>0, <1>9 DEF TypeOK, WorkerShape, WorkerFact, Settled, Terminal, Heartbeat
  <2> QED
    BY <2>1, <2>2, <2>3
<1>10. ASSUME NEW w \in Workers, PrepareFails(w) PROVE RowInv' /\ LeaseShape' /\ WorkerShape'
  <2>1. RowInv'
    BY <1>0, <1>10, RowFrame DEF PrepareFails
  <2>2. LeaseShape'
    BY <1>0, <1>10, LeaseFrame DEF PrepareFails
  <2>3. WorkerShape'
    BY <1>0, <1>10 DEF TypeOK, WorkerShape, WorkerFact, Settled, Terminal, PrepareFails, Goto
  <2> QED
    BY <2>1, <2>2, <2>3
<1>11. ASSUME NEW w \in Workers, CheckBeforeLaunch(w) PROVE RowInv' /\ LeaseShape' /\ WorkerShape'
  <2>1. RowInv'
    BY <1>0, <1>11, RowFrame DEF CheckBeforeLaunch
  <2>2. LeaseShape'
    BY <1>0, <1>11, LeaseFrame DEF CheckBeforeLaunch
  <2>3. WorkerShape'
    BY <1>0, <1>11 DEF TypeOK, WorkerShape, WorkerFact, Settled, Terminal, CheckBeforeLaunch, Goto, NoteCancel, Probe, ShouldCancel
  <2> QED
    BY <2>1, <2>2, <2>3
<1>12. ASSUME NEW w \in Workers, Launch(w) PROVE RowInv' /\ LeaseShape' /\ WorkerShape'
  <2>1. RowInv'
    BY <1>0, <1>12, RowFrame DEF Launch
  <2>2. LeaseShape'
    BY <1>0, <1>12, LeaseFrame DEF Launch
  <2>3. WorkerShape'
    BY <1>0, <1>12 DEF TypeOK, WorkerShape, WorkerFact, Settled, Terminal, Launch, Goto
  <2> QED
    BY <2>1, <2>2, <2>3
<1>13. ASSUME NEW w \in Workers, StopExecution(w) PROVE RowInv' /\ LeaseShape' /\ WorkerShape'
  <2>1. RowInv'
    BY <1>0, <1>13, RowFrame DEF StopExecution
  <2>2. LeaseShape'
    BY <1>0, <1>13, LeaseFrame DEF StopExecution
  <2>3. WorkerShape'
    BY <1>0, <1>13 DEF TypeOK, WorkerShape, WorkerFact, Settled, Terminal, StopExecution, Goto, NoteCancel, Probe, ShouldCancel
  <2> QED
    BY <2>1, <2>2, <2>3
<1>14. ASSUME NEW w \in Workers, NEW s \in Terminal, ExecutionEnds(w, s) PROVE RowInv' /\ LeaseShape' /\ WorkerShape'
  <2>1. RowInv'
    BY <1>0, <1>14, RowFrame DEF ExecutionEnds
  <2>2. LeaseShape'
    BY <1>0, <1>14, LeaseFrame DEF ExecutionEnds
  <2>3. WorkerShape'
    BY <1>0, <1>14 DEF TypeOK, WorkerShape, WorkerFact, Settled, Terminal, ExecutionEnds, Goto, NoteCancel, Probe, ShouldCancel
  <2> QED
    BY <2>1, <2>2, <2>3
<1>15. ASSUME NEW w \in Workers, NextCommand(w) PROVE RowInv' /\ LeaseShape' /\ WorkerShape'
  <2>1. RowInv'
    BY <1>0, <1>15, RowFrame DEF NextCommand
  <2>2. LeaseShape'
    BY <1>0, <1>15, LeaseFrame DEF NextCommand
  <2>3. WorkerShape'
    BY <1>0, <1>15 DEF TypeOK, WorkerShape, WorkerFact, Settled, Terminal, NextCommand, Goto
  <2> QED
    BY <2>1, <2>2, <2>3
<1>16. ASSUME NEW w \in Workers, CheckClaim(w) PROVE RowInv' /\ LeaseShape' /\ WorkerShape'
  <2>1. RowInv'
    BY <1>0, <1>16, RowFrame DEF CheckClaim
  <2>2. LeaseShape'
    BY <1>0, <1>16, LeaseFrame DEF CheckClaim
  <2>3. WorkerShape'
    BY <1>0, <1>16 DEF TypeOK, WorkerShape, WorkerFact, Settled, Terminal, CheckClaim, Goto, Leave
  <2> QED
    BY <2>1, <2>2, <2>3
<1>17. ASSUME NEW w \in Workers, ReadRun(w) PROVE RowInv' /\ LeaseShape' /\ WorkerShape'
  <2>1. RowInv'
    BY <1>0, <1>17, RowFrame DEF ReadRun
  <2>2. LeaseShape'
    BY <1>0, <1>17, LeaseFrame DEF ReadRun
  <2>3. WorkerShape'
    <3>1. CASE Settled(job[w]) /\ escapes[w]
      BY <1>0, <1>17, <3>1 DEF TypeOK, WorkerShape, WorkerFact, Settled, Terminal, ReadRun, Goto
    <3>2. CASE Settled(job[w]) /\ ~escapes[w]
      <4>1. job[w] \in Runs /\ status[job[w]] \in Terminal
        BY <1>0, <1>17, <3>2 DEF TypeOK, Busy, Beating, Settled, ReadRun
      <4>2. /\ pc' = [pc EXCEPT ![w] = "fin"] /\ out' = [out EXCEPT ![w] = status[job[w]]]
            /\ UNCHANGED <<runVars, rowVars, job, lost>>
        BY <1>17, <3>2 DEF ReadRun, Goto
      <4>3. \A v \in Workers \ {w} : WorkerFact(v)'
        BY <1>0, <4>2 DEF TypeOK, WorkerShape, WorkerFact, Settled
      <4>4. WorkerFact(w)'
        BY <1>0, <4>1, <4>2 DEF TypeOK, WorkerFact, Settled, Terminal, RowInv, CancelledOnRequest
      <4> QED
        BY <4>3, <4>4 DEF WorkerShape
    <3>3. CASE ~Settled(job[w])
      BY <1>0, <1>17, <3>3 DEF TypeOK, WorkerShape, WorkerFact, Settled, Terminal, ReadRun, Goto
    <3> QED
      BY <3>1, <3>2, <3>3
  <2> QED
    BY <2>1, <2>2, <2>3
<1>18. ASSUME NEW w \in Workers, Raise(w) PROVE RowInv' /\ LeaseShape' /\ WorkerShape'
  <2>1. RowInv'
    BY <1>0, <1>18, RowFrame DEF Raise
  <2>2. LeaseShape'
    BY <1>0, <1>18, LeaseFrame DEF Raise
  <2>3. WorkerShape'
    BY <1>0, <1>18 DEF TypeOK, WorkerShape, WorkerFact, Settled, Terminal, Raise, Goto, Leave, Fault
  <2> QED
    BY <2>1, <2>2, <2>3
<1>19. ASSUME NEW w \in Workers, LoseLease(w) PROVE RowInv' /\ LeaseShape' /\ WorkerShape'
  <2>1. RowInv'
    BY <1>0, <1>19, RowFrame DEF LoseLease
  <2>2. LeaseShape'
    BY <1>0, <1>19, LeaseFrame DEF LoseLease
  <2>3. WorkerShape'
    BY <1>0, <1>19 DEF TypeOK, WorkerShape, WorkerFact, Settled, Terminal, LoseLease, Fault
  <2> QED
    BY <2>1, <2>2, <2>3
<1>20. ASSUME NEW w \in Workers, Crash(w) PROVE RowInv' /\ LeaseShape' /\ WorkerShape'
  <2>1. RowInv'
    BY <1>0, <1>20, RowFrame DEF Crash
  <2>2. LeaseShape'
    BY <1>0, <1>20, LeaseFrame DEF Crash
  <2>3. WorkerShape'
    BY <1>0, <1>20 DEF TypeOK, WorkerShape, WorkerFact, Settled, Terminal, Crash, Leave, Fault
  <2> QED
    BY <2>1, <2>2, <2>3
<1>21. ASSUME NEW w \in Workers, Restart(w) PROVE RowInv' /\ LeaseShape' /\ WorkerShape'
  <2>1. RowInv'
    BY <1>0, <1>21, RowFrame DEF Restart
  <2>2. LeaseShape'
    BY <1>0, <1>21 DEF TypeOK, LeaseShape, Claims, Restart
  <2>3. WorkerShape'
    BY <1>0, <1>21 DEF TypeOK, WorkerShape, WorkerFact, Settled, Terminal, Restart, Goto
  <2> QED
    BY <2>1, <2>2, <2>3
<1>22. ASSUME NEW r \in Runs, Cancel(r) PROVE RowInv' /\ LeaseShape' /\ WorkerShape'
  <2>1. RowInv'
    <3>1. CASE queue[r] = "queued"
      BY <1>0, <1>22, <3>1 DEF TypeOK, Cancel, CloseRow, Settle, RowInv, RowShape, QueuedIsClaimable, RowsAgree, CancelledOnRequest, NoReplay, Settled, Terminal, Closed
    <3>2. CASE queue[r] # "queued"
      BY <1>0, <1>22, <3>2 DEF TypeOK, Cancel, RowInv, RowShape, QueuedIsClaimable, RowsAgree, CancelledOnRequest, NoReplay, Settled, Terminal, Closed
    <3> QED
      BY <3>1, <3>2
  <2>2. LeaseShape'
    BY <1>0, <1>22, CloseRowLease, LeaseFrame DEF Cancel, Closed
  <2>3. WorkerShape'
    <3>1. CASE queue[r] = "queued"
      <4>1. ~Settled(r)
        BY <1>0, <3>1 DEF RowInv, QueuedIsClaimable, Settled, Terminal
      <4>2. \A x \in Runs : x # r => status'[x] = status[x] /\ queue'[x] = queue[x]
        BY <1>0, <1>22, <3>1, SettleEffect, CloseRowEffect DEF Cancel, Terminal, Closed
      <4>3. queue'[r] = "canceled" /\ by' = by
        BY <1>0, <1>22, <3>1, CloseRowEffect DEF Cancel, Closed
      <4>4. \A x \in Runs : cancel[x] => cancel'[x]
        BY <1>0, <1>22 DEF Cancel, TypeOK
      <4>5. UNCHANGED <<pc, job, out, lost>>
        BY <1>0, <1>22 DEF Cancel
      <4>6. \A v \in Workers : job[v] \in Runs => Kept(v)
        BY <4>1, <4>2, <4>3, <4>4 DEF Kept
      <4> QED
        BY <1>0, <4>5, <4>6, OtherWorker DEF WorkerShape
    <3>2. CASE queue[r] # "queued"
      BY <1>0, <1>22, <3>2 DEF TypeOK, WorkerShape, WorkerFact, Settled, Terminal, Cancel
    <3> QED
      BY <3>1, <3>2
  <2> QED
    BY <2>1, <2>2, <2>3
<1>23. ASSUME NEW w \in Workers, NEW r \in Runs, Recover(w, r) PROVE RowInv' /\ LeaseShape' /\ WorkerShape'
  <2>0. queue[r] = "claimed"
    BY <1>0, <1>23 DEF Recover, LeaseShape, Claims
  <2>a. CASE Settled(r) /\ CloseRow(r, Mirror(status[r])) /\ UNCHANGED status
    <3>1. RowInv'
      BY <1>0, <1>23, <2>0, <2>a DEF TypeOK, Recover, CloseRow, Mirror, RowInv, RowShape, QueuedIsClaimable, RowsAgree, CancelledOnRequest, NoReplay, Settled, Terminal, Closed
    <3>2. LeaseShape'
      BY <1>0, <1>23, <2>a, CloseRowLease DEF Mirror, Closed
    <3>3. WorkerShape'
      BY <1>0, <1>23, <2>0, <2>a DEF TypeOK, WorkerShape, WorkerFact, Settled, Terminal, Recover, CloseRow, Mirror
    <3> QED
      BY <3>1, <3>2, <3>3
  <2>b. CASE ~Settled(r) /\ cancel[r] /\ CloseRow(r, "canceled") /\ Settle(r, "cancelled")
    <3>1. RowInv'
      BY <1>0, <1>23, <2>0, <2>b DEF TypeOK, Recover, CloseRow, Settle, RowInv, RowShape, QueuedIsClaimable, RowsAgree, CancelledOnRequest, NoReplay, Settled, Terminal, Closed
    <3>2. LeaseShape'
      BY <1>0, <1>23, <2>b, CloseRowLease DEF Closed
    <3>3. WorkerShape'
      BY <1>0, <1>23, <2>0, <2>b DEF TypeOK, WorkerShape, WorkerFact, Settled, Terminal, Recover, CloseRow, Settle
    <3> QED
      BY <3>1, <3>2, <3>3
  <2>c. CASE ~Settled(r) /\ ~cancel[r] /\ r \in RetrySafe /\ Requeue(r)
    <3>1. RowInv'
      BY <1>0, <1>23, <2>0, <2>c DEF TypeOK, Recover, Requeue, RowInv, RowShape, QueuedIsClaimable, RowsAgree, CancelledOnRequest, NoReplay, Settled, Terminal, Closed
    <3>2. LeaseShape'
      BY <1>0, <1>23, <2>0, <2>c DEF TypeOK, LeaseShape, Claims, Requeue, FreshLease
    <3>3. WorkerShape'
      BY <1>0, <1>23, <2>0, <2>c DEF TypeOK, WorkerShape, WorkerFact, Settled, Terminal, Recover, Requeue
    <3> QED
      BY <3>1, <3>2, <3>3
  <2>d. CASE ~Settled(r) /\ ~cancel[r] /\ CloseRow(r, "interrupted") /\ Settle(r, "failed")
    <3>1. RowInv'
      BY <1>0, <1>23, <2>0, <2>d DEF TypeOK, Recover, CloseRow, Settle, RowInv, RowShape, QueuedIsClaimable, RowsAgree, CancelledOnRequest, NoReplay, Settled, Terminal, Closed
    <3>2. LeaseShape'
      BY <1>0, <1>23, <2>d, CloseRowLease DEF Closed
    <3>3. WorkerShape'
      BY <1>0, <1>23, <2>0, <2>d DEF TypeOK, WorkerShape, WorkerFact, Settled, Terminal, Recover, CloseRow, Settle
    <3> QED
      BY <3>1, <3>2, <3>3
  <2>1. RowInv'
    BY <1>23, <2>a, <2>b, <2>c, <2>d DEF Recover, RecoverRow, MayRequeue
  <2>2. LeaseShape'
    BY <1>23, <2>a, <2>b, <2>c, <2>d DEF Recover, RecoverRow, MayRequeue
  <2>3. WorkerShape'
    BY <1>23, <2>a, <2>b, <2>c, <2>d DEF Recover, RecoverRow, MayRequeue
  <2> QED
    BY <2>1, <2>2, <2>3
<1>24. ASSUME NEW w \in Workers, NEW r \in Runs, Claim(w, r) PROVE RowInv' /\ LeaseShape' /\ WorkerShape'
  <2>0. queue[r] = "queued" /\ status[r] = "pending"
    BY <1>0, <1>24 DEF Claim, Chosen, Candidates
  <2>1. RowInv'
    BY <1>0, <1>24, <2>0 DEF TypeOK, Claim, RowInv, RowShape, QueuedIsClaimable, RowsAgree, CancelledOnRequest, NoReplay, Settled, Terminal, Closed
  <2>2. LeaseShape'
    BY <1>0, <1>24, <2>0 DEF TypeOK, LeaseShape, Claims, Claim
  <2>3. WorkerShape'
    <3>1. \A v \in Workers \ {w} : pc'[v] = pc[v] /\ job'[v] = job[v]
      BY <1>0, <1>24 DEF TypeOK, Claim, Goto
    <3>2. pc'[w] = "start" /\ job'[w] = r
      BY <1>0, <1>24 DEF TypeOK, Claim, Goto
    <3>3. by'[r] = w /\ queue'[r] = "claimed"
      BY <1>0, <1>24 DEF TypeOK, Claim
    <3>4. \A x \in Runs \ {r} : queue'[x] = queue[x] /\ by'[x] = by[x]
      BY <1>0, <1>24 DEF TypeOK, Claim
    <3>5. UNCHANGED <<status, cancel, out, lost>>
      BY <1>0, <1>24 DEF Claim
    <3>6. ASSUME NEW v \in Workers \ {w} PROVE WorkerFact(v)'
      <4>1. job[v] \in Runs => Kept(v)
        BY <3>3, <3>4, <3>5 DEF Kept
      <4> QED
        BY <1>0, <3>1, <3>5, <3>6, <4>1, OtherWorker DEF WorkerShape
    <3>7. WorkerFact(w)'
      BY <2>0, <3>2, <3>5 DEF WorkerFact, Settled, Terminal
    <3> QED
      BY <3>6, <3>7 DEF WorkerShape
  <2> QED
    BY <2>1, <2>2, <2>3
<1>25. ASSUME NEW w \in Workers, NEW r \in Runs, RejectTargets(w, r) PROVE RowInv' /\ LeaseShape' /\ WorkerShape'
  <2>0. queue[r] = "queued" /\ status[r] = "pending"
    BY <1>0, <1>25 DEF RejectTargets, Chosen, Candidates
  <2>1. RowInv'
    BY <1>0, <1>25, <2>0 DEF TypeOK, RejectTargets, CloseRow, Settle, RowInv, RowShape, QueuedIsClaimable, RowsAgree, CancelledOnRequest, NoReplay, Settled, Terminal, Closed
  <2>2. LeaseShape'
    BY <1>0, <1>25, CloseRowLease DEF RejectTargets, Closed
  <2>3. WorkerShape'
    BY <1>0, <1>25, <2>0 DEF TypeOK, WorkerShape, WorkerFact, Settled, Terminal, RejectTargets, CloseRow, Settle, Leave
  <2> QED
    BY <2>1, <2>2, <2>3
<1>26. ASSUME NEW w \in Workers, SaveRunning(w) PROVE RowInv' /\ LeaseShape' /\ WorkerShape'
  <2>1. RowInv'
    <3>1. CASE OwnsClaim(w)
      BY <1>0, <1>26, <3>1 DEF TypeOK, SaveRunning, OwnsClaim, FenceOwned, RowInv, RowShape, QueuedIsClaimable, RowsAgree, CancelledOnRequest, NoReplay, Settled, Terminal, Closed
    <3>2. CASE ~OwnsClaim(w)
      BY <1>0, <1>26, <3>2, RowFrame DEF SaveRunning
    <3> QED
      BY <3>1, <3>2
  <2>2. LeaseShape'
    BY <1>0, <1>26, LeaseFrame DEF SaveRunning
  <2>3. WorkerShape'
    <3>1. CASE OwnsClaim(w)
      <4>1. ASSUME NEW v \in Workers \ {w} PROVE WorkerFact(v)'
        <5>1. pc'[v] = pc[v] /\ job'[v] = job[v] /\ out'[v] = out[v] /\ lost'[v] = lost[v]
          BY <1>0, <1>26, <3>1 DEF TypeOK, SaveRunning, Goto
        <5>2. \A x \in Runs : status'[x] = status[x] \/ (x = job[w] /\ ~Settled(x))
          BY <1>0, <1>26, <3>1 DEF TypeOK, SaveRunning
        <5>3. UNCHANGED <<cancel, queue, by>>
          BY <1>0, <1>26 DEF SaveRunning
        <5>4. by[job[w]] = w
          BY <3>1 DEF OwnsClaim, FenceOwned
        <5>5. job[v] \in Runs => Kept(v)
          BY <4>1, <5>2, <5>3, <5>4 DEF Kept
        <5> QED
          BY <1>0, <4>1, <5>1, <5>5, OtherWorker DEF WorkerShape
      <4>2. WorkerFact(w)'
        BY <1>0, <1>26, <3>1 DEF TypeOK, WorkerShape, WorkerFact, FenceOwned, OwnsClaim, Settled, Terminal, SaveRunning, Goto
      <4> QED
        BY <4>1, <4>2 DEF WorkerShape
    <3>2. CASE ~OwnsClaim(w)
      BY <1>0, <1>26, <3>2 DEF TypeOK, WorkerShape, WorkerFact, Settled, Terminal, SaveRunning, Refused, Goto
    <3> QED
      BY <3>1, <3>2
  <2> QED
    BY <2>1, <2>2, <2>3
<1>27. ASSUME NEW w \in Workers, SaveOutcome(w) PROVE RowInv' /\ LeaseShape' /\ WorkerShape'
  <2>1. RowInv'
    <3>1. CASE OwnsClaim(w)
      BY <1>0, <1>27, <3>1 DEF TypeOK, WorkerShape, WorkerFact, SaveOutcome, Settle, OwnsClaim, FenceOwned, RowInv, RowShape, QueuedIsClaimable, RowsAgree, CancelledOnRequest, NoReplay, Settled, Terminal, Closed
    <3>2. CASE ~OwnsClaim(w)
      BY <1>0, <1>27, <3>2, RowFrame DEF SaveOutcome
    <3> QED
      BY <3>1, <3>2
  <2>2. LeaseShape'
    BY <1>0, <1>27, LeaseFrame DEF SaveOutcome
  <2>3. WorkerShape'
    <3>1. CASE OwnsClaim(w)
      <4>1. ASSUME NEW v \in Workers \ {w} PROVE WorkerFact(v)'
        <5>1. pc'[v] = pc[v] /\ job'[v] = job[v] /\ out'[v] = out[v] /\ lost'[v] = lost[v]
          BY <1>0, <1>27, <3>1 DEF TypeOK, SaveOutcome, Settle, Goto
        <5>2. \A x \in Runs : status'[x] = status[x] \/ (x = job[w] /\ ~Settled(x))
          BY <1>0, <1>27, <3>1 DEF TypeOK, Settle, SaveOutcome
        <5>3. UNCHANGED <<cancel, queue, by>>
          BY <1>0, <1>27 DEF SaveOutcome
        <5>4. by[job[w]] = w
          BY <3>1 DEF OwnsClaim, FenceOwned
        <5>5. job[v] \in Runs => Kept(v)
          BY <4>1, <5>2, <5>3, <5>4 DEF Kept
        <5> QED
          BY <1>0, <4>1, <5>1, <5>5, OtherWorker DEF WorkerShape
      <4>2. WorkerFact(w)'
        BY <1>0, <1>27, <3>1 DEF TypeOK, WorkerShape, WorkerFact, FenceOwned, OwnsClaim, Settled, Terminal, SaveOutcome, Settle, Goto
      <4> QED
        BY <4>1, <4>2 DEF WorkerShape
    <3>2. CASE ~OwnsClaim(w)
      BY <1>0, <1>27, <3>2 DEF TypeOK, WorkerShape, WorkerFact, Settled, Terminal, SaveOutcome, Refused, Goto
    <3> QED
      BY <3>1, <3>2
  <2> QED
    BY <2>1, <2>2, <2>3
<1>28. ASSUME NEW w \in Workers, PersistFallback(w) PROVE RowInv' /\ LeaseShape' /\ WorkerShape'
  <2>1. RowInv'
    <3>1. CASE FenceOwned(w) /\ ~Settled(job[w])
      BY <1>0, <1>28, <3>1 DEF TypeOK, WorkerShape, WorkerFact, PersistFallback, Settle, FenceOwned, RowInv, RowShape, QueuedIsClaimable, RowsAgree, CancelledOnRequest, NoReplay, Settled, Terminal, Closed
    <3>2. CASE ~(FenceOwned(w) /\ ~Settled(job[w]))
      BY <1>0, <1>28, <3>2, RowFrame DEF PersistFallback
    <3> QED
      BY <3>1, <3>2
  <2>2. LeaseShape'
    BY <1>0, <1>28, LeaseFrame DEF PersistFallback
  <2>3. WorkerShape'
    <3>1. CASE FenceOwned(w) /\ ~Settled(job[w])
      <4>1. ASSUME NEW v \in Workers \ {w} PROVE WorkerFact(v)'
        <5>1. pc'[v] = pc[v] /\ job'[v] = job[v] /\ out'[v] = out[v] /\ lost'[v] = lost[v]
          BY <1>0, <1>28, <3>1 DEF TypeOK, PersistFallback, Settle, Goto
        <5>2. \A x \in Runs : status'[x] = status[x] \/ (x = job[w] /\ ~Settled(x))
          BY <1>0, <1>28, <3>1 DEF TypeOK, Settle, PersistFallback
        <5>3. UNCHANGED <<cancel, queue, by>>
          BY <1>0, <1>28 DEF PersistFallback
        <5>4. by[job[w]] = w
          BY <3>1 DEF FenceOwned
        <5>5. job[v] \in Runs => Kept(v)
          BY <4>1, <5>2, <5>3, <5>4 DEF Kept
        <5> QED
          BY <1>0, <4>1, <5>1, <5>5, OtherWorker DEF WorkerShape
      <4>2. WorkerFact(w)'
        <5>1. WorkerFact(w) /\ job[w] \in Runs
          BY <1>0, <1>28 DEF TypeOK, WorkerShape, PersistFallback, Busy, Beating
        <5>2. out[w] \in {"failed", "cancelled"} /\ (out[w] = "cancelled" => cancel[job[w]])
          BY <1>0, <1>28, <5>1 DEF WorkerFact, PersistFallback
        <5>3. status'[job[w]] = out[w]
          <6>1. Settle(job[w], out[w]) /\ out[w] \in Terminal
            BY <1>28, <3>1, <5>2 DEF PersistFallback, Terminal
          <6> QED
            BY <1>0, <3>1, <5>1, <6>1, SettleEffect
        <5>4. pc'[w] = "fin" /\ job'[w] = job[w] /\ out'[w] = out[w] /\ cancel' = cancel
          BY <1>0, <1>28, <3>1 DEF TypeOK, PersistFallback, Goto
        <5> QED
          BY <5>2, <5>3, <5>4 DEF WorkerFact, Settled, Terminal
      <4> QED
        BY <4>1, <4>2 DEF WorkerShape
    <3>2. CASE ~(FenceOwned(w) /\ ~Settled(job[w]))
      BY <1>0, <1>28, <3>2 DEF TypeOK, WorkerShape, WorkerFact, Settled, Terminal, PersistFallback, Leave
    <3> QED
      BY <3>1, <3>2
  <2> QED
    BY <2>1, <2>2, <2>3
<1>29. ASSUME NEW w \in Workers, FinishCanceled(w) PROVE RowInv' /\ LeaseShape' /\ WorkerShape'
  <2>0. job[w] \in Runs
    BY <1>0, <1>29 DEF TypeOK, FinishCanceled, Busy, Beating
  <2>1. RowInv'
    <3>1. CASE FenceOwned(w)
      <4>1. /\ cancel[job[w]] /\ status[job[w]] \notin {"completed", "failed", "partial"}
            /\ queue[job[w]] = "claimed"
        BY <1>0, <1>29, <3>1 DEF WorkerShape, WorkerFact, FinishCanceled, FenceOwned
      <4>2. \A x \in Runs : status'[x] = IF x = job[w] THEN "cancelled" ELSE status[x]
        <5>1. Settle(job[w], "cancelled") /\ "cancelled" \in Terminal
          BY <1>29, <3>1 DEF FinishCanceled, Terminal
        <5>2. \A x \in Runs : status'[x] = IF x = job[w] /\ ~Settled(job[w])
                                           THEN "cancelled" ELSE status[x]
          BY <1>0, <2>0, <5>1, SettleEffect
        <5>3. Settled(job[w]) => status[job[w]] = "cancelled"
          BY <4>1 DEF Settled, Terminal
        <5> QED
          BY <5>2, <5>3
      <4>3. /\ \A x \in Runs : queue'[x] = IF x = job[w] THEN "canceled" ELSE queue[x]
            /\ UNCHANGED <<cancel, by, attempt>>
        BY <1>0, <1>29, <2>0, <3>1, CloseRowEffect DEF FinishCanceled, Closed
      <4>4. RowShape'
        BY <1>0, <4>1, <4>2, <4>3 DEF TypeOK, RowInv, RowShape
      <4>5. QueuedIsClaimable' /\ CancelledOnRequest' /\ NoReplay'
        BY <1>0, <4>1, <4>2, <4>3
           DEF TypeOK, RowInv, QueuedIsClaimable, CancelledOnRequest, NoReplay
      <4>6. RowsAgree'
        BY <1>0, <4>2, <4>3 DEF RowInv, RowsAgree, Settled, Terminal, Closed
      <4> QED
        BY <4>4, <4>5, <4>6 DEF RowInv
    <3>2. CASE ~FenceOwned(w)
      BY <1>0, <1>29, <3>2, RowFrame DEF FinishCanceled
    <3> QED
      BY <3>1, <3>2
  <2>2. LeaseShape'
    BY <1>0, <1>29, <2>0, CloseRowLease, LeaseFrame DEF FinishCanceled, Closed
  <2>3. WorkerShape'
    <3>1. CASE FenceOwned(w)
      <4>1. ASSUME NEW v \in Workers \ {w} PROVE WorkerFact(v)'
        <5>1. pc'[v] = pc[v] /\ job'[v] = job[v] /\ out'[v] = out[v] /\ lost'[v] = lost[v]
          BY <1>0, <1>29, <3>1 DEF TypeOK, FinishCanceled, CloseRow, Settle, Leave
        <5>2. \A x \in Runs : status'[x] = status[x] \/ (x = job[w] /\ ~Settled(x))
          <6>1. Settle(job[w], "cancelled") /\ "cancelled" \in Terminal
            BY <1>29, <3>1 DEF FinishCanceled, Terminal
          <6>2. \A x \in Runs : status'[x] = IF x = job[w] /\ ~Settled(job[w])
                                             THEN "cancelled" ELSE status[x]
            BY <1>0, <2>0, <6>1, SettleEffect
          <6> QED
            BY <6>2
        <5>3. UNCHANGED <<cancel, by>> /\ \A x \in Runs : queue'[x] = "claimed" => queue[x] = "claimed"
          BY <1>0, <1>29, <2>0, <3>1, CloseRowEffect DEF FinishCanceled, Closed
        <5>4. by[job[w]] = w
          BY <3>1 DEF FenceOwned
        <5>5. job[v] \in Runs => Kept(v)
          BY <4>1, <5>2, <5>3, <5>4 DEF Kept
        <5> QED
          BY <1>0, <4>1, <5>1, <5>5, OtherWorker DEF WorkerShape
      <4>2. WorkerFact(w)'
        BY <1>0, <1>29, <3>1 DEF TypeOK, WorkerShape, WorkerFact, FenceOwned, OwnsClaim, Settled, Terminal, FinishCanceled, CloseRow, Settle, Leave
      <4> QED
        BY <4>1, <4>2 DEF WorkerShape
    <3>2. CASE ~FenceOwned(w)
      BY <1>0, <1>29, <3>2 DEF TypeOK, WorkerShape, WorkerFact, Settled, Terminal, FinishCanceled, Leave
    <3> QED
      BY <3>1, <3>2
  <2> QED
    BY <2>1, <2>2, <2>3
<1>30. ASSUME NEW w \in Workers, Complete(w) PROVE RowInv' /\ LeaseShape' /\ WorkerShape'
  <2>0. job[w] \in Runs
    BY <1>0, <1>30 DEF TypeOK, Complete, Busy, Beating
  <2>1. RowInv'
    <3>1. CASE CloseRow(job[w], "completed")
      BY <1>0, <1>30, <2>0, <3>1 DEF TypeOK, WorkerShape, WorkerFact, Complete, CloseRow, RowInv, RowShape, QueuedIsClaimable, RowsAgree, CancelledOnRequest, NoReplay, Settled, Terminal, Closed
    <3>2. CASE UNCHANGED <<rowVars, leaseVars>>
      BY <1>0, <1>30, <3>2, RowFrame DEF Complete
    <3> QED
      BY <1>30, <3>1, <3>2 DEF Complete
  <2>2. LeaseShape'
    BY <1>0, <1>30, <2>0, CloseRowLease, LeaseFrame DEF Complete, Closed
  <2>3. WorkerShape'
    <3>1. CASE CloseRow(job[w], "completed")
      BY <1>0, <1>30, <3>1 DEF TypeOK, WorkerShape, WorkerFact, Settled, Terminal, Complete, CloseRow, Leave
    <3>2. CASE UNCHANGED <<rowVars, leaseVars>>
      BY <1>0, <1>30, <3>2 DEF TypeOK, WorkerShape, WorkerFact, Settled, Terminal, Complete, Leave
    <3> QED
      BY <1>30, <3>1, <3>2 DEF Complete
  <2> QED
    BY <2>1, <2>2, <2>3
<1>31. ASSUME NEW w \in Workers, Fail(w) PROVE RowInv' /\ LeaseShape' /\ WorkerShape'
  <2>0. job[w] \in Runs
    BY <1>0, <1>31 DEF TypeOK, Fail, Busy, Beating
  <2>1. RowInv'
    <3>1. CASE CloseRow(job[w], "failed")
      BY <1>0, <1>31, <2>0, <3>1 DEF TypeOK, WorkerShape, WorkerFact, Fail, CloseRow, RowInv, RowShape, QueuedIsClaimable, RowsAgree, CancelledOnRequest, NoReplay, Settled, Terminal, Closed
    <3>2. CASE UNCHANGED <<rowVars, leaseVars>>
      BY <1>0, <1>31, <3>2, RowFrame DEF Fail
    <3> QED
      BY <1>31, <3>1, <3>2 DEF Fail
  <2>2. LeaseShape'
    BY <1>0, <1>31, <2>0, CloseRowLease, LeaseFrame DEF Fail, Closed
  <2>3. WorkerShape'
    <3>1. CASE CloseRow(job[w], "failed")
      BY <1>0, <1>31, <3>1 DEF TypeOK, WorkerShape, WorkerFact, Settled, Terminal, Fail, CloseRow, Leave
    <3>2. CASE UNCHANGED <<rowVars, leaseVars>>
      BY <1>0, <1>31, <3>2 DEF TypeOK, WorkerShape, WorkerFact, Settled, Terminal, Fail, Leave
    <3> QED
      BY <1>31, <3>1, <3>2 DEF Fail
  <2> QED
    BY <2>1, <2>2, <2>3
<1>32. CASE UNCHANGED vars
  <2>1. RowInv'
    BY <1>0, <1>32, RowFrame DEF vars
  <2>2. LeaseShape'
    BY <1>0, <1>32, LeaseFrame DEF vars
  <2>3. WorkerShape'
    BY <1>0, <1>32 DEF WorkerShape, WorkerFact, Settled, vars
  <2> QED
    BY <2>1, <2>2, <2>3
<1> QED
  BY <1>1, <1>2, <1>3, <1>4, <1>5, <1>6, <1>7, <1>8, <1>9, <1>10, <1>11, <1>12, <1>13, <1>14, <1>15, <1>16, <1>17, <1>18, <1>19, <1>20, <1>21, <1>22, <1>23, <1>24, <1>25, <1>26, <1>27, <1>28, <1>29, <1>30, <1>31, <1>32
     DEF Next, Step, Claiming, Running, Finalizing

\* The inductive invariant holds of every reachable state.
LEMMA SafetyAlways == Spec => []SafetyInv
  BY SafetyInit, SafetyStep, PTL DEF Spec

\* A queued row can always be claimed by somebody: no step leaves a run in the
\* queue that its cancellation or its outcome has already decided.
THEOREM QueuedStaysClaimable == Spec => []QueuedIsClaimable
<1>1. SafetyInv => QueuedIsClaimable
  BY DEF SafetyInv
<1> QED
  BY <1>1, SafetyAlways, PTL

\* Rows and runs agree about how a run ended, although complete_ and
\* fail_playbook_dispatch check neither the lease nor that the row is claimed.
THEOREM RowsAlwaysAgree == Spec => []RowsAgree
<1>1. SafetyInv => RowsAgree
  BY DEF SafetyInv
<1> QED
  BY <1>1, SafetyAlways, PTL

\* Losing a lease never turns into a cancellation nobody asked for.
THEOREM CancelledOnlyOnRequest == Spec => []CancelledOnRequest
<1>1. SafetyInv => CancelledOnRequest
  BY DEF SafetyInv
<1> QED
  BY <1>1, SafetyAlways, PTL

\* Without the retry-safe flag a run is attempted at most once, for any number
\* of workers, crashes and recoveries.
THEOREM NeverReplayed == Spec => []NoReplay
<1>1. SafetyInv => NoReplay
  BY DEF SafetyInv
<1> QED
  BY <1>1, SafetyAlways, PTL

-----------------------------------------------------------------------------
(***************************************************************************)
(* The concurrency limits.                                                 *)
(***************************************************************************)

\* Only a claim adds a claimed row.
LEMMA ClaimsShrink ==
  ASSUME TypeOK, LeaseShape, [Next]_vars,
         ~ \E w \in Workers, r \in Runs : Claim(w, r)
  PROVE  Claims' \subseteq Claims
<1> SUFFICES ASSUME NEW x \in Runs, queue'[x] = "claimed" PROVE queue[x] = "claimed"
  BY DEF Claims
<1> USE DEF TypeOK, Closed, rowVars, leaseVars, runVars, workVars
<1>1. ASSUME NEW r \in Runs, Enqueue(r) PROVE queue[x] = "claimed"
  BY <1>1 DEF Enqueue
<1>2. ASSUME NEW r \in Runs, Cancel(r) PROVE queue[x] = "claimed"
  BY <1>2, CloseRowEffect DEF Cancel
<1>3. ASSUME NEW w \in Workers, NEW r \in Runs, Recover(w, r) PROVE queue[x] = "claimed"
  <2>1. CASE \E q \in Closed : CloseRow(r, q)
    BY <2>1, CloseRowEffect
  <2>2. CASE Requeue(r)
    BY <2>2 DEF Requeue
  <2> QED
    BY <1>3, <2>1, <2>2 DEF Recover, RecoverRow, Mirror
<1>4. ASSUME NEW w \in Workers, NEW r \in Runs, RejectTargets(w, r) PROVE queue[x] = "claimed"
  BY <1>4, CloseRowEffect DEF RejectTargets
<1>5. ASSUME NEW w \in Workers, FinishCanceled(w) \/ Complete(w) \/ Fail(w)
      PROVE queue[x] = "claimed"
  <2>1. job[w] \in Runs
    BY <1>5 DEF FinishCanceled, Complete, Fail, Busy, Beating
  <2>2. (\E q \in Closed : CloseRow(job[w], q)) \/ UNCHANGED queue
    BY <1>5 DEF FinishCanceled, Complete, Fail
  <2> HIDE DEF TypeOK
  <2>3. ASSUME NEW q \in Closed, CloseRow(job[w], q) PROVE queue[x] = "claimed"
    BY <2>1, <2>3, CloseRowEffect
  <2> QED
    BY <2>2, <2>3
<1>6. CASE UNCHANGED queue
  BY <1>6
<1> QED
  BY <1>1, <1>2, <1>3, <1>4, <1>5, <1>6, ZenonT(60)
     DEF Next, Step, Claiming, Running, Finalizing, vars, AbandonedLeaseEnds, Stall,
         LeaseEnds, OrphanEnds, ReadNow, NothingToClaim, StartRefused, Start, Heartbeat,
         PrepareFails, SaveRunning, CheckBeforeLaunch, Launch, StopExecution,
         ExecutionEnds, NextCommand, SaveOutcome, CheckClaim, ReadRun, PersistFallback,
         Raise, LoseLease, Crash, Restart

\* The claims a poll counts once it has recovered what it saw expired are all
\* the claimed rows there are: this is what makes the count exact.
LEMMA CountIsExact ==
  ASSUME NEW w \in Workers, Swept(w)
  PROVE  Current(w) = Claims
  BY DEF Swept, Current, Claims

\* The cluster-wide and the per-user limits hold of the rows at every moment,
\* for every number of workers polling with clocks of their own reading.
THEOREM CapsAlwaysHold == Spec => []ConcurrencyCaps
<1> DEFINE Of(u) == {r \in Claims : Owner[r] = u}
<1>0. IsFiniteSet(Claims) /\ \A u \in Users : IsFiniteSet(Of(u))
  BY FS_Subset DEF Claims
<1>1. Init => ConcurrencyCaps
  <2> SUFFICES ASSUME Init PROVE ConcurrencyCaps
    OBVIOUS
  <2>1. Claims = {} /\ \A u \in Users : Of(u) = {}
    BY DEF Init, Claims
  <2> QED
    BY <2>1, FS_EmptySet DEF ConcurrencyCaps
<1>2. SafetyInv /\ ConcurrencyCaps /\ [Next]_vars => ConcurrencyCaps'
  <2> SUFFICES ASSUME SafetyInv, ConcurrencyCaps, [Next]_vars PROVE ConcurrencyCaps'
    OBVIOUS
  <2>0. TypeOK /\ LeaseShape
    BY DEF SafetyInv
  <2>1. CASE ~ \E w \in Workers, r \in Runs : Claim(w, r)
    <3>1. Claims' \subseteq Claims
      BY <2>0, <2>1, ClaimsShrink
    <3>2. \A u \in Users : Of(u)' \subseteq Of(u)
      BY <3>1
    <3>3. /\ Cardinality(Claims') <= Cardinality(Claims)
          /\ \A u \in Users : Cardinality(Of(u)') <= Cardinality(Of(u))
      BY <1>0, <3>1, <3>2, FS_Subset
    <3>4. /\ Cardinality(Claims') \in Nat /\ Cardinality(Claims) \in Nat
          /\ \A u \in Users : Cardinality(Of(u)') \in Nat /\ Cardinality(Of(u)) \in Nat
      BY <1>0, <3>1, <3>2, FS_Subset, FS_CardinalityType
    <3>5. Cardinality(Claims') <= GlobalLimit
      BY <3>3, <3>4 DEF ConcurrencyCaps
    <3>6. ASSUME NEW u \in Users PROVE Cardinality(Of(u)') <= UserLimit
      <4>1. Cardinality(Of(u)) <= UserLimit
        BY DEF ConcurrencyCaps
      <4> HIDE DEF Of
      <4> QED
        BY <3>3, <3>4, <4>1
    <3> QED
      BY <3>5, <3>6 DEF ConcurrencyCaps
  <2>2. ASSUME NEW w \in Workers, NEW r \in Runs, Claim(w, r) PROVE ConcurrencyCaps'
    <3>1. /\ Cardinality(Claims) < GlobalLimit
          /\ ~(Cardinality(Of(Owner[r])) >= UserLimit)
          /\ queue[r] = "queued"
      BY <2>2, CountIsExact DEF Claim, Chosen, Candidates, Saturated
    <3>2. Claims' = Claims \cup {r} /\ r \notin Claims
      BY <2>0, <2>2, <3>1 DEF TypeOK, Claim, Claims
    <3>3. \A u \in Users : Of(u)' = IF u = Owner[r] THEN Of(u) \cup {r} ELSE Of(u)
      BY <3>2
    <3>4. Owner[r] \in Users
      OBVIOUS
    <3>5. /\ Cardinality(Claims) \in Nat
          /\ \A u \in Users : Cardinality(Of(u)) \in Nat
      BY <1>0, FS_CardinalityType
    <3>6. Cardinality(Claims') = Cardinality(Claims) + 1
      BY <1>0, <3>2, FS_AddElement
    <3>7. Cardinality(Of(Owner[r]) \cup {r}) = Cardinality(Of(Owner[r])) + 1
      BY <1>0, <3>2, <3>4, FS_AddElement
    <3>8. Cardinality(Claims') <= GlobalLimit
      BY <3>1, <3>5, <3>6
    <3>9. ASSUME NEW u \in Users PROVE Cardinality(Of(u)') <= UserLimit
      <4>1. CASE u = Owner[r]
        BY <3>1, <3>3, <3>5, <3>7, <4>1
      <4>2. CASE u # Owner[r]
        BY <3>3, <4>2 DEF ConcurrencyCaps
      <4> QED
        BY <4>1, <4>2
    <3> QED
      BY <3>8, <3>9 DEF ConcurrencyCaps
  <2> QED
    BY <2>1, <2>2
<1> QED
  BY <1>1, <1>2, SafetyAlways, PTL DEF Spec

-----------------------------------------------------------------------------
(***************************************************************************)
(* Refinement: every step of the queue is a step of PlaybookRunPromise on  *)
(* one run, or changes nothing the promise speaks of.                      *)
(***************************************************************************)

\* What the promise sees of a run.
Seen(s) == IF s \in {"pending", "running"} THEN "open" ELSE s
Outcome == [r \in Runs |-> Seen(status[r])]

\* A run whose status enters s while its row is open is resolved by s, if s is
\* an answer the promise allows; otherwise nothing is seen to happen.
LEMMA SettleResolves ==
  ASSUME TypeOK, NEW r \in Runs, status[r] # "none", NEW s \in Terminal, Settle(r, s),
         UNCHANGED <<cancel, attempt>>,
         s = "cancelled" => cancel[r],
         s \in {"completed", "partial"} => attempt[r] > 0
  PROVE  [Promise!Next]_(Promise!vars)
<1>1. CASE Settled(r)
  <2>1. UNCHANGED status
    BY <1>1 DEF Settle, TypeOK
  <2> QED
    BY <2>1 DEF Promise!vars
<1>2. CASE ~Settled(r)
  <2>1. Outcome' = [Outcome EXCEPT ![r] = s]
    BY <1>2 DEF Settle, Settled, Outcome, Seen, TypeOK, Terminal
  <2>2. Outcome[r] = "open"
    BY <1>2 DEF Settled, Outcome, Seen, TypeOK
  <2>3. s \in Promise!Answers(r)
    BY DEF Promise!Answers, Terminal
  <2>4. Promise!Resolve(r)
    BY <2>1, <2>2, <2>3 DEF Promise!Resolve, Outcome, Seen
  <2> QED
    BY <2>4 DEF Promise!Next
<1> QED
  BY <1>1, <1>2

\* Every step of the queue is a step of the promise, or one that the promise
\* does not see.
LEMMA PromiseStep == SafetyInv /\ [Next]_vars => [Promise!Next]_(Promise!vars)
<1> SUFFICES ASSUME SafetyInv, [Next]_vars PROVE [Promise!Next]_(Promise!vars)
  OBVIOUS
<1>0. TypeOK /\ RowShape /\ LeaseShape /\ WorkerShape /\ QueuedIsClaimable
      /\ CancelledOnRequest /\ NoReplay
  BY DEF SafetyInv
<1> USE DEF rowVars, leaseVars, runVars, workVars
<1>a. ASSUME NEW r \in Runs, Enqueue(r) PROVE [Promise!Next]_(Promise!vars)
  <2>1. status[r] = "none" /\ status' = [status EXCEPT ![r] = "pending"]
    BY <1>0, <1>a DEF Enqueue, RowShape
  <2>2. Outcome[r] = "none" /\ Outcome' = [Outcome EXCEPT ![r] = "open"]
    BY <1>0, <2>1 DEF TypeOK, Outcome, Seen
  <2>3. Promise!Accept(r)
    BY <1>a, <2>2 DEF Promise!Accept, Enqueue, Outcome, Seen
  <2> QED
    BY <2>3 DEF Promise!Next
<1>b. ASSUME NEW r \in Runs, Cancel(r) PROVE [Promise!Next]_(Promise!vars)
  <2>0. cancel' = [cancel EXCEPT ![r] = TRUE] /\ status[r] # "none" /\ UNCHANGED attempt
    BY <1>0, <1>b DEF Cancel, RowShape, CloseRow
  <2>1. CASE queue[r] = "queued"
    <3>1. status[r] = "pending"
      BY <1>0, <2>1 DEF QueuedIsClaimable
    <3>2. Settle(r, "cancelled")
      BY <1>b, <2>1 DEF Cancel
    <3>3. Outcome[r] = "open" /\ Outcome' = [Outcome EXCEPT ![r] = "cancelled"]
      BY <1>0, <3>1, <3>2 DEF TypeOK, Settle, Settled, Terminal, Outcome, Seen
    <3>4. Promise!AskAndCancel(r)
      BY <2>0, <3>3 DEF Promise!AskAndCancel, Outcome, Seen
    <3> QED
      BY <3>4 DEF Promise!Next
  <2>2. CASE queue[r] # "queued"
    <3>1. UNCHANGED status
      BY <1>b, <2>2 DEF Cancel
    <3>2. Promise!Ask(r)
      BY <2>0, <3>1 DEF Promise!Ask
    <3> QED
      BY <3>2 DEF Promise!Next
  <2> QED
    BY <2>1, <2>2
<1>c. ASSUME NEW w \in Workers, NEW r \in Runs, Recover(w, r)
      PROVE [Promise!Next]_(Promise!vars)
  <2>0. queue[r] = "claimed" /\ status[r] # "none" /\ UNCHANGED cancel
    BY <1>0, <1>c DEF Recover, RowShape, LeaseShape, Claims
  <2>1. CASE UNCHANGED <<status, attempt>>
    BY <2>0, <2>1 DEF Promise!vars
  <2>2. CASE cancel[r] /\ Settle(r, "cancelled") /\ UNCHANGED attempt
    BY <1>0, <2>0, <2>2, SettleResolves DEF Terminal
  <2>3. CASE ~Settled(r) /\ Requeue(r)
    <3>1. Outcome' = Outcome
      BY <1>0, <2>0, <2>3 DEF TypeOK, Requeue, Settled, Outcome, Seen
    <3> QED
      BY <2>0, <2>3, <3>1 DEF Promise!vars, Requeue, Outcome, Seen
  <2>4. CASE Settle(r, "failed") /\ UNCHANGED attempt
    BY <1>0, <2>0, <2>4, SettleResolves DEF Terminal
  <2> QED
    BY <1>c, <2>1, <2>2, <2>3, <2>4 DEF Recover, RecoverRow, CloseRow
<1>d. ASSUME NEW w \in Workers, NEW r \in Runs, Claim(w, r)
      PROVE [Promise!Next]_(Promise!vars)
  <2>1. queue[r] = "queued" /\ status[r] = "pending" /\ ~cancel[r]
    BY <1>d DEF Claim, Chosen, Candidates
  <2>2. attempt[r] = 0 \/ r \in RetrySafe
    BY <1>0, <2>1 DEF RowShape
  <2>3. attempt' = [attempt EXCEPT ![r] = @ + 1] /\ UNCHANGED <<status, cancel>>
    BY <1>d DEF Claim
  <2>4. Promise!Begin(r)
    BY <2>1, <2>2, <2>3 DEF Promise!Begin
  <2> QED
    BY <2>4 DEF Promise!Next
<1>e. ASSUME NEW w \in Workers, NEW r \in Runs, RejectTargets(w, r)
      PROVE [Promise!Next]_(Promise!vars)
  <2>1. status[r] # "none"
    BY <1>e DEF RejectTargets, Chosen, Candidates
  <2>2. Settle(r, "failed") /\ UNCHANGED <<cancel, attempt>>
    BY <1>e DEF RejectTargets, CloseRow
  <2> QED
    BY <1>0, <2>1, <2>2, SettleResolves DEF Terminal
<1>f. ASSUME NEW w \in Workers, SaveRunning(w) PROVE [Promise!Next]_(Promise!vars)
  <2>0. UNCHANGED <<cancel, attempt>>
    BY <1>f DEF SaveRunning
  <2>1. CASE OwnsClaim(w)
    <3>1. job[w] \in Runs /\ status[job[w]] # "none"
      BY <1>0, <1>f, <2>1 DEF TypeOK, SaveRunning, Busy, Beating, OwnsClaim, FenceOwned, RowShape
    <3>2. Outcome' = Outcome
      BY <1>0, <1>f, <2>1, <3>1 DEF TypeOK, SaveRunning, Settled, Terminal, Outcome, Seen
    <3> QED
      BY <2>0, <3>2 DEF Promise!vars, Outcome, Seen
  <2>2. CASE ~OwnsClaim(w)
    BY <1>f, <2>0, <2>2 DEF SaveRunning, Promise!vars
  <2> QED
    BY <2>1, <2>2
<1>g. ASSUME NEW w \in Workers, SaveOutcome(w) PROVE [Promise!Next]_(Promise!vars)
  <2>0. UNCHANGED <<cancel, attempt>>
    BY <1>g DEF SaveOutcome
  <2>1. CASE OwnsClaim(w)
    <3>1. job[w] \in Runs /\ WorkerFact(w) /\ pc[w] = "save"
      BY <1>0, <1>g DEF TypeOK, SaveOutcome, Busy, Beating, WorkerShape
    <3>2. out[w] \in Terminal /\ (out[w] = "cancelled" => cancel[job[w]])
      BY <1>0, <2>1, <3>1 DEF TypeOK, WorkerFact, OwnsClaim
    <3>3. status[job[w]] # "none" /\ attempt[job[w]] > 0
      BY <1>0, <2>1, <3>1 DEF OwnsClaim, FenceOwned, RowShape
    <3>4. Settle(job[w], out[w])
      BY <1>g, <2>1 DEF SaveOutcome
    <3> QED
      BY <1>0, <2>0, <3>1, <3>2, <3>3, <3>4, SettleResolves
  <2>2. CASE ~OwnsClaim(w)
    BY <1>g, <2>0, <2>2 DEF SaveOutcome, Promise!vars
  <2> QED
    BY <2>1, <2>2
<1>h. ASSUME NEW w \in Workers, PersistFallback(w) PROVE [Promise!Next]_(Promise!vars)
  <2>0. UNCHANGED <<cancel, attempt>>
    BY <1>h DEF PersistFallback
  <2>1. CASE FenceOwned(w) /\ ~Settled(job[w])
    <3>1. job[w] \in Runs /\ WorkerFact(w) /\ pc[w] = "patch"
      BY <1>0, <1>h DEF TypeOK, PersistFallback, Busy, Beating, WorkerShape
    <3>2. out[w] \in {"failed", "cancelled"} /\ (out[w] = "cancelled" => cancel[job[w]])
      BY <3>1 DEF WorkerFact
    <3>3. status[job[w]] # "none"
      BY <1>0, <2>1, <3>1 DEF FenceOwned, RowShape
    <3>4. Settle(job[w], out[w])
      BY <1>h, <2>1 DEF PersistFallback
    <3> QED
      BY <1>0, <2>0, <3>1, <3>2, <3>3, <3>4, SettleResolves DEF Terminal
  <2>2. CASE ~(FenceOwned(w) /\ ~Settled(job[w]))
    BY <1>h, <2>0, <2>2 DEF PersistFallback, Promise!vars
  <2> QED
    BY <2>1, <2>2
<1>i. ASSUME NEW w \in Workers, FinishCanceled(w) PROVE [Promise!Next]_(Promise!vars)
  <2>1. CASE FenceOwned(w)
    <3>1. job[w] \in Runs /\ WorkerFact(w) /\ pc[w] \in {"early", "fin"} /\ out[w] = "cancelled"
      BY <1>0, <1>i DEF TypeOK, FinishCanceled, Busy, Beating, WorkerShape
    <3>2. cancel[job[w]]
      BY <3>1 DEF WorkerFact
    <3>3. status[job[w]] # "none"
      BY <1>0, <2>1, <3>1 DEF FenceOwned, RowShape
    <3>4. Settle(job[w], "cancelled") /\ UNCHANGED <<cancel, attempt>>
      BY <1>i, <2>1 DEF FinishCanceled, CloseRow
    <3> QED
      BY <1>0, <3>1, <3>2, <3>3, <3>4, SettleResolves DEF Terminal
  <2>2. CASE ~FenceOwned(w)
    BY <1>i, <2>2 DEF FinishCanceled, Promise!vars
  <2> QED
    BY <2>1, <2>2
<1>j. CASE UNCHANGED <<status, cancel, attempt>>
  BY <1>j DEF Promise!vars
<1> QED
  BY <1>a, <1>b, <1>c, <1>d, <1>e, <1>f, <1>g, <1>h, <1>i, <1>j, ZenonT(60)
     DEF Next, Step, Claiming, Running, Finalizing, vars, AbandonedLeaseEnds, Stall,
         LeaseEnds, OrphanEnds, ReadNow, NothingToClaim, StartRefused, Start, Heartbeat,
         PrepareFails, CheckBeforeLaunch, Launch, StopExecution, ExecutionEnds,
         NextCommand, CheckClaim, ReadRun, Complete, Fail, CloseRow,
         Raise, LoseLease, Crash, Restart

\* The queue with all its workers implements the promise made about each run
\* (its safety part; that every run is answered is model-checked).
THEOREM QueueKeepsPromise == Spec => Promise!Safe
<1>1. Init => Promise!Init
  BY DEF Init, Promise!Init
<1> QED
  BY <1>1, PromiseStep, SafetyAlways, PTL DEF Spec, Promise!Safe

\* An outcome is final: a corollary of the refinement, since the promise never
\* touches a run that is not open.
THEOREM OutcomesAreFinal == Spec => OutcomeIsFinal
<1>1. SafetyInv /\ [Next]_vars =>
        [\A r \in Runs : Settled(r) => status'[r] = status[r]]_vars
  <2> SUFFICES ASSUME SafetyInv, [Next]_vars, NEW r \in Runs, Settled(r)
               PROVE  status'[r] = status[r]
    OBVIOUS
  <2>1. TypeOK /\ TypeOK'
    BY TypeStep DEF SafetyInv
  <2>2. Outcome[r] = status[r] /\ Outcome[r] \notin {"none", "open"}
    BY DEF Settled, Terminal, Outcome, Seen
  <2>3. [Promise!Next]_(Promise!vars)
    BY PromiseStep
  <2>4. Outcome'[r] = Outcome[r]
    <3>1. CASE UNCHANGED Promise!vars
      BY <3>1 DEF Promise!vars, Outcome, Seen
    <3>2. ASSUME NEW x \in Runs,
                 Promise!Accept(x) \/ Promise!Begin(x) \/ Promise!Ask(x)
                   \/ Promise!AskAndCancel(x) \/ Promise!Resolve(x)
          PROVE  Outcome'[r] = Outcome[r]
      <4>1. CASE x # r
        BY <3>2, <4>1 DEF Promise!Accept, Promise!Begin, Promise!Ask,
                          Promise!AskAndCancel, Promise!Resolve, Outcome, Seen
      <4>2. CASE x = r
        BY <2>2, <3>2, <4>2 DEF Promise!Accept, Promise!Begin, Promise!Ask,
                                Promise!AskAndCancel, Promise!Resolve, Outcome, Seen
      <4> QED
        BY <4>1, <4>2
    <3> QED
      BY <2>3, <3>1, <3>2 DEF Promise!Next
  <2> QED
    BY <2>1, <2>2, <2>4 DEF TypeOK, Terminal, Outcome, Seen
<1> QED
  BY <1>1, SafetyAlways, PTL DEF Spec, OutcomeIsFinal

\* Success is reported by the attempt that holds the claim when it reports.
THEOREM OutcomesComeFromHolders == Spec => OutcomeFromHolder
<1> DEFINE Reports(r) == status'[r] # status[r] /\ status'[r] \in {"completed", "partial"}
           Held(r) == /\ queue[r] = "claimed" /\ r \notin expired
                      /\ \E w \in Workers : /\ pc[w] = "save" /\ job[w] = r /\ by[r] = w
                                            /\ held[w] = attempt[r] /\ out[w] = status'[r]
<1>1. SafetyInv /\ [Next]_vars => [\A r \in Runs : Reports(r) => Held(r)]_vars
  <2> SUFFICES ASSUME SafetyInv, [Next]_vars, NEW r \in Runs, Reports(r)
               PROVE  Held(r)
    OBVIOUS
  <2>0. TypeOK /\ WorkerShape
    BY DEF SafetyInv
  <2>1. ASSUME NEW x \in Runs, NEW s \in Terminal, Settle(x, s)
        PROVE  x = r /\ s = status'[r]
    BY <2>0, <2>1, SettleEffect
  <2>2. ASSUME NEW w \in Workers, SaveOutcome(w) PROVE Held(r)
    <3>1. OwnsClaim(w) /\ Settle(job[w], out[w]) /\ job[w] \in Runs
      BY <2>0, <2>2 DEF SaveOutcome, TypeOK, Busy, Beating
    <3>2. out[w] \in Terminal
      BY <2>0, <2>2 DEF SaveOutcome, TypeOK, WorkerShape, WorkerFact
    <3>3. job[w] = r /\ out[w] = status'[r]
      BY <2>1, <3>1, <3>2
    <3> QED
      BY <2>2, <3>1, <3>3 DEF SaveOutcome, OwnsClaim, FenceOwned
  <2>3. ASSUME NEW w \in Workers, PersistFallback(w) PROVE FALSE
    <3>1. Settle(job[w], out[w]) /\ job[w] \in Runs
      BY <2>0, <2>3 DEF PersistFallback, TypeOK, Busy, Beating
    <3>2. out[w] \in {"failed", "cancelled"}
      BY <2>0, <2>3 DEF PersistFallback, WorkerShape, WorkerFact
    <3> QED
      BY <2>1, <3>1, <3>2 DEF Terminal
  <2>4. ASSUME NEW w \in Workers, FinishCanceled(w) PROVE FALSE
    BY <2>0, <2>1, <2>4 DEF FinishCanceled, TypeOK, Busy, Beating, Terminal
  <2>5. ASSUME NEW w \in Workers, NEW x \in Runs, Recover(w, x) PROVE FALSE
    <3>1. CASE Requeue(x)
      BY <2>0, <3>1 DEF Requeue, TypeOK
    <3>2. CASE Settle(x, "cancelled") \/ Settle(x, "failed")
      BY <2>1, <3>2 DEF Terminal
    <3> QED
      BY <2>5, <3>1, <3>2 DEF Recover, RecoverRow
  <2>6. ASSUME NEW x \in Runs, Enqueue(x) PROVE FALSE
    BY <2>0, <2>6 DEF Enqueue, TypeOK
  <2>7. ASSUME NEW x \in Runs, Cancel(x) PROVE FALSE
    BY <2>1, <2>7 DEF Cancel, Terminal
  <2>8. ASSUME NEW w \in Workers, NEW x \in Runs, RejectTargets(w, x) PROVE FALSE
    BY <2>1, <2>8 DEF RejectTargets, Terminal
  <2>9. ASSUME NEW w \in Workers, SaveRunning(w) PROVE FALSE
    BY <2>0, <2>9 DEF SaveRunning, TypeOK
  <2>10. ~UNCHANGED status
    OBVIOUS
  <2> QED
    BY <2>2, <2>3, <2>4, <2>5, <2>6, <2>7, <2>8, <2>9, <2>10, ZenonT(60)
       DEF Next, Step, Claiming, Running, Finalizing, vars, runVars, AbandonedLeaseEnds,
           Stall, LeaseEnds, OrphanEnds, ReadNow, Claim, NothingToClaim, StartRefused, Start,
           Heartbeat, PrepareFails, CheckBeforeLaunch, Launch, StopExecution,
           ExecutionEnds, NextCommand, CheckClaim, ReadRun, Complete, Fail,
           Raise, LoseLease, Crash, Restart
<1> QED
  BY <1>1, SafetyAlways, PTL DEF Spec, OutcomeFromHolder

-----------------------------------------------------------------------------
\* A worker that goes on with its run, or lays it down, leaves the claims as
\* they are: the fence number is the one read at the start.
LEMMA ClaimFrame ==
  ASSUME ClaimsAreHeld, UNCHANGED <<by, attempt>>,
         \A v \in Workers : pc'[v] \in Busy =>
           /\ pc[v] \in Busy /\ job'[v] = job[v] /\ job[v] \notin expired'
           /\ \/ pc'[v] = "start"
              \/ pc[v] # "start" /\ held'[v] = held[v]
              \/ held'[v] = attempt[job[v]]
  PROVE  ClaimsAreHeld'
  BY DEF ClaimsAreHeld, Holds

\* A step of the runner between two statements of its own.
LEMMA GoesOn ==
  ASSUME TypeOK, ClaimsAreHeld, NEW w \in Workers, NEW label \in Busy \ {"start"},
         pc[w] \in Busy \ {"start"}, Goto(w, label),
         UNCHANGED <<by, attempt, job, held, expired>>
  PROVE  ClaimsAreHeld'
<1>1. \A v \in Workers : pc'[v] \in Busy => pc[v] \in Busy /\ (pc'[v] = "start" \/ pc[v] # "start")
  BY DEF TypeOK, Goto
<1> QED
  BY <1>1, ClaimFrame DEF ClaimsAreHeld

\* A worker that returns from its run holds nothing any more.
LEMMA LaysDown ==
  ASSUME TypeOK, ClaimsAreHeld, NEW w \in Workers, NEW label \in {"idle", "down"},
         Leave(w, label), UNCHANGED <<by, attempt>>, expired' \subseteq expired
  PROVE  ClaimsAreHeld'
<1>1. pc'[w] \notin Busy
  BY DEF TypeOK, Leave, Busy, Beating
<1>2. \A v \in Workers : v # w => pc'[v] = pc[v] /\ job'[v] = job[v] /\ held'[v] = held[v]
  BY DEF TypeOK, Leave
<1> QED
  BY <1>1, <1>2, ClaimFrame DEF ClaimsAreHeld

\* Nothing of the workers changes and no lease ends.
LEMMA WorkersUntouched ==
  ASSUME ClaimsAreHeld, UNCHANGED <<by, attempt, pc, job, held>>, expired' \subseteq expired
  PROVE  ClaimsAreHeld'
  BY ClaimFrame DEF ClaimsAreHeld

\* No container is started, and no row that had left the queue is put back.
LEMMA ContainerFrame ==
  ASSUME ContainersAreCurrent, TypeOK, live' \subseteq live, attempt' = attempt,
         \A r \in Runs : queue[r] \notin {"none", "queued"} => queue'[r] \notin {"none", "queued"}
  PROVE  ContainersAreCurrent'
  BY DEF ContainersAreCurrent, TypeOK

\* Closing a row leaves the claims of the workers and the containers alone.
LEMMA CloseRowKeeps ==
  ASSUME TypeOK, NEW r \in Runs, NEW q \in Closed, CloseRow(r, q)
  PROVE  /\ UNCHANGED <<by, attempt>> /\ expired' \subseteq expired
         /\ \A x \in Runs : queue[x] \notin {"none", "queued"} => queue'[x] \notin {"none", "queued"}
  BY DEF TypeOK, CloseRow, FreshLease, Closed

\* A worker that executes a run is the one its row names, so a row in the queue
\* is nobody's, and its old container is gone.
LEMMA QueuedIsFree ==
  ASSUME SafetyInv, ClaimsAreHeld, NEW r \in Runs, queue[r] \in {"none", "queued"}
  PROVE  \A w \in Workers : pc[w] \in Busy => job[w] # r
<1>1. by[r] = NoWorker
  BY DEF SafetyInv, QueuedIsClaimable, RowShape
<1> QED
  BY <1>1 DEF ClaimsAreHeld, Holds

\* What every step that ends a claim or puts a row back keeps.
Contained == ClaimsAreHeld /\ ContainersAreCurrent

\* The recovery takes a row only from a worker that is gone, and puts it back
\* in the queue only with its container removed.
LEMMA RecoverKeepsContained ==
  ASSUME SafetyInv, Contained, NEW w \in Workers, NEW r \in Runs, Recover(w, r)
  PROVE  Contained'
<1>0. TypeOK /\ UNCHANGED <<pc, job, held>>
  BY DEF SafetyInv, Recover, workVars
<1>1. \A v \in Workers : pc[v] \in Busy => job[v] # r
  BY DEF Recover, SafetyInv, LeaseShape, Contained, ClaimsAreHeld
<1>2. live' \subseteq live
  BY DEF Recover, CleanupJob
<1>3. ASSUME NEW q \in Closed, CloseRow(r, q) PROVE Contained'
  BY <1>0, <1>2, <1>3, CloseRowKeeps, WorkersUntouched, ContainerFrame DEF Contained
<1>4. ASSUME NEW gone \in BOOLEAN, CleanupJob(r, gone), MayRequeue(r, gone), Requeue(r)
      PROVE  Contained'
  <2>1. /\ attempt' = attempt /\ expired' \subseteq expired
        /\ \A x \in Runs : x # r => by'[x] = by[x] /\ queue'[x] = queue[x]
    BY <1>0, <1>4 DEF Requeue, FreshLease, TypeOK
  <2>2. ClaimsAreHeld'
    <3> SUFFICES ASSUME NEW v \in Workers, pc[v] \in Busy
                 PROVE  Holds(v, job[v])' /\ job[v] \notin expired'
      BY <1>0 DEF ClaimsAreHeld
    <3>1. job[v] \in Runs /\ job[v] # r /\ Holds(v, job[v]) /\ job[v] \notin expired
      BY <1>0, <1>1 DEF Contained, ClaimsAreHeld, TypeOK
    <3> QED
      BY <1>0, <2>1, <3>1 DEF Holds
  <2>3. ASSUME NEW j \in live', j[1] \in Container
        PROVE  j[2] = attempt'[j[1]] /\ queue'[j[1]] \notin {"none", "queued"}
    <3>1. j \in live /\ j = <<j[1], j[2]>> /\ j[1] \in Runs
      BY <1>0, <1>2 DEF TypeOK
    <3>2. j[2] = attempt[j[1]] /\ queue[j[1]] \notin {"none", "queued"}
      BY <2>3, <3>1 DEF Contained, ContainersAreCurrent
    <3>3. j[1] # r
      BY <1>4, <2>3, <3>1, <3>2 DEF CleanupJob, MayRequeue
    <3> QED
      BY <2>1, <3>1, <3>2, <3>3
  <2> QED
    BY <2>2, <2>3 DEF Contained, ContainersAreCurrent
<1>5. Mirror(status[r]) \in Closed /\ "canceled" \in Closed /\ "interrupted" \in Closed
  BY DEF Mirror, Closed
<1> QED
  BY <1>3, <1>4, <1>5 DEF Recover, RecoverRow

\* A claim takes a row that nobody executes and whose old container is gone.
LEMMA ClaimKeepsContained ==
  ASSUME SafetyInv, Contained, NEW w \in Workers, NEW r \in Runs, Claim(w, r)
  PROVE  Contained'
<1>0. TypeOK /\ queue[r] = "queued" /\ r \notin expired
  BY DEF SafetyInv, LeaseShape, Claims, Claim, Chosen, Candidates
<1>1. /\ by' = [by EXCEPT ![r] = w] /\ attempt' = [attempt EXCEPT ![r] = @ + 1]
      /\ queue' = [queue EXCEPT ![r] = "claimed"]
      /\ job' = [job EXCEPT ![w] = r] /\ pc' = [pc EXCEPT ![w] = "start"]
      /\ UNCHANGED <<expired, held, live>>
  BY DEF Claim, Goto, leaseVars
<1>2. \A v \in Workers : pc[v] \in Busy => job[v] # r
  BY <1>0, QueuedIsFree DEF Contained
<1>3. ASSUME NEW v \in Workers, pc'[v] \in Busy
      PROVE  Holds(v, job[v])' /\ job'[v] \notin expired'
  <2>1. CASE v = w
    BY <1>0, <1>1, <1>3, <2>1 DEF TypeOK, Holds
  <2>2. CASE v # w
    <3>1. pc'[v] = pc[v] /\ job'[v] = job[v] /\ job[v] \in Runs /\ job[v] # r
      BY <1>0, <1>1, <1>2, <1>3, <2>2 DEF TypeOK
    <3>2. Holds(v, job[v]) /\ job[v] \notin expired
      BY <1>3, <3>1 DEF Contained, ClaimsAreHeld
    <3> QED
      BY <1>0, <1>1, <3>1, <3>2 DEF TypeOK, Holds
  <2> QED
    BY <2>1, <2>2
<1>4. ContainersAreCurrent'
  BY <1>0, <1>1 DEF TypeOK, Contained, ContainersAreCurrent
<1> QED
  BY <1>3, <1>4 DEF Contained, ClaimsAreHeld

\* A container is started for the attempt its row counts, because the worker
\* that starts it still holds that attempt.
LEMMA LaunchKeepsContained ==
  ASSUME SafetyInv, Contained, NEW w \in Workers, Launch(w)
  PROVE  Contained'
<1>0. TypeOK
  BY DEF SafetyInv
<1>1. /\ pc[w] = "launch" /\ job[w] \in Runs
      /\ live' = live \cup {<<job[w], held[w]>>}
      /\ UNCHANGED <<queue, by, attempt, job, held, expired>>
  BY <1>0 DEF Launch, TypeOK, Busy, Beating, rowVars, leaseVars
<1>2. ClaimsAreHeld'
  BY <1>0, <1>1, GoesOn DEF Launch, Contained, Busy, Beating
<1>3. held[w] = attempt[job[w]] /\ queue[job[w]] \notin {"none", "queued"}
  BY <1>1, QueuedIsFree DEF Contained, ClaimsAreHeld, Holds, Busy, Beating
<1>4. ContainersAreCurrent'
  BY <1>1, <1>3 DEF Contained, ContainersAreCurrent
<1> QED
  BY <1>2, <1>4 DEF Contained

\* Every step keeps the containers current, as long as no lease runs out under
\* a live worker.
LEMMA ContainerStep == ContainerInv /\ [Next]_vars => ContainerInv'
<1> SUFFICES ASSUME ContainerInv, [Next]_vars, stalls' = 0 PROVE Contained'
  BY SafetyStep DEF ContainerInv, Contained
<1>0. SafetyInv /\ TypeOK /\ (stalls = 0 => Contained)
  BY DEF ContainerInv, SafetyInv, Contained
<1> USE DEF runVars, rowVars, leaseVars, workVars, budget
<1>1. ASSUME NEW r \in Runs, Enqueue(r) PROVE Contained'
  <2>1. /\ Contained /\ queue[r] = "none" /\ queue' = [queue EXCEPT ![r] = "queued"]
        /\ UNCHANGED <<by, attempt, expired, pc, job, held, live>>
    BY <1>0, <1>1 DEF Enqueue
  <2>2. ContainersAreCurrent'
    BY <1>0, <2>1 DEF TypeOK, Contained, ContainersAreCurrent
  <2> QED
    BY <2>1, <2>2, WorkersUntouched DEF Contained
<1>2. ASSUME NEW r \in Runs, Cancel(r) PROVE Contained'
  <2>1. Contained /\ UNCHANGED <<pc, job, held>> /\ live' \subseteq live
    BY <1>0, <1>2 DEF Cancel
  <2>2. /\ UNCHANGED <<by, attempt>> /\ expired' \subseteq expired
        /\ \A x \in Runs : queue[x] \notin {"none", "queued"} => queue'[x] \notin {"none", "queued"}
    BY <1>0, <1>2, CloseRowKeeps DEF Cancel, Closed
  <2> QED
    BY <1>0, <2>1, <2>2, WorkersUntouched, ContainerFrame DEF Contained
<1>3. ASSUME NEW r \in Runs, AbandonedLeaseEnds(r) PROVE Contained'
  <2>1. /\ Contained /\ expired' = expired \cup {r} /\ \A w \in Workers : ~Holds(w, r)
        /\ UNCHANGED <<queue, by, attempt, pc, job, held, live>>
    BY <1>0, <1>3 DEF AbandonedLeaseEnds, LeaseEnds
  <2>2. \A w \in Workers : pc[w] \in Busy => job[w] # r
    BY <2>1 DEF Contained, ClaimsAreHeld
  <2>3. ClaimsAreHeld'
    BY <2>1, <2>2, ClaimFrame DEF Contained, ClaimsAreHeld
  <2> QED
    BY <1>0, <2>1, <2>3, ContainerFrame DEF Contained
<1>4. ASSUME NEW r \in Runs, Stall(r) PROVE Contained'
  BY <1>0, <1>4 DEF Stall, TypeOK
<1>5. ASSUME NEW j \in live, OrphanEnds(j[1], j[2]) PROVE Contained'
  BY <1>0, <1>5, WorkersUntouched, ContainerFrame DEF OrphanEnds, Contained
<1>6. ASSUME NEW w \in Workers, ReadNow(w) \/ Restart(w) PROVE Contained'
  <2>1. /\ Contained /\ UNCHANGED <<queue, by, attempt, expired, job, held>> /\ live' \subseteq live
        /\ \E label \in {"idle", "poll"} : pc' = [pc EXCEPT ![w] = label]
    BY <1>0, <1>6 DEF ReadNow, Restart, Goto
  <2>2. \A v \in Workers : pc'[v] \in Busy => pc'[v] = pc[v]
    BY <1>0, <2>1 DEF TypeOK, Busy, Beating
  <2>3. ClaimsAreHeld'
    BY <2>1, <2>2, ClaimFrame DEF Contained, ClaimsAreHeld
  <2> QED
    BY <1>0, <2>1, <2>3, ContainerFrame DEF Contained
<1>7. ASSUME NEW w \in Workers, NEW r \in Runs, Recover(w, r) PROVE Contained'
  BY <1>0, <1>7, RecoverKeepsContained DEF Recover
<1>8. ASSUME NEW w \in Workers, NEW r \in Runs, Claim(w, r) PROVE Contained'
  BY <1>0, <1>8, ClaimKeepsContained DEF Claim
<1>9. ASSUME NEW w \in Workers, NEW r \in Runs, RejectTargets(w, r) PROVE Contained'
  <2>1. Contained /\ CloseRow(r, "failed") /\ Leave(w, "idle") /\ UNCHANGED live
    BY <1>0, <1>9 DEF RejectTargets
  <2> QED
    BY <1>0, <2>1, CloseRowKeeps, LaysDown, ContainerFrame DEF Contained, Closed
<1>10. ASSUME NEW w \in Workers,
              NothingToClaim(w) \/ StartRefused(w) \/ Crash(w)
       PROVE  Contained'
  <2>1. /\ Contained /\ UNCHANGED <<queue, by, attempt, expired, live>>
        /\ \E label \in {"idle", "down"} : Leave(w, label)
    BY <1>0, <1>10 DEF NothingToClaim, StartRefused, Crash
  <2> QED
    BY <1>0, <2>1, LaysDown, ContainerFrame DEF Contained
<1>11. ASSUME NEW w \in Workers, Start(w) PROVE Contained'
  <2>1. /\ Contained /\ pc[w] = "start" /\ held' = [held EXCEPT ![w] = attempt[job[w]]]
        /\ \E label \in {"early", "prep"} : pc' = [pc EXCEPT ![w] = label]
        /\ UNCHANGED <<queue, by, attempt, expired, job, live>>
    BY <1>0, <1>11 DEF Start, Goto
  <2>2. \A v \in Workers : pc'[v] \in Busy =>
          /\ pc[v] \in Busy
          /\ pc'[v] = "start" \/ (pc[v] # "start" /\ held'[v] = held[v]) \/ held'[v] = attempt[job[v]]
    BY <1>0, <2>1 DEF TypeOK, Busy, Beating
  <2>3. ClaimsAreHeld'
    BY <2>1, <2>2, ClaimFrame DEF Contained, ClaimsAreHeld
  <2> QED
    BY <1>0, <2>1, <2>3, ContainerFrame DEF Contained
<1>12. ASSUME NEW w \in Workers, Heartbeat(w) \/ LoseLease(w) PROVE Contained'
  <2>1. /\ Contained /\ UNCHANGED <<queue, by, attempt, pc, job, held, live>>
        /\ expired' \subseteq expired
    BY <1>0, <1>12 DEF Heartbeat, LoseLease, FreshLease
  <2> QED
    BY <1>0, <2>1, WorkersUntouched, ContainerFrame DEF Contained
<1>13. ASSUME NEW w \in Workers,
              PrepareFails(w) \/ SaveRunning(w) \/ CheckBeforeLaunch(w) \/ StopExecution(w)
                \/ (\E s \in Terminal : ExecutionEnds(w, s)) \/ NextCommand(w) \/ SaveOutcome(w) \/ ReadRun(w)
       PROVE  Contained'
  <2>1. /\ Contained /\ pc[w] \in Busy \ {"start"} /\ live' \subseteq live
        /\ \E label \in Busy \ {"start"} : Goto(w, label)
        /\ UNCHANGED <<queue, by, attempt, job, held, expired>>
    BY <1>0, <1>13 DEF PrepareFails, SaveRunning, CheckBeforeLaunch, StopExecution,
         ExecutionEnds, NextCommand, SaveOutcome, ReadRun, Without, Busy, Beating
  <2> QED
    BY <1>0, <2>1, GoesOn, ContainerFrame DEF Contained
<1>14. ASSUME NEW w \in Workers, Launch(w) PROVE Contained'
  BY <1>0, <1>14, LaunchKeepsContained DEF Launch
<1>15. ASSUME NEW w \in Workers, CheckClaim(w) \/ PersistFallback(w) \/ Raise(w) PROVE Contained'
  <2>1. /\ Contained /\ UNCHANGED <<queue, by, attempt, expired, live>>
        /\ \/ Leave(w, "idle")
           \/ /\ pc[w] \in Busy \ {"start"} /\ UNCHANGED <<job, held>>
              /\ \E label \in Busy \ {"start"} : Goto(w, label)
    BY <1>0, <1>15 DEF CheckClaim, PersistFallback, Raise, Busy, Beating
  <2> QED
    BY <1>0, <2>1, LaysDown, GoesOn, ContainerFrame DEF Contained
<1>16. ASSUME NEW w \in Workers, FinishCanceled(w) \/ Complete(w) \/ Fail(w) PROVE Contained'
  <2>1. /\ Contained /\ Leave(w, "idle") /\ UNCHANGED live /\ job[w] \in Runs
        /\ (\E q \in Closed : CloseRow(job[w], q)) \/ UNCHANGED <<queue, by, attempt, expired>>
    BY <1>0, <1>16 DEF FinishCanceled, Complete, Fail, TypeOK, Busy, Beating, Closed
  <2>2. /\ UNCHANGED <<by, attempt>> /\ expired' \subseteq expired
        /\ \A x \in Runs : queue[x] \notin {"none", "queued"} => queue'[x] \notin {"none", "queued"}
    BY <1>0, <2>1, CloseRowKeeps
  <2> QED
    BY <1>0, <2>1, <2>2, LaysDown, ContainerFrame DEF Contained
<1>17. CASE UNCHANGED vars
  BY <1>0, <1>17, WorkersUntouched, ContainerFrame DEF vars, Contained
<1> QED
  BY <1>1, <1>2, <1>3, <1>4, <1>5, <1>6, <1>7, <1>8, <1>9, <1>10, <1>11, <1>12,
     <1>13, <1>14, <1>15, <1>16, <1>17, ZenonT(60)
     DEF Next, Step, Claiming, Running, Finalizing

\* A run never has two containers alive at the same time, over any sequence of
\* crashes, recoveries, cancellations and retries, as long as no worker that is
\* alive lets its lease run out.
THEOREM ContainersNeverOverlap == Spec => []OneContainerUnlessStalled
<1>1. Init => ContainerInv
  BY SafetyInit DEF Init, ContainerInv, ClaimsAreHeld, ContainersAreCurrent, Busy, Beating
<1>2. ContainerInv => OneContainerUnlessStalled
  <2> SUFFICES ASSUME ContainerInv, stalls = 0, NEW r \in Container
               PROVE  Cardinality({j \in live : j[1] = r}) <= 1
    BY DEF OneContainerUnlessStalled, OneContainer
  <2>1. live \subseteq Runs \X Nat /\ ContainersAreCurrent
    BY DEF ContainerInv, SafetyInv, TypeOK
  <2>2. {j \in live : j[1] = r} \subseteq {<<r, attempt[r]>>}
    BY <2>1 DEF ContainersAreCurrent
  <2>3. IsFiniteSet({<<r, attempt[r]>>}) /\ Cardinality({<<r, attempt[r]>>}) = 1
    BY FS_Singleton
  <2> QED
    BY <2>2, <2>3, FS_Subset
<1> QED
  BY <1>1, <1>2, ContainerStep, PTL DEF Spec
=============================================================================
