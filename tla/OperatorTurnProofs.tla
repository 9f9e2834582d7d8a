------------------------- MODULE OperatorTurnProofs -------------------------
(***************************************************************************)
(* Proofs about OperatorTurn for any turns, tasks and requests.  LoopInv   *)
(* is the reason why locks on a turn's row and one unique index are enough *)
(* without the map of tasks: a task enters the loop of a turn it has just  *)
(* created or just found parked, and a turn is parked only by the task     *)
(* that leaves its loop.  The type invariant rests on it, since only the   *)
(* one task in the loop counts iterations.  DeedInv follows the action of  *)
(* a turn from its claim to what the model is told.                        *)
(***************************************************************************)
EXTENDS OperatorTurn, TLAPS

-----------------------------------------------------------------------------
(* The shape of the steps *)

\* Only k moves.
Moves(k) == /\ \A j \in Tasks \ {k} : /\ pc'[j] = pc[j]
                                      /\ kind'[j] = kind[j]
                                      /\ turn'[j] = turn[j]
            /\ pc' \in [Tasks -> Labels]
            /\ kind' \in [Tasks -> {"message", "confirm", "cancel"}]
            /\ turn' \in [Tasks -> Turns \cup {NoTurn}]

\* A task that leaves is out of the loop and of the decision.
LEMMA LeaveMoves ==
  ASSUME NEW k \in Tasks, TypeOK, Leave(k)
  PROVE  Moves(k) /\ pc'[k] \notin Looping \cup Deciding
  BY DEF Leave, Moves, TypeOK, Labels, Looping, Deciding

\* A task that goes on stays with its turn.
LEMMA GoToMoves ==
  ASSUME NEW k \in Tasks, NEW l \in Labels, TypeOK, GoTo(k, l)
  PROVE  Moves(k) /\ pc'[k] = l /\ kind'[k] = kind[k] /\ turn'[k] = turn[k]
  BY DEF GoTo, Moves, TypeOK

\* What a task works on is a turn.
LEMMA WorksOnTurn ==
  ASSUME NEW k \in Tasks, TypeOK, pc[k] \in Looping \cup Deciding
  PROVE  turn[k] \in Turns
  BY DEF TypeOK

-----------------------------------------------------------------------------
(* One dialog *)

OneOpen == \A t, u \in Turns : status[t] \in Open /\ status[u] \in Open => t = u

OneLoop == \A j, k \in Tasks :
             pc[j] \in Looping /\ pc[k] \in Looping /\ turn[j] = turn[k] => j = k

\* A turn whose task is in its loop is not parked.
LoopsRun == \A k \in Tasks : pc[k] \in Looping => status[turn[k]] # "awaiting_confirm"

Begun == \A k \in Tasks : pc[k] \in Looping \cup Deciding => status[turn[k]] # "none"

Fits == \A k \in Tasks : pc[k] = "save" => iteration[turn[k]] < MaxIterations

LoopInv == OneOpen /\ OneLoop /\ LoopsRun /\ Begun /\ Fits

\* Closing turns disturbs none of it.
LEMMA ClosingKeeps ==
  ASSUME NEW S \in SUBSET Turns, TypeOK, LoopInv, Closing(S), S \cap Fresh = {}
  PROVE  /\ OneOpen'
         /\ \A t \in Turns : status[t] # "awaiting_confirm" => status'[t] # "awaiting_confirm"
         /\ \A t \in Turns : status[t] # "none" => status'[t] # "none"
         /\ iteration' = iteration
         /\ status' \in [Turns -> Statuses] /\ stale' \in [Turns -> BOOLEAN]
         /\ \A t \in Turns : status'[t] = "none" => status[t] = "none"
  BY DEF Closing, LoopInv, OneOpen, TypeOK, Statuses, Open, Live, Fresh

\* Nor does a task that stays in the loop it is in, stays out of loops, or
\* leaves, as long as no turn is reopened.
LEMMA MoveKeeps ==
  ASSUME NEW k \in Tasks, TypeOK, LoopInv, Moves(k),
         pc'[k] \in Looping => pc[k] \in Looping /\ turn'[k] = turn[k],
         pc'[k] \in Deciding => turn'[k] \in Turns /\ status[turn'[k]] # "none",
         pc'[k] # "save",
         \A t \in Turns : status[t] # "awaiting_confirm" => status'[t] # "awaiting_confirm",
         \A t \in Turns : status[t] # "none" => status'[t] # "none",
         iteration' = iteration
  PROVE  OneLoop' /\ LoopsRun' /\ Begun' /\ Fits'
<1>1. \A j \in Tasks : pc'[j] \in Looping => pc[j] \in Looping /\ turn'[j] = turn[j]
  BY DEF Moves
<1>2. \A j \in Tasks : pc'[j] = "save" => pc[j] = "save" /\ turn'[j] = turn[j]
  BY DEF Moves
<1>3. \A j \in Tasks : pc'[j] \in Looping => turn[j] \in Turns
  BY <1>1, WorksOnTurn
<1>4. \A j \in Tasks : pc'[j] \in Deciding => turn'[j] \in Turns /\ status[turn'[j]] # "none"
  BY WorksOnTurn DEF Moves, LoopInv, Begun
<1>5. OneLoop'
  BY <1>1 DEF LoopInv, OneLoop
<1>6. LoopsRun'
  BY <1>1, <1>3 DEF LoopInv, LoopsRun
<1>7. Begun'
  BY <1>1, <1>3, <1>4 DEF LoopInv, Begun
<1>8. Fits'
  BY <1>2 DEF LoopInv, Fits
<1> QED
  BY <1>5, <1>6, <1>7, <1>8

\* A step of one task that reopens nothing keeps the dialog.
LEMMA QuietStep ==
  ASSUME NEW k \in Tasks, TypeOK, LoopInv, Moves(k),
         pc'[k] \in Looping => pc[k] \in Looping /\ turn'[k] = turn[k],
         pc'[k] \in Deciding => turn'[k] \in Turns /\ status[turn'[k]] # "none",
         pc'[k] # "save",
         UNCHANGED <<status, iteration>>
  PROVE  LoopInv'
<1>1. OneOpen'
  BY DEF LoopInv, OneOpen
<1> QED
  BY <1>1, MoveKeeps DEF LoopInv

\* A message or a decision arrives.
LEMMA BeginLoops ==
  ASSUME NEW k \in Tasks, TypeOK, LoopInv,
         Message(k) \/ \E t \in Turns : Confirm(k, t) \/ Cancel(k, t)
  PROVE  LoopInv'
<1>1. PICK label \in {"admit", "claim", "withdraw"}, what \in {"message", "confirm", "cancel"},
           t \in Turns \cup {NoTurn} : Begin(k, what, t, label)
                                    /\ (label # "admit" => t \in Turns /\ action[t] # "none")
  BY DEF Message, Confirm, Cancel
<1>2. Moves(k) /\ pc'[k] = label /\ turn'[k] = t
  BY <1>1 DEF Begin, Moves, TypeOK, Labels, Deciding
<1>3. label # "admit" => status[t] # "none"
  BY <1>1 DEF TypeOK
<1>4. UNCHANGED <<status, iteration>>
  BY <1>1 DEF Begin, rows
<1> QED
  BY <1>1, <1>2, <1>3, <1>4, QuietStep DEF Looping, Deciding

\* A message is admitted, and its turn created.
LEMMA StartLoops ==
  ASSUME NEW k \in Tasks, TypeOK, LoopInv, Admit(k) \/ Create(k)
  PROVE  LoopInv'
<1>1. CASE Admit(k)
  <2>1. Moves(k) /\ pc'[k] \notin Looping \cup Deciding
    BY <1>1, LeaveMoves, GoToMoves DEF Admit, Labels, Looping, Deciding
  <2>2. Superseded \in SUBSET Turns /\ Superseded \cap Fresh = {} /\ Closing(Superseded)
    BY <1>1 DEF Admit, Superseded, Fresh
  <2> QED
    BY <2>1, <2>2, ClosingKeeps, MoveKeeps DEF LoopInv, Looping, Deciding
<1>2. CASE Create(k) /\ Leave(k) /\ UNCHANGED rows
  BY <1>2, LeaveMoves, QuietStep DEF rows, Looping, Deciding
<1>3. CASE Create(k) /\ ~(Leave(k) /\ UNCHANGED rows)
  <2>1. PICK t \in Turns : /\ status[t] = "none"
                           /\ status' = [status EXCEPT ![t] = "running"]
                           /\ turn'   = [turn EXCEPT ![k] = t]
                           /\ pc' = [pc EXCEPT ![k] = "top"]
                           /\ \A u \in Turns : status[u] \notin Open
                           /\ UNCHANGED <<iteration, kind>>
    BY <1>3 DEF Create, Fresh
  <2>2. \A j \in Tasks : pc[j] \in Looping \cup Deciding => turn[j] \in Turns /\ turn[j] # t
    BY <2>1, WorksOnTurn DEF LoopInv, Begun
  <2>3. pc \in [Tasks -> Labels] /\ turn \in [Tasks -> Turns \cup {NoTurn}] /\ status \in [Turns -> Statuses]
    BY DEF TypeOK
  <2>4. OneOpen'
    BY <2>1, <2>3 DEF OneOpen
  <2>5. OneLoop'
    BY <2>1, <2>2, <2>3 DEF LoopInv, OneLoop
  <2>6. LoopsRun'
    BY <2>1, <2>2, <2>3 DEF LoopInv, LoopsRun
  <2>7. Begun'
    BY <2>1, <2>2, <2>3 DEF LoopInv, Begun
  <2>8. Fits'
    BY <2>1, <2>2, <2>3 DEF LoopInv, Fits
  <2> QED
    BY <2>4, <2>5, <2>6, <2>7, <2>8 DEF LoopInv
<1> QED
  BY <1>1, <1>2, <1>3

\* A save with an open status, by the one task in the turn's loop: it keeps
\* the dialog unless the task goes on in the loop of a turn it has parked.
LEMMA SaveLoops ==
  ASSUME NEW k \in Tasks, NEW value \in Open, NEW steps \in Nat,
         NEW label \in {"leave", "iterate", "top"},
         TypeOK, LoopInv, pc[k] \in Looping, SaveOpen(k, value, steps, label),
         value = "awaiting_confirm" => label = "leave"
  PROVE  LoopInv'
<1>1. CASE Refused(turn[k]) /\ Leave(k) /\ UNCHANGED rows
  BY <1>1, LeaveMoves, QuietStep DEF rows, Looping, Deciding
<1>2. CASE ~Refused(turn[k])
  <2> DEFINE t == turn[k]
  <2>1. t \in Turns
    BY WorksOnTurn
  <2>2. /\ status' = [status EXCEPT ![t] = value]
        /\ iteration' = [iteration EXCEPT ![t] = @ + steps]
        /\ IF label = "leave" THEN Leave(k) ELSE GoTo(k, label)
    BY <1>2 DEF SaveOpen
  <2>3. /\ Moves(k)
        /\ label = "leave" => pc'[k] \notin Looping \cup Deciding
        /\ label # "leave" => pc'[k] = label /\ turn'[k] = turn[k]
    BY <2>2, LeaveMoves, GoToMoves DEF Labels, Looping
  <2>4. /\ pc'[k] \in Looping => turn'[k] = turn[k] /\ value # "awaiting_confirm"
        /\ pc'[k] \notin Deciding /\ pc'[k] # "save"
    BY <2>3 DEF Looping, Deciding
  <2>5. \A j \in Tasks : /\ pc'[j] \in Looping => pc[j] \in Looping /\ turn'[j] = turn[j]
                         /\ pc'[j] \in Looping /\ j # k => turn'[j] # t
                         /\ pc'[j] \in Deciding => pc[j] \in Deciding /\ turn'[j] = turn[j]
                         /\ pc'[j] = "save" => pc[j] = "save" /\ j # k
    BY <2>3, <2>4 DEF Moves, LoopInv, OneLoop, Looping
  <2>6. \A j \in Tasks : pc'[j] \in Looping \cup Deciding => turn'[j] \in Turns
    BY <2>5, WorksOnTurn
  <2>7. status \in [Turns -> Statuses] /\ iteration \in [Turns -> 0 .. MaxIterations]
    BY DEF TypeOK
  <2>8. OneOpen'
    BY <1>2, <2>1, <2>2, <2>7 DEF LoopInv, OneOpen, Refused
  <2>9. OneLoop'
    BY <2>5 DEF LoopInv, OneLoop
  <2>10. LoopsRun'
    BY <2>1, <2>2, <2>4, <2>5, <2>6, <2>7 DEF LoopInv, LoopsRun
  <2>11. Begun'
    BY <2>1, <2>2, <2>5, <2>6, <2>7 DEF LoopInv, Begun, Open, Live
  <2>12. Fits'
    BY <2>1, <2>2, <2>5, <2>6, <2>7 DEF LoopInv, Fits, Looping
  <2> QED
    BY <2>8, <2>9, <2>10, <2>11, <2>12 DEF LoopInv
<1> QED
  BY <1>1, <1>2 DEF SaveOpen

\* The loop.
LEMMA IterateLoops ==
  ASSUME NEW k \in Tasks, TypeOK, LoopInv,
         Refresh(k) \/ SaveRunning(k) \/ Continue(k) \/ Finish(k) \/ Propose(k) \/ Park(k)
  PROVE  LoopInv'
<1>1. CASE Refresh(k)
  <2>1. turn[k] \in Turns /\ pc[k] \in Looping
    BY <1>1, WorksOnTurn DEF Refresh, Looping
  <2>2. CASE Leave(k) /\ UNCHANGED rows
    BY <2>2, LeaveMoves, QuietStep DEF rows, Looping, Deciding
  <2>3. CASE Closing({turn[k]}) /\ Leave(k)
    <3>1. {turn[k]} \in SUBSET Turns /\ {turn[k]} \cap Fresh = {}
      BY <2>1 DEF LoopInv, Begun, Fresh
    <3> QED
      BY <2>3, <3>1, LeaveMoves, ClosingKeeps, MoveKeeps DEF LoopInv, Looping, Deciding
  <2>4. CASE ~AtLimit(turn[k]) /\ GoTo(k, "save") /\ UNCHANGED rows
    <3>1. Moves(k) /\ pc'[k] = "save" /\ turn'[k] = turn[k]
      BY <2>4, GoToMoves DEF Labels, Looping
    <3>2. \A j \in Tasks : /\ pc'[j] \in Looping <=> pc[j] \in Looping
                           /\ pc'[j] \in Deciding => pc[j] \in Deciding
                           /\ turn'[j] = turn[j]
                           /\ pc'[j] = "save" => pc[j] = "save" \/ j = k
      BY <2>1, <3>1 DEF Moves, Looping, Deciding
    <3>3. UNCHANGED <<status, iteration>> /\ iteration[turn[k]] < MaxIterations
      BY <2>1, <2>4, BoundsAssumption DEF rows, AtLimit, TypeOK
    <3> QED
      BY <3>2, <3>3 DEF LoopInv, OneOpen, OneLoop, LoopsRun, Begun, Fits
  <2> QED
    BY <1>1, <2>2, <2>3, <2>4 DEF Refresh
<1>2. CASE SaveRunning(k)
  BY <1>2, SaveLoops DEF SaveRunning, Looping, Open, Live
<1>3. CASE Continue(k)
  BY <1>3, GoToMoves, QuietStep DEF Continue, Labels, Looping, Deciding
<1>4. CASE Finish(k)
  <2>1. {turn[k]} \in SUBSET Turns /\ {turn[k]} \cap Fresh = {}
    BY <1>4, WorksOnTurn DEF Finish, LoopInv, Begun, Fresh, Looping
  <2> QED
    BY <1>4, <2>1, LeaveMoves, ClosingKeeps, MoveKeeps DEF Finish, LoopInv, Looping, Deciding
<1>5. CASE Propose(k)
  BY <1>5, GoToMoves, QuietStep DEF Propose, rows, Labels, Looping, Deciding
<1>6. CASE Park(k)
  BY <1>6, SaveLoops DEF Park, Looping, Open
<1> QED
  BY <1>1, <1>2, <1>3, <1>4, <1>5, <1>6

\* Decisions: a task enters the loop when it finds the turn parked, hence
\* without a task in its loop.
LEMMA DecideLoops ==
  ASSUME NEW k \in Tasks, TypeOK, LoopInv,
         ClaimAction(k) \/ FindClaimed(k) \/ HandlerEnds(k) \/ Withdraw(k) \/ TakeTurn(k) \/ Feed(k)
  PROVE  LoopInv'
<1>0. pc[k] \in Deciding => turn[k] \in Turns /\ status[turn[k]] # "none"
  BY WorksOnTurn DEF LoopInv, Begun
<1>1. CASE ClaimAction(k) \/ FindClaimed(k) \/ HandlerEnds(k) \/ Withdraw(k)
  <2>1. pc[k] \in Deciding /\ UNCHANGED <<status, iteration>>
    BY <1>1 DEF ClaimAction, FindClaimed, HandlerEnds, Withdraw, rows, Deciding
  <2>2. Leave(k) \/ GoTo(k, "handle") \/ GoTo(k, "resume")
    BY <1>1 DEF ClaimAction, FindClaimed, HandlerEnds, Withdraw
  <2> QED
    BY <1>0, <2>1, <2>2, LeaveMoves, GoToMoves, QuietStep DEF Labels, Looping, Deciding
<1>2. CASE TakeTurn(k) /\ Leave(k) /\ UNCHANGED rows
  BY <1>2, LeaveMoves, QuietStep DEF rows, Looping, Deciding
<1>3. CASE TakeTurn(k) /\ MayResume(turn[k])
  <2> DEFINE t == turn[k]
  <2>1. t \in Turns /\ status[t] = "awaiting_confirm"
    BY <1>0, <1>3 DEF TakeTurn, MayResume, Deciding
  <2>2. /\ status' = [status EXCEPT ![t] = "resuming"]
        /\ GoTo(k, "feed") /\ UNCHANGED iteration
    BY <1>3 DEF TakeTurn
  <2>3. Moves(k) /\ pc'[k] = "feed" /\ turn'[k] = t
    BY <2>2, GoToMoves DEF Labels, Looping
  <2>4. \A j \in Tasks : /\ pc'[j] \in Looping => j = k \/ (pc[j] \in Looping /\ turn'[j] = turn[j])
                         /\ pc'[j] \in Looping \cup Deciding =>
                              j = k \/ (pc[j] \in Looping \cup Deciding /\ turn'[j] = turn[j])
                         /\ pc'[j] = "save" => pc[j] = "save" /\ turn'[j] = turn[j]
    BY <2>3 DEF Moves
  <2>5. \A j \in Tasks : pc[j] \in Looping => turn[j] \in Turns /\ turn[j] # t
    BY <2>1, WorksOnTurn DEF LoopInv, LoopsRun
  <2>6. \A j \in Tasks : pc[j] \in Looping \cup Deciding => turn[j] \in Turns
    BY WorksOnTurn
  <2>7. status \in [Turns -> Statuses]
    BY DEF TypeOK
  <2>8. OneOpen'
    BY <2>1, <2>2, <2>7 DEF LoopInv, OneOpen, Open, Live
  <2>9. OneLoop'
    BY <2>3, <2>4, <2>5 DEF LoopInv, OneLoop
  <2>10. LoopsRun'
    BY <2>1, <2>2, <2>3, <2>4, <2>5, <2>7 DEF LoopInv, LoopsRun
  <2>11. Begun'
    BY <2>1, <2>2, <2>3, <2>4, <2>6, <2>7 DEF LoopInv, Begun
  <2>12. Fits'
    BY <2>2, <2>4 DEF LoopInv, Fits
  <2> QED
    BY <2>8, <2>9, <2>10, <2>11, <2>12 DEF LoopInv
<1>4. CASE Feed(k)
  BY <1>4, SaveLoops DEF Feed, Looping, Open, Live
<1> QED
  BY <1>1, <1>2, <1>3, <1>4 DEF TakeTurn

\* Ends of tasks, stops, time and crashes.
LEMMA EndLoops ==
  ASSUME TypeOK, LoopInv,
         \/ \E k \in Tasks : Unwind(k) \/ Raise(k) \/ Beat(k) \/ TimeOut(k)
         \/ \E t \in Turns : LooseEnds(t) \/ Age(t)
         \/ StopTask \/ StopCloses \/ Reconnect \/ Crash
  PROVE  LoopInv'
<1>0. LiveTurns \in SUBSET Turns /\ LiveTurns \cap Fresh = {}
      /\ Abandoned \in SUBSET Turns /\ Abandoned \cap Fresh = {}
  BY DEF Abandoned, LiveTurns, Live, Fresh
<1>1. ASSUME NEW k \in Tasks, Unwind(k)
      PROVE  LoopInv'
  <2>1. Moves(k) /\ pc'[k] = "idle" /\ UNCHANGED <<status, iteration>>
    BY <1>1 DEF Unwind, Moves, TypeOK, Labels, rows
  <2> QED
    BY <2>1, QuietStep DEF Looping, Deciding
<1>2. ASSUME NEW k \in Tasks, Leave(k), UNCHANGED <<status, iteration>>
      PROVE  LoopInv'
  BY <1>2, LeaveMoves, QuietStep DEF Looping, Deciding
<1>3. ASSUME UNCHANGED <<status, iteration, tasks>>
      PROVE  LoopInv'
  BY <1>3 DEF tasks, LoopInv, OneOpen, OneLoop, LoopsRun, Begun, Fits
<1>4. ASSUME NEW k \in Tasks, TimeOut(k)
      PROVE  LoopInv'
  BY <1>0, <1>4, LeaveMoves, ClosingKeeps, MoveKeeps DEF TimeOut, LoopInv, Looping, Deciding
<1>5. ASSUME NEW S \in SUBSET Turns, S \cap Fresh = {}, Closing(S), UNCHANGED tasks
      PROVE  LoopInv'
  <2>1. /\ OneOpen' /\ iteration' = iteration
        /\ \A t \in Turns : status[t] # "awaiting_confirm" => status'[t] # "awaiting_confirm"
        /\ \A t \in Turns : status[t] # "none" => status'[t] # "none"
    BY <1>5, ClosingKeeps
  <2>2. \A j \in Tasks : pc[j] \in Looping \cup Deciding => turn[j] \in Turns
    BY WorksOnTurn
  <2> QED
    BY <1>5, <2>1, <2>2 DEF tasks, LoopInv, OneLoop, LoopsRun, Begun, Fits
<1>6. CASE Crash
  <2>1. \A k \in Tasks : pc'[k] = "idle"
    BY <1>6 DEF Crash
  <2> QED
    BY <1>6, <2>1 DEF Crash, rows, LoopInv, OneOpen, OneLoop, LoopsRun, Begun, Fits, Looping, Deciding
<1>7. ASSUME NEW k \in Tasks, Beat(k)
      PROVE  LoopInv'
  BY <1>2, <1>3, <1>7 DEF Beat, CancelTask
<1>8. CASE StopTask
  <2>1. entry # NoTask => entry \in Tasks
    BY DEF TypeOK, Tasks
  <2> QED
    BY <1>2, <1>3, <1>8, <2>1 DEF StopTask, Busy, CancelTask, rows
<1> QED
  BY <1>0, <1>1, <1>2, <1>3, <1>4, <1>5, <1>6, <1>7, <1>8
     DEF Raise, LooseEnds, Age, StopCloses, Reconnect, rows

LEMMA LoopStep ==
  ASSUME TypeOK, LoopInv, [Next]_vars
  PROVE  LoopInv'
<1>1. CASE UNCHANGED vars
  BY <1>1 DEF vars, rows, tasks, LoopInv, OneOpen, OneLoop, LoopsRun, Begun, Fits
<1>2. CASE Next
  BY <1>2, BeginLoops, StartLoops, IterateLoops, DecideLoops, EndLoops DEF Next, Work
<1> QED
  BY <1>1, <1>2

-----------------------------------------------------------------------------
(* Types *)

\* The rows, the tasks, and what only created turns have.
RowTypes == /\ status \in [Turns -> Statuses]
            /\ iteration \in [Turns -> 0 .. MaxIterations]
            /\ stale \in [Turns -> BOOLEAN]

DeedTypes == /\ action \in [Turns -> Actions]
             /\ runs \in [Turns -> Nat]
             /\ told \in [Turns -> Actions \cup {"nothing"}]
             /\ loose \subseteq Turns

TaskTypes == /\ pc \in [Tasks -> Labels]
             /\ kind \in [Tasks -> {"message", "confirm", "cancel"}]
             /\ turn \in [Tasks -> Turns \cup {NoTurn}]
             /\ \A k \in Tasks : pc[k] \in Looping \cup Deciding => turn[k] \in Turns

RestTypes == /\ entry \in Sockets \cup {NoTask}
             /\ stopping \in BOOLEAN
             /\ crashes \in 0 .. MaxCrashes

Unborn == \A t \in Turns : status[t] = "none" => action[t] = "none"

LEMMA TypeParts == RowTypes' /\ DeedTypes' /\ TaskTypes' /\ RestTypes' /\ Unborn' => TypeOK'
  BY DEF TypeOK, RowTypes, DeedTypes, TaskTypes, RestTypes, Unborn

\* A task that moves keeps its turn, leaves, or has got one.
LEMMA MovesType ==
  ASSUME NEW k \in Tasks, TypeOK, Moves(k),
         pc'[k] \in Looping \cup Deciding => turn'[k] \in Turns
  PROVE  TaskTypes'
  BY DEF Moves, TypeOK, TaskTypes

LEMMA LeaveType ==
  ASSUME NEW k \in Tasks, TypeOK, Leave(k)
  PROVE  TaskTypes'
  BY LeaveMoves, MovesType

LEMMA GoToType ==
  ASSUME NEW k \in Tasks, NEW l \in Labels, TypeOK, GoTo(k, l),
         pc[k] \in Looping \cup Deciding \/ l \notin Looping \cup Deciding
  PROVE  TaskTypes'
  BY GoToMoves, MovesType, WorksOnTurn

\* Closing created turns keeps the types of the rows.
LEMMA ClosingType ==
  ASSUME NEW S \in SUBSET Turns, TypeOK, LoopInv, Closing(S), S \cap Fresh = {}
  PROVE  RowTypes' /\ (action' = action => Unborn')
  BY ClosingKeeps DEF TypeOK, RowTypes, Unborn

\* A save with an open status.
LEMMA SaveType ==
  ASSUME NEW k \in Tasks, NEW value \in Open, NEW steps \in {0, 1},
         NEW label \in {"leave", "iterate", "top"},
         TypeOK, LoopInv, pc[k] \in Looping, SaveOpen(k, value, steps, label),
         steps = 1 => pc[k] = "save"
  PROVE  RowTypes' /\ TaskTypes' /\ (action' = action => Unborn')
<1>1. turn[k] \in Turns
  BY WorksOnTurn
<1>2. TaskTypes'
  BY LeaveType, GoToType DEF SaveOpen, Labels, Looping
<1>3. status' \in [Turns -> Statuses] /\ stale' \in [Turns -> BOOLEAN]
  <2>1. CASE UNCHANGED rows
    BY <2>1 DEF TypeOK, rows
  <2>2. CASE ~UNCHANGED rows
    <3>1. /\ status' = [status EXCEPT ![turn[k]] = value]
          /\ stale' = [stale EXCEPT ![turn[k]] = FALSE]
      BY <2>2 DEF SaveOpen
    <3> QED
      BY <3>1 DEF TypeOK, Statuses
  <2> QED
    BY <2>1, <2>2
<1>4. iteration' \in [Turns -> 0 .. MaxIterations]
  <2>1. steps = 1 => iteration[turn[k]] < MaxIterations
    BY DEF LoopInv, Fits
  <2>2. iteration[turn[k]] + steps \in 0 .. MaxIterations
    BY <1>1, <2>1, BoundsAssumption DEF TypeOK
  <2> QED
    BY <1>1, <2>2 DEF SaveOpen, TypeOK, rows
<1>5. \A t \in Turns : status'[t] = "none" => status[t] = "none"
  BY <1>1 DEF SaveOpen, TypeOK, rows, Open, Live
<1> QED
  BY <1>2, <1>3, <1>4, <1>5 DEF RowTypes, TypeOK, Unborn

\* Messages and decisions arrive.
LEMMA ArriveTypes ==
  ASSUME NEW k \in Tasks, TypeOK, LoopInv,
         \/ Message(k) \/ Admit(k) \/ Create(k)
         \/ \E t \in Turns : Confirm(k, t) \/ Cancel(k, t)
  PROVE  TypeOK'
<1>1. CASE Message(k) \/ \E t \in Turns : Confirm(k, t) \/ Cancel(k, t)
  <2>1. PICK label \in {"admit", "claim", "withdraw"}, what \in {"message", "confirm", "cancel"},
             t \in Turns \cup {NoTurn} : Begin(k, what, t, label)
                                      /\ (label # "admit" => t \in Turns)
    BY <1>1 DEF Message, Confirm, Cancel
  <2>2. Moves(k) /\ pc'[k] = label /\ turn'[k] = t
    BY <2>1 DEF Begin, Moves, TypeOK, Labels, Deciding
  <2>3. TaskTypes'
    BY <2>1, <2>2, MovesType DEF Looping, Deciding
  <2>4. RestTypes'
    BY <2>1 DEF Begin, RestTypes, TypeOK
  <2>5. UNCHANGED <<rows, deeds>>
    BY <2>1 DEF Begin
  <2>6. RowTypes' /\ DeedTypes' /\ Unborn'
    BY <2>5 DEF TypeOK, RowTypes, DeedTypes, Unborn, rows, deeds
  <2> QED
    BY <2>3, <2>4, <2>6, TypeParts
<1>2. CASE Admit(k)
  <2>1. Superseded \in SUBSET Turns /\ Superseded \cap Fresh = {} /\ Closing(Superseded)
    BY <1>2 DEF Admit, Superseded, Fresh
  <2>2. UNCHANGED <<action, runs, told, loose, entry, stopping, crashes>>
    BY <1>2 DEF Admit, deeds
  <2>3. TaskTypes'
    BY <1>2, LeaveType, GoToType DEF Admit, Labels, Looping, Deciding
  <2>4. RowTypes' /\ Unborn'
    BY <2>1, <2>2, ClosingType
  <2> QED
    BY <2>2, <2>3, <2>4, TypeParts DEF DeedTypes, RestTypes, TypeOK
<1>3. CASE Create(k)
  <2>2. UNCHANGED <<action, runs, told, loose, entry, stopping, crashes>>
    BY <1>3 DEF Create, deeds
  <2>3. CASE Leave(k) /\ UNCHANGED rows
    BY <2>2, <2>3, LeaveType, TypeParts DEF RowTypes, DeedTypes, RestTypes, Unborn, rows, TypeOK
  <2>4. CASE ~(Leave(k) /\ UNCHANGED rows)
    <3>1. PICK t \in Turns : /\ status' = [status EXCEPT ![t] = "running"]
                             /\ turn'   = [turn EXCEPT ![k] = t]
                             /\ pc' = [pc EXCEPT ![k] = "top"]
                             /\ UNCHANGED <<iteration, stale, kind>>
      BY <1>3, <2>4 DEF Create, Fresh
    <3>2. RowTypes' /\ Unborn'
      BY <2>2, <3>1 DEF TypeOK, RowTypes, Unborn, Statuses, Open, Live
    <3>3. Moves(k) /\ turn'[k] \in Turns
      BY <3>1 DEF Moves, TypeOK, Labels, Looping
    <3> QED
      BY <2>2, <3>2, <3>3, MovesType, TypeParts DEF DeedTypes, RestTypes, TypeOK
  <2> QED
    BY <2>3, <2>4
<1> QED
  BY <1>1, <1>2, <1>3

\* The loop.
LEMMA IterateTypes ==
  ASSUME NEW k \in Tasks, TypeOK, LoopInv,
         Refresh(k) \/ SaveRunning(k) \/ Continue(k) \/ Finish(k) \/ Propose(k) \/ Park(k)
  PROVE  TypeOK'
<1>1. /\ pc[k] \in Looping /\ turn[k] \in Turns
      /\ UNCHANGED <<runs, told, loose, entry, stopping, crashes>>
  BY WorksOnTurn
     DEF Refresh, SaveRunning, Continue, Finish, Propose, Park, Looping, deeds
<1>2. RestTypes'
  BY <1>1 DEF RestTypes, TypeOK
<1>3. DeedTypes'
  BY <1>1 DEF Refresh, SaveRunning, Continue, Finish, Propose, Park, deeds, DeedTypes, TypeOK, Actions
<1>4. TaskTypes'
  <2>1. CASE SaveRunning(k) \/ Park(k)
    BY <1>1, <2>1, SaveType DEF SaveRunning, Park, Open, Live
  <2>2. CASE ~(SaveRunning(k) \/ Park(k))
    <3>1. Leave(k) \/ GoTo(k, "save") \/ GoTo(k, "top") \/ GoTo(k, "park")
      BY <2>2 DEF Refresh, Continue, Finish, Propose
    <3> QED
      BY <1>1, <3>1, LeaveType, GoToType DEF Labels, Looping
  <2> QED
    BY <2>1, <2>2
<1>5. RowTypes' /\ Unborn'
  <2>1. CASE SaveRunning(k) \/ Park(k)
    BY <1>1, <2>1, SaveType DEF SaveRunning, Park, Open, Live, deeds
  <2>2. CASE Propose(k)
    <3>1. status[turn[k]] # "none"
      BY <1>1 DEF LoopInv, Begun
    <3>2. UNCHANGED <<status, iteration, stale>> /\ action' = [action EXCEPT ![turn[k]] = "asked"]
      BY <2>2 DEF Propose, rows
    <3> QED
      BY <1>1, <3>1, <3>2 DEF RowTypes, Unborn, TypeOK
  <2>3. CASE Refresh(k) /\ UNCHANGED rows
    BY <2>3 DEF Refresh, rows, deeds, RowTypes, Unborn, TypeOK
  <2>4. CASE Finish(k) \/ (Refresh(k) /\ Closing({turn[k]}))
    <3>1. {turn[k]} \in SUBSET Turns /\ {turn[k]} \cap Fresh = {} /\ Closing({turn[k]}) /\ action' = action
      BY <1>1, <2>4 DEF LoopInv, Begun, Fresh, Finish, Refresh, deeds
    <3> QED
      BY <3>1, ClosingType
  <2>5. CASE Continue(k)
    BY <1>1, <2>5 DEF Continue, deeds, RowTypes, Unborn, TypeOK
  <2> QED
    BY <2>1, <2>2, <2>3, <2>4, <2>5 DEF Refresh
<1> QED
  BY <1>2, <1>3, <1>4, <1>5, TypeParts

\* Decisions.
LEMMA DecideTypes ==
  ASSUME NEW k \in Tasks, TypeOK, LoopInv,
         ClaimAction(k) \/ FindClaimed(k) \/ HandlerEnds(k) \/ Withdraw(k) \/ TakeTurn(k) \/ Feed(k)
  PROVE  TypeOK'
<1>1. /\ pc[k] \in Looping \cup Deciding /\ turn[k] \in Turns /\ status[turn[k]] # "none"
      /\ UNCHANGED <<loose, entry, stopping, crashes>>
  <2>1. pc[k] \in Looping \cup Deciding /\ UNCHANGED <<loose, entry, stopping, crashes>>
    BY DEF ClaimAction, FindClaimed, HandlerEnds, Withdraw, TakeTurn, Feed, Looping, Deciding, deeds
  <2> QED
    BY <2>1, WorksOnTurn DEF LoopInv, Begun
<1>2. RestTypes'
  BY <1>1 DEF RestTypes, TypeOK
<1>3. CASE ClaimAction(k) \/ FindClaimed(k) \/ HandlerEnds(k) \/ Withdraw(k)
  <2>1. TaskTypes'
    <3>1. Leave(k) \/ GoTo(k, "handle") \/ GoTo(k, "resume")
      BY <1>3 DEF ClaimAction, FindClaimed, HandlerEnds, Withdraw
    <3> QED
      BY <1>1, <3>1, LeaveType, GoToType DEF Labels, Deciding
  <2>2. UNCHANGED <<status, iteration, stale, told>>
    BY <1>3 DEF ClaimAction, FindClaimed, HandlerEnds, Withdraw, rows, deeds
  <2>3. action' \in [Turns -> Actions] /\ \A t \in Turns \ {turn[k]} : action'[t] = action[t]
    BY <1>1, <1>3 DEF ClaimAction, FindClaimed, HandlerEnds, Withdraw, TypeOK, Actions, Decided, deeds
  <2>4. runs' \in [Turns -> Nat]
    BY <1>1, <1>3 DEF ClaimAction, FindClaimed, HandlerEnds, Withdraw, TypeOK, deeds
  <2>5. RowTypes' /\ DeedTypes'
    BY <1>1, <2>2, <2>3, <2>4 DEF RowTypes, DeedTypes, TypeOK
  <2>6. Unborn'
    BY <1>1, <2>2, <2>3 DEF Unborn, TypeOK
  <2> QED
    BY <1>2, <2>1, <2>5, <2>6, TypeParts
<1>4. CASE TakeTurn(k)
  <2>1. TaskTypes'
    BY <1>1, <1>4, LeaveType, GoToType DEF TakeTurn, Labels, Looping
  <2>2. DeedTypes' /\ action' = action
    BY <1>4 DEF TakeTurn, deeds, DeedTypes, TypeOK
  <2>3. RowTypes' /\ Unborn'
    <3>1. CASE UNCHANGED rows
      BY <2>2, <3>1 DEF rows, RowTypes, Unborn, TypeOK
    <3>2. CASE ~UNCHANGED rows
      <4>1. /\ status' = [status EXCEPT ![turn[k]] = "resuming"]
            /\ stale' = [stale EXCEPT ![turn[k]] = FALSE]
            /\ UNCHANGED iteration
        BY <1>4, <3>2 DEF TakeTurn
      <4> QED
        BY <2>2, <4>1 DEF RowTypes, Unborn, TypeOK, Statuses, Open, Live
    <3> QED
      BY <3>1, <3>2
  <2> QED
    BY <1>2, <2>1, <2>2, <2>3, TypeParts
<1>5. CASE Feed(k)
  <2>1. UNCHANGED <<action, runs, loose>> /\ pc[k] \in Looping
    BY <1>5 DEF Feed, Looping
  <2>2. RowTypes' /\ TaskTypes' /\ Unborn'
    BY <1>5, <2>1, SaveType DEF Feed, Open, Live
  <2>3. Said(k) \in Actions
    BY <1>1 DEF Said, TypeOK, Actions, Decided
  <2>4. DeedTypes'
    BY <1>1, <1>5, <2>1, <2>3 DEF Feed, DeedTypes, TypeOK
  <2> QED
    BY <1>2, <2>2, <2>4, TypeParts
<1> QED
  BY <1>3, <1>4, <1>5

\* Ends of tasks, stops, time and crashes.
LEMMA EndTypes ==
  ASSUME TypeOK, LoopInv, \A t \in loose : action[t] = "running",
         \/ \E k \in Tasks : Unwind(k) \/ Raise(k) \/ Beat(k) \/ TimeOut(k)
         \/ \E t \in Turns : LooseEnds(t) \/ Age(t)
         \/ StopTask \/ StopCloses \/ Reconnect \/ Crash
  PROVE  TypeOK'
<1>0. LiveTurns \in SUBSET Turns /\ LiveTurns \cap Fresh = {}
      /\ Abandoned \in SUBSET Turns /\ Abandoned \cap Fresh = {}
  BY DEF Abandoned, LiveTurns, Live, Fresh
<1>1. ASSUME NEW k \in Tasks, Unwind(k)
      PROVE  TypeOK'
  <2>1. Moves(k) /\ pc'[k] = "idle"
    BY <1>1 DEF Unwind, Moves, TypeOK, Labels
  <2>2. TaskTypes'
    BY <2>1, MovesType DEF Looping, Deciding
  <2>3. RestTypes' /\ RowTypes' /\ DeedTypes' /\ Unborn'
    BY <1>1 DEF Unwind, RestTypes, RowTypes, DeedTypes, Unborn, TypeOK, rows, deeds
  <2> QED
    BY <2>2, <2>3, TypeParts
<1>2. ASSUME NEW k \in Tasks, Raise(k)
      PROVE  TypeOK'
  BY <1>2, LeaveType, TypeParts
     DEF Raise, RestTypes, RowTypes, DeedTypes, Unborn, TypeOK, rows, deeds
<1>3. ASSUME NEW k \in Tasks, CancelTask(k)
      PROVE  TaskTypes' /\ DeedTypes' /\ action' = action
  <2>1. pc[k] = "handle" => turn[k] \in Turns
    BY WorksOnTurn DEF Deciding
  <2> QED
    BY <1>3, <2>1, LeaveType DEF CancelTask, DeedTypes, TypeOK
<1>4. ASSUME UNCHANGED <<tasks, deeds>>
      PROVE  TaskTypes' /\ DeedTypes' /\ action' = action
  BY <1>4 DEF tasks, deeds, TaskTypes, DeedTypes, TypeOK
<1>5. ASSUME NEW k \in Tasks, Beat(k)
      PROVE  TypeOK'
  <2>1. TaskTypes' /\ DeedTypes' /\ action' = action
    BY <1>3, <1>4, <1>5 DEF Beat
  <2>2. RowTypes' /\ RestTypes' /\ Unborn'
    BY <1>5, <2>1 DEF Beat, RowTypes, RestTypes, Unborn, TypeOK
  <2> QED
    BY <2>1, <2>2, TypeParts
<1>6. ASSUME NEW k \in Tasks, TimeOut(k)
      PROVE  TypeOK'
  <2>1. TaskTypes' /\ UNCHANGED <<action, runs, told, loose, entry, stopping, crashes>>
    BY <1>6, LeaveType DEF TimeOut, deeds
  <2>2. RowTypes' /\ Unborn'
    BY <1>0, <1>6, <2>1, ClosingType DEF TimeOut
  <2> QED
    BY <2>1, <2>2, TypeParts DEF DeedTypes, RestTypes, TypeOK
<1>7. ASSUME NEW t \in Turns, LooseEnds(t)
      PROVE  TypeOK'
  <2>1. TaskTypes' /\ RowTypes' /\ RestTypes'
    BY <1>7 DEF LooseEnds, tasks, rows, TaskTypes, RowTypes, RestTypes, TypeOK
  <2>2. DeedTypes'
    BY <1>7 DEF LooseEnds, DeedTypes, TypeOK, Actions, Decided
  <2>3. Unborn'
    BY <1>7 DEF LooseEnds, rows, Unborn, TypeOK
  <2> QED
    BY <2>1, <2>2, <2>3, TypeParts
<1>8. ASSUME NEW t \in Turns, Age(t)
      PROVE  TypeOK'
  BY <1>8, <1>4, TypeParts DEF Age, deeds, tasks, RowTypes, RestTypes, Unborn, TypeOK
<1>9. CASE StopTask
  <2>1. TaskTypes' /\ DeedTypes' /\ action' = action
    BY <1>3, <1>4, <1>9 DEF StopTask, Busy, TypeOK, Tasks
  <2>2. RowTypes' /\ RestTypes' /\ Unborn'
    BY <1>9, <2>1 DEF StopTask, rows, RowTypes, RestTypes, Unborn, TypeOK
  <2> QED
    BY <2>1, <2>2, TypeParts
<1>10. CASE StopCloses \/ Reconnect
  <2>1. PICK S \in {LiveTurns, Abandoned} : Closing(S)
    BY <1>10 DEF StopCloses, Reconnect
  <2>2. TaskTypes' /\ DeedTypes' /\ action' = action
    BY <1>4, <1>10 DEF StopCloses, Reconnect
  <2>3. RowTypes' /\ Unborn'
    BY <1>0, <2>1, <2>2, ClosingType
  <2>4. RestTypes'
    BY <1>10 DEF StopCloses, Reconnect, RestTypes, TypeOK
  <2> QED
    BY <2>2, <2>3, <2>4, TypeParts
<1>11. CASE Crash
  <2>1. RowTypes' /\ Unborn'
    BY <1>11 DEF Crash, rows, RowTypes, Unborn, TypeOK
  <2>2. DeedTypes' /\ TaskTypes'
    BY <1>11 DEF Crash, DeedTypes, TaskTypes, TypeOK, Labels, Looping, Deciding
  <2>3. crashes' \in 0 .. MaxCrashes
    <3>1. crashes < MaxCrashes /\ crashes' = crashes + 1
      BY <1>11 DEF Crash
    <3> QED
      BY <3>1, BoundsAssumption DEF TypeOK
  <2> QED
    BY <1>11, <2>1, <2>2, <2>3, TypeParts DEF Crash, RestTypes
<1> QED
  BY <1>1, <1>2, <1>5, <1>6, <1>7, <1>8, <1>9, <1>10, <1>11

LEMMA TypeStep ==
  ASSUME TypeOK, LoopInv, \A t \in loose : action[t] = "running", [Next]_vars
  PROVE  TypeOK'
<1>1. CASE UNCHANGED vars
  BY <1>1 DEF vars, rows, deeds, tasks, TypeOK
<1>2. CASE Next
  BY <1>2, ArriveTypes, IterateTypes, DecideTypes, EndTypes DEF Next, Work
<1> QED
  BY <1>1, <1>2

-----------------------------------------------------------------------------
(* The action of a turn *)

\* Its handler was started once it ran, and not before.
Counted == \A t \in Turns : /\ runs[t] <= 1
                            /\ action[t] \in {"none", "asked", "cancelled"} => runs[t] = 0

\* It has one handler at most, waited for or loose, and only while it runs.
Handled == /\ \A t \in loose : action[t] = "running"
           /\ \A k \in Tasks : pc[k] = "handle" => action[turn[k]] = "running" /\ turn[k] \notin loose
           /\ \A j, k \in Tasks : pc[j] = "handle" /\ pc[k] = "handle" /\ turn[j] = turn[k] => j = k

\* What a task that decides knows of it: a confirmation resumes the turn with
\* a decided action, a cancellation with one that is no longer asked for.
Knows(k) == /\ pc[k] \in {"claim", "handle"} => kind[k] = "confirm"
            /\ pc[k] = "withdraw" => kind[k] = "cancel"
            /\ pc[k] \in {"claim", "withdraw"} => action[turn[k]] # "none"
            /\ pc[k] \in {"resume", "feed"} =>
                 \/ kind[k] = "confirm" /\ action[turn[k]] \in Decided
                 \/ kind[k] = "cancel" /\ action[turn[k]] \notin {"none", "asked"}

Heard == \A t \in Turns : \/ told[t] = "nothing"
                          \/ told[t] = "cancelled" /\ action[t] \notin {"none", "asked"}
                          \/ told[t] = action[t] /\ action[t] \in Decided

DeedInv == Counted /\ Handled /\ (\A k \in Tasks : Knows(k)) /\ Heard

\* An action only goes on, and what is decided stays.
Later(t) == \/ action'[t] = action[t]
            \/ action[t] = "none" /\ action'[t] = "asked"
            \/ action[t] = "asked" /\ action'[t] \in {"running", "failed", "cancelled"}
            \/ action[t] = "running" /\ action'[t] \in {"completed", "failed"}

\* So the tasks that do not move know what they knew, and the model, too.
LEMMA StillKnown ==
  ASSUME TypeOK, DeedInv, \A t \in Turns : Later(t)
  PROVE  /\ \A j \in Tasks : pc'[j] = pc[j] /\ kind'[j] = kind[j] /\ turn'[j] = turn[j] => Knows(j)'
         /\ told' = told => Heard'
<1>1. ASSUME NEW j \in Tasks, pc'[j] = pc[j], kind'[j] = kind[j], turn'[j] = turn[j]
      PROVE  Knows(j)'
  <2>1. CASE pc[j] \in Looping \cup Deciding
    <3>1. turn[j] \in Turns /\ Knows(j) /\ Later(turn[j])
      BY <2>1, WorksOnTurn DEF DeedInv
    <3> QED
      BY <1>1, <3>1 DEF Knows, Later, Decided
  <2>2. CASE pc[j] \notin Looping \cup Deciding
    BY <1>1, <2>2 DEF Knows, Looping, Deciding
  <2> QED
    BY <2>1, <2>2
<1>2. ASSUME told' = told
      PROVE  Heard'
  BY <1>2 DEF DeedInv, Heard, Later, Decided
<1> QED
  BY <1>1, <1>2

\* A step of one task that leaves the deeds alone and starts no handler.
LEMMA QuietDeed ==
  ASSUME NEW k \in Tasks, TypeOK, DeedInv, Moves(k), UNCHANGED deeds,
         pc'[k] # "handle", Knows(k)'
  PROVE  DeedInv'
<1>1. UNCHANGED <<action, runs, told, loose>>
  BY DEF deeds
<1>2. \A j \in Tasks : Knows(j)'
  BY <1>1, StillKnown DEF Moves, Later
<1>3. Heard' /\ Counted'
  BY <1>1 DEF DeedInv, Heard, Counted
<1>4. Handled'
  BY <1>1 DEF DeedInv, Handled, Moves
<1> QED
  BY <1>2, <1>3, <1>4 DEF DeedInv

\* A task that leaves, or goes on outside of a decision.
LEMMA LeaveDeed ==
  ASSUME NEW k \in Tasks, TypeOK, DeedInv, UNCHANGED deeds,
         \/ Leave(k)
         \/ \E l \in {"create", "top", "save", "iterate", "park"} : GoTo(k, l)
  PROVE  DeedInv'
<1>1. Moves(k) /\ pc'[k] \notin Deciding \cup {"feed"}
  BY LeaveMoves, GoToMoves DEF Labels, Looping, Deciding
<1> QED
  BY <1>1, QuietDeed DEF Knows, Deciding

\* Messages and decisions arrive, turns are created and iterate.
LEMMA ArriveDeeds ==
  ASSUME NEW k \in Tasks, TypeOK, DeedInv,
         \/ Message(k) \/ Admit(k) \/ Create(k)
         \/ \E t \in Turns : Confirm(k, t) \/ Cancel(k, t)
         \/ Refresh(k) \/ SaveRunning(k) \/ Continue(k) \/ Finish(k) \/ Park(k)
  PROVE  DeedInv'
<1>1. CASE Message(k) \/ \E t \in Turns : Confirm(k, t) \/ Cancel(k, t)
  <2>1. PICK label \in {"admit", "claim", "withdraw"}, what \in {"message", "confirm", "cancel"},
             t \in Turns \cup {NoTurn} :
               /\ Begin(k, what, t, label)
               /\ label = "claim" => what = "confirm" /\ action[t] # "none"
               /\ label = "withdraw" => what = "cancel" /\ action[t] # "none"
    BY <1>1 DEF Message, Confirm, Cancel
  <2>2. Moves(k) /\ pc'[k] = label /\ turn'[k] = t /\ kind'[k] = what /\ UNCHANGED deeds
    BY <2>1 DEF Begin, Moves, TypeOK, Labels, Deciding
  <2>3. Knows(k)'
    BY <2>1, <2>2 DEF Knows, deeds
  <2> QED
    BY <2>2, <2>3, QuietDeed
<1>2. CASE Create(k) /\ ~Leave(k)
  <2>1. Moves(k) /\ pc'[k] = "top" /\ UNCHANGED deeds
    BY <1>2 DEF Create, Moves, TypeOK, Labels, Looping, Fresh
  <2> QED
    BY <2>1, QuietDeed DEF Knows
<1>3. CASE Admit(k) \/ (Create(k) /\ Leave(k))
  BY <1>3, LeaveDeed DEF Admit, Create
<1>4. CASE Refresh(k) \/ SaveRunning(k) \/ Continue(k) \/ Finish(k) \/ Park(k)
  BY <1>4, LeaveDeed DEF Refresh, SaveRunning, Continue, Finish, Park, SaveOpen
<1> QED
  BY <1>1, <1>2, <1>3, <1>4

\* A step in which one task changes the action of its turn and nothing loose.
LEMMA ActionDeed ==
  ASSUME NEW k \in Tasks, TypeOK, DeedInv, Moves(k),
         turn[k] \in Turns, turn'[k] = turn[k],
         \A t \in Turns \ {turn[k]} : action'[t] = action[t],
         Later(turn[k]), UNCHANGED <<told, loose>>, Counted', Knows(k)',
         action[turn[k]] # "running" \/ pc[k] = "handle",
         pc'[k] = "handle" => action'[turn[k]] = "running" /\ action[turn[k]] # "running"
  PROVE  DeedInv'
<1> DEFINE t == turn[k]
<1>1. \A u \in Turns : Later(u)
  BY DEF Later
<1>2. (\A j \in Tasks : Knows(j)') /\ Heard'
  BY <1>1, StillKnown DEF Moves
<1>3. t \notin loose /\ \A j \in Tasks \ {k} : pc[j] = "handle" => turn[j] # t
  BY DEF DeedInv, Handled
<1>4. \A j \in Tasks : pc[j] = "handle" => turn[j] \in Turns
  BY WorksOnTurn DEF Deciding
<1>5. \A u \in loose : u \in Turns
  BY DEF TypeOK
<1>6. Handled'
  BY <1>3, <1>4, <1>5 DEF DeedInv, Handled, Moves
<1> QED
  BY <1>2, <1>6 DEF DeedInv

\* The action is proposed, claimed, carried out or withdrawn.
LEMMA ActDeeds ==
  ASSUME NEW k \in Tasks, TypeOK, DeedInv,
         Propose(k) \/ ClaimAction(k) \/ FindClaimed(k) \/ HandlerEnds(k) \/ Withdraw(k)
  PROVE  DeedInv'
<1> DEFINE t == turn[k]
<1>1. /\ t \in Turns /\ Knows(k)
      /\ UNCHANGED <<told, loose>>
      /\ action \in [Turns -> Actions] /\ runs \in [Turns -> Nat]
  BY WorksOnTurn DEF Propose, ClaimAction, FindClaimed, HandlerEnds, Withdraw,
                     Looping, Deciding, DeedInv, deeds, TypeOK
<1>2. CASE Propose(k)
  <2>1. /\ action[t] = "none" /\ action' = [action EXCEPT ![t] = "asked"]
        /\ GoTo(k, "park") /\ runs' = runs
    BY <1>2 DEF Propose
  <2>2. Moves(k) /\ pc'[k] = "park" /\ turn'[k] = t
    BY <2>1, GoToMoves DEF Labels, Looping
  <2>3. Counted' /\ Later(t) /\ Knows(k)'
    BY <1>1, <2>1, <2>2 DEF Counted, DeedInv, Later, Knows
  <2> QED
    BY <1>1, <2>1, <2>2, <2>3, ActionDeed
<1>3. CASE ClaimAction(k) /\ Leave(k) /\ UNCHANGED <<action, runs>>
  BY <1>1, <1>3, LeaveDeed DEF deeds
<1>4. CASE ClaimAction(k) /\ ~(Leave(k) /\ UNCHANGED <<action, runs>>)
  <2>1. PICK l \in {"handle", "resume"} :
          /\ action[t] = "asked" /\ GoTo(k, l)
          /\ action' = [action EXCEPT ![t] = IF l = "handle" THEN "running" ELSE "failed"]
          /\ runs' = [runs EXCEPT ![t] = IF l = "handle" THEN @ + 1 ELSE @]
    BY <1>1, <1>4 DEF ClaimAction, MayStart
  <2>2. Moves(k) /\ pc'[k] = l /\ turn'[k] = t /\ kind'[k] = "confirm"
    <3>1. kind[k] = "confirm"
      BY <1>1, <1>4 DEF Knows, ClaimAction
    <3> QED
      BY <2>1, <3>1, GoToMoves DEF Labels, Deciding
  <2>3. Counted'
    BY <1>1, <2>1 DEF Counted, DeedInv
  <2>4. Later(t) /\ Knows(k)'
    BY <1>1, <2>1, <2>2 DEF Later, Knows, Decided
  <2> QED
    BY <1>1, <2>1, <2>2, <2>3, <2>4, ActionDeed
<1>5. CASE FindClaimed(k) /\ Leave(k)
  BY <1>5, LeaveDeed DEF FindClaimed
<1>6. CASE FindClaimed(k) /\ Settled(t) /\ GoTo(k, "resume")
  <2>1. Moves(k) /\ pc'[k] = "resume" /\ turn'[k] = t /\ kind'[k] = kind[k] /\ UNCHANGED deeds
    BY <1>6, GoToMoves DEF FindClaimed, Labels, Deciding
  <2>2. Knows(k)'
    BY <1>1, <1>6, <2>1 DEF Knows, Settled, FindClaimed, deeds
  <2> QED
    BY <2>1, <2>2, QuietDeed
<1>7. CASE HandlerEnds(k)
  <2>1. /\ action[t] = "running" /\ pc[k] = "handle" /\ kind[k] = "confirm"
        /\ GoTo(k, "resume") /\ runs' = runs
    BY <1>1, <1>7 DEF HandlerEnds, Knows, DeedInv, Handled
  <2>2. PICK outcome \in {"completed", "failed"} : action' = [action EXCEPT ![t] = outcome]
    BY <1>7 DEF HandlerEnds
  <2>3. Moves(k) /\ pc'[k] = "resume" /\ turn'[k] = t /\ kind'[k] = "confirm"
    BY <2>1, GoToMoves DEF Labels, Deciding
  <2>4. Counted' /\ Later(t) /\ Knows(k)'
    BY <1>1, <2>1, <2>2, <2>3 DEF Counted, DeedInv, Later, Knows, Decided
  <2> QED
    BY <1>1, <2>1, <2>2, <2>3, <2>4, ActionDeed
<1>8. CASE Withdraw(k)
  <2>1. /\ kind[k] = "cancel" /\ action[t] # "none" /\ runs' = runs /\ GoTo(k, "resume")
        /\ action' = [action EXCEPT ![t] = IF @ = "asked" THEN "cancelled" ELSE @]
    BY <1>1, <1>8 DEF Withdraw, Knows
  <2>2. Moves(k) /\ pc'[k] = "resume" /\ turn'[k] = t /\ kind'[k] = "cancel"
    BY <2>1, GoToMoves DEF Labels, Deciding
  <2>3. Knows(k)'
    BY <1>1, <2>1, <2>2 DEF Knows
  <2>4. CASE action[t] = "asked"
    <3>1. Counted' /\ Later(t)
      BY <1>1, <2>1, <2>4 DEF Counted, DeedInv, Later
    <3> QED
      BY <1>1, <2>1, <2>2, <2>3, <2>4, <3>1, ActionDeed
  <2>5. CASE action[t] # "asked"
    <3>1. UNCHANGED deeds
      BY <1>1, <2>1, <2>5 DEF deeds
    <3> QED
      BY <2>2, <2>3, <3>1, QuietDeed
  <2> QED
    BY <2>4, <2>5
<1> QED
  BY <1>2, <1>3, <1>4, <1>5, <1>6, <1>7, <1>8 DEF FindClaimed

\* The turn is taken, and the model told.
LEMMA TellDeeds ==
  ASSUME NEW k \in Tasks, TypeOK, DeedInv, TakeTurn(k) \/ Feed(k)
  PROVE  DeedInv'
<1> DEFINE t == turn[k]
<1>1. t \in Turns /\ Knows(k)
  BY WorksOnTurn DEF TakeTurn, Feed, Looping, Deciding, DeedInv
<1>2. CASE TakeTurn(k) /\ Leave(k)
  BY <1>2, LeaveDeed DEF TakeTurn
<1>3. CASE TakeTurn(k) /\ GoTo(k, "feed")
  <2>1. Moves(k) /\ pc'[k] = "feed" /\ turn'[k] = t /\ kind'[k] = kind[k] /\ UNCHANGED deeds
    BY <1>3, GoToMoves DEF TakeTurn, Labels, Looping
  <2>2. Knows(k)'
    BY <1>1, <1>3, <2>1 DEF Knows, TakeTurn, deeds
  <2> QED
    BY <2>1, <2>2, QuietDeed
<1>4. CASE Feed(k)
  <2>1. Leave(k) \/ GoTo(k, "top")
    BY <1>4 DEF Feed, SaveOpen
  <2>2. Moves(k) /\ pc'[k] \notin Deciding \cup {"feed"}
    BY <2>1, LeaveMoves, GoToMoves DEF Labels, Looping, Deciding
  <2>3. UNCHANGED <<action, runs, loose>>
    BY <1>4 DEF Feed
  <2>4. Knows(k)'
    BY <2>2 DEF Knows, Deciding
  <2>5. \A j \in Tasks : Knows(j)'
    BY <2>2, <2>3, <2>4, StillKnown DEF Moves, Later
  <2>6. Counted' /\ Handled'
    BY <2>2, <2>3 DEF DeedInv, Counted, Handled, Moves, Deciding
  <2>7. Heard'
    <3>1. \/ kind[k] = "confirm" /\ action[t] \in Decided
          \/ kind[k] = "cancel" /\ action[t] \notin {"none", "asked"}
      BY <1>1, <1>4 DEF Knows, Feed
    <3>2. \/ Said(k) = "cancelled" /\ action[t] \notin {"none", "asked"}
          \/ Said(k) = action[t] /\ action[t] \in Decided
      BY <3>1 DEF Said
    <3>3. \A u \in Turns : told'[u] = told[u] \/ (u = t /\ told'[u] = Said(k))
      BY <1>1, <1>4 DEF Feed, TypeOK
    <3> QED
      BY <2>3, <3>2, <3>3 DEF DeedInv, Heard
  <2> QED
    BY <2>5, <2>6, <2>7 DEF DeedInv
<1> QED
  BY <1>2, <1>3, <1>4 DEF TakeTurn

\* Ends of tasks, stops, time and crashes: a handler may come loose, and end
\* without the task that waited for it.
LEMMA EndDeeds ==
  ASSUME TypeOK, DeedInv,
         \/ \E k \in Tasks : Unwind(k) \/ Raise(k) \/ Beat(k) \/ TimeOut(k)
         \/ \E t \in Turns : LooseEnds(t) \/ Age(t)
         \/ StopTask \/ StopCloses \/ Reconnect \/ Crash
  PROVE  DeedInv'
<1>1. ASSUME NEW k \in Tasks, Unwind(k)
      PROVE  DeedInv'
  <2>1. Moves(k) /\ pc'[k] = "idle" /\ UNCHANGED deeds
    BY <1>1 DEF Unwind, Moves, TypeOK, Labels
  <2> QED
    BY <2>1, QuietDeed DEF Knows
<1>2. ASSUME NEW k \in Tasks, Raise(k) \/ TimeOut(k)
      PROVE  DeedInv'
  BY <1>2, LeaveDeed DEF Raise, TimeOut
<1>3. ASSUME NEW k \in Tasks, CancelTask(k)
      PROVE  DeedInv'
  <2>1. Moves(k) /\ pc'[k] \notin Looping \cup Deciding /\ UNCHANGED <<action, runs, told>>
    BY <1>3, LeaveMoves DEF CancelTask
  <2>2. Knows(k)'
    BY <2>1 DEF Knows, Looping, Deciding
  <2>3. (\A j \in Tasks : Knows(j)') /\ Heard'
    BY <2>1, <2>2, StillKnown DEF Moves, Later
  <2>4. Counted'
    BY <2>1 DEF DeedInv, Counted
  <2>5. Handled'
    <3>1. loose' = IF pc[k] = "handle" THEN loose \cup {turn[k]} ELSE loose
      BY <1>3 DEF CancelTask
    <3>2. \A t \in loose' : action'[t] = "running"
      BY <2>1, <3>1 DEF DeedInv, Handled
    <3>3. \A j \in Tasks : pc'[j] = "handle" => j # k /\ pc[j] = "handle" /\ turn'[j] = turn[j]
      BY <2>1 DEF Moves, Deciding
    <3> QED
      BY <2>1, <3>1, <3>2, <3>3 DEF DeedInv, Handled
  <2> QED
    BY <2>3, <2>4, <2>5 DEF DeedInv
<1>4. ASSUME UNCHANGED <<tasks, deeds>>
      PROVE  DeedInv'
  BY <1>4 DEF tasks, deeds, DeedInv, Counted, Handled, Knows, Heard
<1>5. ASSUME NEW k \in Tasks, Beat(k)
      PROVE  DeedInv'
  BY <1>3, <1>4, <1>5 DEF Beat
<1>6. CASE StopTask
  BY <1>3, <1>4, <1>6 DEF StopTask, Busy, TypeOK, Tasks
<1>7. ASSUME NEW t \in Turns, LooseEnds(t)
      PROVE  DeedInv'
  <2>1. /\ t \in loose /\ action[t] = "running" /\ loose' = loose \ {t}
        /\ UNCHANGED <<runs, told, pc, kind, turn>>
    BY <1>7 DEF LooseEnds, tasks, DeedInv, Handled
  <2>2. PICK outcome \in {"completed", "failed"} : action' = [action EXCEPT ![t] = outcome]
    BY <1>7 DEF LooseEnds
  <2>3. action \in [Turns -> Actions] /\ loose \subseteq Turns
    BY DEF TypeOK
  <2>4. \A u \in Turns : Later(u)
    BY <2>1, <2>2, <2>3 DEF Later
  <2>5. (\A j \in Tasks : Knows(j)') /\ Heard'
    BY <2>1, <2>4, StillKnown
  <2>6. Counted'
    BY <2>1, <2>2, <2>3 DEF DeedInv, Counted
  <2>7. \A j \in Tasks : pc[j] = "handle" => turn[j] \in Turns
    BY WorksOnTurn DEF Deciding
  <2>8. Handled'
    BY <2>1, <2>2, <2>3, <2>7 DEF DeedInv, Handled
  <2> QED
    BY <2>5, <2>6, <2>8 DEF DeedInv
<1>8. CASE Crash
  <2>1. \A k \in Tasks : pc'[k] = "idle"
    BY <1>8 DEF Crash
  <2>2. \A k \in Tasks : Knows(k)'
    BY <2>1 DEF Knows
  <2>3. UNCHANGED <<action, runs, told>> /\ loose' = {}
    BY <1>8 DEF Crash
  <2> QED
    BY <2>1, <2>2, <2>3 DEF DeedInv, Counted, Handled, Heard
<1> QED
  BY <1>1, <1>2, <1>4, <1>5, <1>6, <1>7, <1>8 DEF Age, StopCloses, Reconnect

LEMMA DeedStep ==
  ASSUME TypeOK, DeedInv, [Next]_vars
  PROVE  DeedInv'
<1>1. CASE UNCHANGED vars
  BY <1>1 DEF vars, deeds, tasks, DeedInv, Counted, Handled, Knows, Heard
<1>2. CASE Next
  BY <1>2, ArriveDeeds, ActDeeds, TellDeeds, EndDeeds DEF Next, Work
<1> QED
  BY <1>1, <1>2

-----------------------------------------------------------------------------
(* The theorems *)

ChatInv == TypeOK /\ LoopInv /\ DeedInv

LEMMA ChatInit == Init => ChatInv
<1> SUFFICES ASSUME Init PROVE ChatInv
  OBVIOUS
<1>1. TypeOK
  <2>1. 0 \in 0 .. MaxIterations /\ 0 \in 0 .. MaxCrashes
    BY BoundsAssumption
  <2>2. /\ status \in [Turns -> Statuses] /\ stale \in [Turns -> BOOLEAN]
        /\ iteration \in [Turns -> 0 .. MaxIterations]
    BY <2>1 DEF Init, Statuses
  <2>3. /\ action \in [Turns -> Actions] /\ runs \in [Turns -> Nat]
        /\ told \in [Turns -> Actions \cup {"nothing"}] /\ loose \subseteq Turns
    BY DEF Init, Actions
  <2>4. /\ pc \in [Tasks -> Labels] /\ turn \in [Tasks -> Turns \cup {NoTurn}]
        /\ kind \in [Tasks -> {"message", "confirm", "cancel"}]
        /\ \A k \in Tasks : pc[k] \notin Looping \cup Deciding
    BY DEF Init, Labels, Looping, Deciding
  <2> QED
    BY <2>1, <2>2, <2>3, <2>4 DEF Init, TypeOK
<1>2. LoopInv
  BY DEF Init, LoopInv, OneOpen, OneLoop, LoopsRun, Begun, Fits, Open, Live, Looping, Deciding
<1>3. DeedInv
  BY DEF Init, DeedInv, Counted, Handled, Knows, Heard
<1> QED
  BY <1>1, <1>2, <1>3 DEF ChatInv

LEMMA ChatStep == ChatInv /\ [Next]_vars => ChatInv'
<1> SUFFICES ASSUME ChatInv, [Next]_vars PROVE ChatInv'
  OBVIOUS
<1>1. \A t \in loose : action[t] = "running"
  BY DEF ChatInv, DeedInv, Handled
<1> QED
  BY <1>1, TypeStep, LoopStep, DeedStep DEF ChatInv

LEMMA ChatCorrect == Spec => []ChatInv
<1> QED
  BY ChatInit, ChatStep, PTL DEF Spec

\* Every state is well-typed: no turn exceeds the limit of iterations, even
\* if a stopped one is revived and a late decision continues it.
THEOREM ChatTypeCorrect == Spec => []TypeOK
<1>1. ChatInv => TypeOK
  BY DEF ChatInv
<1> QED
  BY <1>1, ChatCorrect, PTL

\* The unique index and the locked claims keep the chat to one dialog, for any
\* number of sockets and requests beside it, and whatever the map holds.
THEOREM OneDialogCorrect == Spec => []OneDialog
<1>1. ChatInv => OneDialog
  BY DEF ChatInv, LoopInv, OneOpen, OneLoop, OneDialog
<1> QED
  BY <1>1, ChatCorrect, PTL

\* Confirmed any number of times, from any number of tabs, the handler of an
\* action is started once at most, and never for one the model was told is
\* cancelled.
THEOREM ExecutedOnceCorrect == Spec => []ExecutedOnce
<1>1. ChatInv => ExecutedOnce
  BY DEF ChatInv, DeedInv, Counted, Heard, ExecutedOnce, Decided
<1> QED
  BY <1>1, ChatCorrect, PTL

\* What the model is told of a confirmed action is what it came to.
THEOREM ToldWhatHappenedCorrect == Spec => []ToldWhatHappened
<1>1. ChatInv => ToldWhatHappened
  BY DEF ChatInv, DeedInv, Heard, ToldWhatHappened, Decided
<1> QED
  BY <1>1, ChatCorrect, PTL

=============================================================================
