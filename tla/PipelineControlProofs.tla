----------------------- MODULE PipelineControlProofs -----------------------
(***************************************************************************)
(* Proofs about PipelineControl for every pipeline and any number of       *)
(* requests.  Types come first.  That a settled outcome stays needs to     *)
(* know that a stop that is about to mark the run saw it active; that at   *)
(* most one batch begins after an answered stop, where the executor is     *)
(* while the answer is known to the row and not to it (StopInv).  A        *)
(* recorded decision stays unless somebody stood by with an older column:  *)
(* once it is in the row, whoever may write the column before the node has *)
(* found it holds it (Kept).  When one node runs at a time and one person  *)
(* decides, nobody ever stands by.                                         *)
(***************************************************************************)
EXTENDS PipelineControl, FiniteSetTheorems, TLAPS

-----------------------------------------------------------------------------
(* Types *)

\* A column of blank states is a column.
LEMMA BlankType == Blank \in Column
  BY DEF Blank, Column, NodeState

\* What an executor that is gone leaves of itself.
LEMMA LeaveTypes ==
  ASSUME Leave
  PROVE  /\ pc' = "ended" /\ seen' = FALSE /\ batch' = {} /\ ran' = {}
         /\ mine' \in [status : Active \union Terminal, control : BOOLEAN, states : Column]
         /\ gate' \in [Gates -> {"off"}] /\ out' \in [Gates -> Column]
         /\ pressed' \in [Gates -> {"none"} \union Decisions]
         /\ recorded' = {} /\ undisturbed' = {}
  BY BlankType DEF Leave, GatesReset, NoCopy, Active

\* The executor keeps the types.
LEMMA ExecuteTypes == TypeOK /\ Execute => TypeOK'
<1> SUFFICES ASSUME TypeOK, Execute PROVE TypeOK'
  OBVIOUS
<1> USE NodesAssumption DEF TypeOK, Column, NodeState, Node, Active, Terminal, Live, Looping,
        row, executor, gates, told, approval, stopping
<1>1. CASE Load
  BY <1>1 DEF Load
<1>2. CASE SyncAtStart
  BY <1>2 DEF SyncAtStart, Sync
<1>3. CASE PrepareFails \/ AbortRun \/ FinishRun
  <2>1. Leave /\ status' \in Terminal
        /\ UNCHANGED <<control, states, approval, stopping, overrun>>
    BY <1>3 DEF PrepareFails, AbortRun, FinishRun
  <2> HIDE DEF Column
  <2> QED
    BY <2>1, LeaveTypes
<1>4. CASE SaveRun
  BY <1>4 DEF SaveRun, Blank
<1>5. CASE NextBatch
  <2>1. /\ batch' \subseteq Node /\ batch' \intersect ran = {}
        /\ pc' \in {"launch", "finish"} /\ seen' \in BOOLEAN
    BY <1>5 DEF NextBatch, Sync
  <2>2. \A g \in Gates : gate'[g] = "off"
    BY <1>5 DEF NextBatch
  <2> QED
    BY <1>5, <2>1, <2>2 DEF NextBatch
<1>6. CASE LaunchBatch
  <2>1. mine'.states \in Column /\ states' \in Column
        /\ mine' \in [status : Active \union Terminal, control : BOOLEAN, states : Column]
    BY <1>6 DEF LaunchBatch
  <2>2. \A g \in Gates : gate'[g] \in {"off", "begin"} /\ (gate'[g] # "off" => g \in batch')
    BY <1>6 DEF LaunchBatch
  <2>3. gate' \in [Gates -> {"off", "begin", "arming", "polling", "recording", "over", "stopped"}]
    BY <1>6, <2>2 DEF LaunchBatch
  <2>4. pc' = "batch" /\ overrun' \in Nat
    BY <1>6 DEF LaunchBatch
  <2> QED
    BY <1>6, <2>1, <2>2, <2>3, <2>4 DEF LaunchBatch
<1>7. CASE EndBatch
  <2>1. mine'.states \in Column /\ states' \in Column
        /\ mine' \in [status : Active \union Terminal, control : BOOLEAN, states : Column]
    BY <1>7 DEF EndBatch
  <2>2. ran' \subseteq Node /\ batch' = {}
    BY <1>7 DEF EndBatch
  <2>3. seen' \in BOOLEAN /\ pc' \in {"abort", "finish", "head"}
    BY <1>7 DEF EndBatch
  <2>4. gate' \in [Gates -> {"off"}] /\ out' \in [Gates -> Column]
        /\ pressed' \in [Gates -> {"none"} \union Decisions]
    BY <1>7 DEF EndBatch, GatesReset, Blank
  <2>5. \A g \in Gates : gate'[g] = "off"
    BY <2>4
  <2>6. UNCHANGED <<status, control, approval, stopping, overrun>> /\ recorded' = {} /\ undisturbed' = {}
    BY <1>7 DEF EndBatch, GatesReset
  <2> HIDE DEF Column
  <2> QED
    BY <2>1, <2>2, <2>3, <2>4, <2>5, <2>6
<1>8. CASE QueueEmpty
  BY <1>8 DEF QueueEmpty
<1>9. CASE MarkRunning
  BY <1>9 DEF MarkRunning
<1> QED
  BY <1>1, <1>2, <1>3, <1>4, <1>5, <1>6, <1>7, <1>8, <1>9 DEF Execute

\* So do the approval nodes ...
LEMMA GateTypes ==
  ASSUME NEW g \in Gates, TypeOK, Poll(g) \/ PollDeadline(g) \/ PressButton(g)
  PROVE  TypeOK'
<1> USE NodesAssumption DEF TypeOK, Column, NodeState, Node, Active, Terminal, Live,
        Looping, row, executor, gates, told, approval, stopping
<1>1. CASE CannotAsk(g) \/ PollStopEvent(g) \/ PollDecision(g) \/ PollStop(g) \/ PollDeadline(g)
  <2>1. \E r \in {"over", "stopped"} : Ends(g, r)
    BY <1>1 DEF CannotAsk, PollStopEvent, PollDecision, PollStop, PollDeadline
  <2>2. gate[g] # "off" /\ UNCHANGED <<row, executor, out, approval, stopping, overrun>>
    BY <1>1 DEF CannotAsk, PollStopEvent, PollDecision, PollStop, PollDeadline
  <2>3. gate' \in [Gates -> {"off", "begin", "arming", "polling", "recording", "over", "stopped"}]
        /\ pressed' \in [Gates -> {"none"} \union Decisions]
        /\ \A h \in Gates : gate'[h] # "off" => pc = "batch" /\ h \in batch
    BY <2>1, <2>2 DEF Ends
  <2>4. /\ recorded' \subseteq Gates /\ undisturbed' \subseteq recorded'
        /\ \A h \in recorded' : gate'[h] \in {"arming", "polling", "recording"}
    BY <2>1, <2>2 DEF Ends
  <2> HIDE DEF Column
  <2> QED
    BY <2>2, <2>3, <2>4
<1>2. CASE Arm(g)
  <2>1. out' \in [Gates -> Column] /\ mine' \in [status : Active \union Terminal, control : BOOLEAN, states : Column]
    BY <1>2 DEF Arm
  <2>2. gate[g] # "off" /\ gate' \in [Gates -> {"off", "begin", "arming", "polling", "recording", "over", "stopped"}]
        /\ \A h \in Gates : gate'[h] # "off" => pc = "batch" /\ h \in batch
    BY <1>2 DEF Arm
  <2> HIDE DEF Column
  <2> QED
    BY <1>2, <2>1, <2>2 DEF Arm
<1>3. CASE WriteArmed(g)
  <2>1. states' \in Column
    BY <1>3 DEF WriteArmed
  <2>2. out' \in [Gates -> Column]
    BY <1>3, BlankType DEF WriteArmed
  <2>3. \A h \in Gates : gate'[h] # "off" => pc = "batch" /\ h \in batch
    BY <1>3 DEF WriteArmed
  <2>4. gate' \in [Gates -> {"off", "begin", "arming", "polling", "recording", "over", "stopped"}]
    BY <1>3 DEF WriteArmed
  <2> HIDE DEF Column
  <2> QED
    BY <1>3, <2>1, <2>2, <2>3, <2>4 DEF WriteArmed
<1>4. CASE PollButton(g)
  <2>1. out' \in [Gates -> Column] /\ pressed' \in [Gates -> {"none"} \union Decisions]
    BY <1>4 DEF PollButton
  <2>2. gate' \in [Gates -> {"off", "begin", "arming", "polling", "recording", "over", "stopped"}]
        /\ \A h \in Gates : gate'[h] # "off" => pc = "batch" /\ h \in batch
    BY <1>4 DEF PollButton
  <2> HIDE DEF Column
  <2> QED
    BY <1>4, <2>1, <2>2 DEF PollButton
<1>5. CASE RecordButton(g)
  <2>1. out' \in [Gates -> Column] /\ states' \in Column
    BY <1>5, BlankType DEF RecordButton
  <2>2. gate' \in [Gates -> {"off", "begin", "arming", "polling", "recording", "over", "stopped"}]
        /\ pressed' \in [Gates -> {"none"} \union Decisions]
        /\ \A h \in Gates : gate'[h] # "off" => pc = "batch" /\ h \in batch
    BY <1>5 DEF RecordButton, Ends
  <2>3. /\ recorded' \subseteq Gates /\ undisturbed' \subseteq recorded'
        /\ \A h \in recorded' : gate'[h] \in {"arming", "polling", "recording"}
    BY <1>5 DEF RecordButton, Ends
  <2> HIDE DEF Column
  <2> QED
    BY <1>5, <2>1, <2>2, <2>3 DEF RecordButton
<1>6. CASE PressButton(g)
  <2>1. pressed' \in [Gates -> {"none"} \union Decisions]
    BY <1>6 DEF PressButton
  <2> QED
    BY <1>6, <2>1 DEF PressButton
<1> QED
  BY <1>1, <1>2, <1>3, <1>4, <1>5, <1>6 DEF Poll

\* ... and the requests.
LEMMA RequestTypes ==
  ASSUME TypeOK,
         \/ \E w \in Approvers :
              WriteDecision(w) \/ \E g \in Gates, d \in Decisions : ReadForDecision(w, g, d)
         \/ \E s \in Stoppers : StopRead(s) \/ StopControl(s) \/ StopMark(s)
  PROVE  TypeOK'
<1> USE NodesAssumption DEF TypeOK, Column, Active, Terminal, row, executor, gates, told, approval,
        stopping
<1>1. ASSUME NEW w \in Approvers, WriteDecision(w) PROVE TypeOK'
  <2>1. want[w].gate \in Gates /\ want[w].decision \in NodeState
    BY <1>1 DEF WriteDecision, Idle, NodeState
  <2>2. states' \in Column
    BY <1>1, <2>1 DEF WriteDecision
  <2>3. copy' \in [Approvers -> Column]
    BY <1>1 DEF WriteDecision, Blank, NodeState
  <2>4. want' \in [Approvers -> [gate : Gates \union {NoGate}, decision : {"none"} \union Decisions]]
    BY <1>1 DEF WriteDecision
  <2>5. recorded' \subseteq Gates
    BY <1>1, <2>1 DEF WriteDecision
  <2> QED
    BY <1>1, <2>2, <2>3, <2>4, <2>5 DEF WriteDecision
<1>2. ASSUME NEW w \in Approvers, NEW g \in Gates, NEW d \in Decisions, ReadForDecision(w, g, d)
      PROVE  TypeOK'
  <2>1. want' \in [Approvers -> [gate : Gates \union {NoGate}, decision : {"none"} \union Decisions]]
    BY <1>2 DEF ReadForDecision
  <2>2. copy' \in [Approvers -> Column]
    BY <1>2 DEF ReadForDecision
  <2> QED
    BY <1>2, <2>1, <2>2 DEF ReadForDecision
<1>3. ASSUME NEW s \in Stoppers, StopRead(s) PROVE TypeOK'
  <2>1. saw' \in [Stoppers -> {"none"} \union Active \union Terminal] /\ seen' \in BOOLEAN
    BY <1>3 DEF StopRead, Deliver
  <2>2. stop' \in [Stoppers -> {"idle", "read", "mark", "answered"}]
    BY <1>3 DEF StopRead
  <2> QED
    BY <1>3, <2>1, <2>2 DEF StopRead
<1>4. ASSUME NEW s \in Stoppers, StopControl(s) PROVE TypeOK'
  BY <1>4 DEF StopControl, Deliver
<1>5. ASSUME NEW s \in Stoppers, StopMark(s) PROVE TypeOK'
  BY <1>5 DEF StopMark
<1> QED
  BY <1>1, <1>2, <1>3, <1>4, <1>5

LEMMA TypeStep == TypeOK /\ [Next]_vars => TypeOK'
<1> SUFFICES ASSUME TypeOK, [Next]_vars PROVE TypeOK'
  OBVIOUS
<1>1. CASE Execute
  BY <1>1, ExecuteTypes
<1>2. ASSUME NEW g \in Gates, Poll(g) \/ PollDeadline(g) \/ PressButton(g) PROVE TypeOK'
  BY <1>2, GateTypes
<1>3. CASE \/ \E w \in Approvers :
                WriteDecision(w) \/ \E g \in Gates, d \in Decisions : ReadForDecision(w, g, d)
           \/ \E s \in Stoppers : StopRead(s) \/ StopControl(s) \/ StopMark(s)
  BY <1>3, RequestTypes
<1>4. CASE CleanUp
  BY <1>4 DEF TypeOK, CleanUp, Terminal, executor, gates, told, approval, stopping
<1>6. CASE Die \/ Raise
  <2>1. Leave /\ status' \in Active \union Terminal
        /\ UNCHANGED <<control, states, approval, stopping, overrun>>
    BY <1>6 DEF Die, Raise, row, TypeOK, Terminal
  <2> QED
    BY <2>1, LeaveTypes DEF TypeOK, approval, stopping
<1>5. CASE UNCHANGED vars
  BY <1>5 DEF TypeOK, vars, row, executor, gates, told, approval, stopping
<1> QED
  BY <1>1, <1>2, <1>3, <1>4, <1>5, <1>6 DEF Next

LEMMA InitTypes == Init => TypeOK
<1> SUFFICES ASSUME Init PROVE TypeOK
  OBVIOUS
<1>1. mine \in [status : Active \union Terminal, control : BOOLEAN, states : Column]
      /\ out \in [Gates -> Column] /\ copy \in [Approvers -> Column] /\ states \in Column
  BY BlankType DEF Init, NoCopy, Active
<1>2. status \in Active /\ pc = "new" /\ batch \intersect ran = {}
      /\ \A g \in Gates : gate[g] = "off"
  BY DEF Init, Active
<1> QED
  BY <1>1, <1>2 DEF Init, TypeOK

\* Every column, copy and local of the run keeps its type, and only gates of
\* the batch that is being executed are busy.
THEOREM ControlTypeCorrect == Spec => []TypeOK
  BY InitTypes, TypeStep, PTL DEF Spec

-----------------------------------------------------------------------------
(* The outcome *)

\* Only a request that has seen the run active goes on to mark it.
MarksSawActive == \A s \in Stoppers : stop[s] = "mark" => saw[s] \in Active

LEMMA MarksStep == TypeOK /\ MarksSawActive /\ [Next]_vars => MarksSawActive'
<1> SUFFICES ASSUME TypeOK, MarksSawActive, [Next]_vars PROVE MarksSawActive'
  OBVIOUS
<1> USE DEF MarksSawActive
<1>1. ASSUME NEW s \in Stoppers, StopRead(s) \/ StopControl(s) \/ StopMark(s)
      PROVE  MarksSawActive'
  BY <1>1 DEF TypeOK, StopRead, StopControl, StopMark
<1>2. CASE UNCHANGED stopping
  BY <1>2 DEF stopping
<1>3. CASE Execute
  BY <1>2, <1>3 DEF Execute, Load, SyncAtStart, PrepareFails, SaveRun, MarkRunning, NextBatch,
     QueueEmpty, LaunchBatch, EndBatch, AbortRun, FinishRun
<1>4. ASSUME NEW g \in Gates, Poll(g) \/ PollDeadline(g) \/ PressButton(g)
      PROVE  MarksSawActive'
  BY <1>2, <1>4 DEF Poll, CannotAsk, Arm, WriteArmed, PollStopEvent, PollButton, RecordButton,
     PollDecision, PollStop, PollDeadline, PressButton
<1>5. ASSUME NEW w \in Approvers, \/ WriteDecision(w)
                                  \/ \E g \in Gates, d \in Decisions : ReadForDecision(w, g, d)
      PROVE  MarksSawActive'
  BY <1>2, <1>5 DEF WriteDecision, ReadForDecision
<1>6. CASE CleanUp \/ Die \/ Raise
  BY <1>2, <1>6 DEF CleanUp, Die, Raise
<1>7. CASE UNCHANGED vars
  BY <1>2, <1>7 DEF vars
<1> QED
  BY <1>1, <1>3, <1>4, <1>5, <1>6, <1>7 DEF Next

\* A run that has ended, whose executor is gone and that nobody is about to
\* stop, keeps its outcome: neither a late request nor the cleanup of stale
\* runs rewrites it.
THEOREM OutcomeSettledCorrect == Spec => OutcomeSettled
<1>1. Init => TypeOK /\ MarksSawActive
  <2>1. Init => MarksSawActive
    BY DEF Init, MarksSawActive
  <2> QED
    BY <2>1, InitTypes
<1>2. TypeOK /\ MarksSawActive /\ [Next]_vars => (TypeOK /\ MarksSawActive)'
  BY TypeStep, MarksStep
<1>3. ASSUME TypeOK, MarksSawActive, [Next]_vars, Settled PROVE status' = status
  <2> USE <1>3 DEF Settled
  <2>1. CASE Execute
    BY <2>1 DEF Execute, Load, SyncAtStart, PrepareFails, SaveRun, MarkRunning, NextBatch,
       QueueEmpty, LaunchBatch, EndBatch, AbortRun, FinishRun
  <2>2. ASSUME NEW g \in Gates, Poll(g) \/ PollDeadline(g) \/ PressButton(g)
        PROVE  status' = status
    BY <2>2 DEF Poll, CannotAsk, Arm, WriteArmed, PollStopEvent, PollButton, RecordButton,
       PollDecision, PollStop, PollDeadline, PressButton, row
  <2>3. ASSUME NEW w \in Approvers, \/ WriteDecision(w)
                                    \/ \E g \in Gates, d \in Decisions : ReadForDecision(w, g, d)
        PROVE  status' = status
    BY <2>3 DEF WriteDecision, ReadForDecision, row
  <2>4. ASSUME NEW s \in Stoppers, StopRead(s) \/ StopControl(s) \/ StopMark(s)
        PROVE  status' = status
    BY <2>4 DEF StopRead, StopControl, StopMark, MarksSawActive, row
  <2>5. CASE CleanUp \/ Die \/ Raise
    BY <2>5 DEF CleanUp, Die, Raise, Active, Terminal, Live, Looping
  <2>6. CASE UNCHANGED vars
    BY <2>6 DEF vars, row
  <2> QED
    BY <2>1, <2>2, <2>3, <2>4, <2>5, <2>6 DEF Next
<1> QED
  BY <1>1, <1>2, <1>3, PTL DEF Spec, OutcomeSettled

-----------------------------------------------------------------------------
(* The stop *)

\* Before the run is marked as running nobody has seen it running.
Early == {"new", "loaded", "prepare", "starting"}

StopInv ==
  /\ pc \in Early => /\ status # "running" /\ mine.status # "running"
                     /\ \A s \in Stoppers : saw[s] # "running"
  /\ \A s \in Stoppers : stop[s] \in {"mark", "answered"} /\ saw[s] = "running" => control
  /\ \A s \in Stoppers : stop[s] = "idle" => saw[s] = "none"
  /\ overrun > 0 => control /\ pc \notin Early \union {"launch"}
  /\ overrun <= 1

LEMMA StopStep == TypeOK /\ StopInv /\ [Next]_vars => StopInv'
<1> SUFFICES ASSUME TypeOK, StopInv, [Next]_vars PROVE StopInv'
  OBVIOUS
<1>1. CASE UNCHANGED <<status, control, overrun, stopping, mine, pc>>
  BY <1>1 DEF StopInv, stopping
<1>2. CASE Load
  BY <1>2 DEF StopInv, Early, TypeOK, Load, row, stopping
<1>3. CASE SyncAtStart
  BY <1>3 DEF StopInv, Early, TypeOK, SyncAtStart, Sync, row, stopping
<1>4. CASE PrepareFails \/ AbortRun \/ FinishRun
  BY <1>4 DEF StopInv, Early, TypeOK, PrepareFails, AbortRun, FinishRun, Leave, stopping
<1>5. CASE SaveRun
  BY <1>5 DEF StopInv, Early, TypeOK, SaveRun, stopping
<1>6. CASE MarkRunning \/ QueueEmpty
  BY <1>6 DEF StopInv, Early, TypeOK, MarkRunning, QueueEmpty, row, stopping
<1>7. CASE NextBatch
  <2>1. control => pc' = "finish"
    BY <1>7 DEF NextBatch, Sync, StopInRow, TypeOK
  <2>2. pc' \in {"finish", "launch"} /\ UNCHANGED <<status, control, overrun, stopping>>
    BY <1>7 DEF NextBatch, Sync, row
  <2> QED
    BY <2>1, <2>2 DEF StopInv, Early, stopping
<1>8. CASE LaunchBatch
  <2>1. overrun = 0
    BY <1>8 DEF StopInv, LaunchBatch, TypeOK
  <2>2. overrun' \in {0, 1} /\ (overrun' = 1 => control')
    BY <1>8, <2>1 DEF StopInv, LaunchBatch, StopAnswered
  <2> QED
    BY <1>8, <2>2 DEF StopInv, LaunchBatch, Early, stopping
<1>9. CASE EndBatch
  BY <1>9 DEF StopInv, EndBatch, Early, stopping
<1>10. ASSUME NEW g \in Gates, Poll(g) \/ PollDeadline(g) \/ PressButton(g) PROVE StopInv'
  <2>1. CASE Arm(g)
    BY <2>1 DEF Arm, StopInv, TypeOK, row, stopping
  <2> QED
    BY <1>1, <1>10, <2>1 DEF Poll, CannotAsk, WriteArmed, PollStopEvent, PollButton, RecordButton,
       PollDecision, PollStop, PollDeadline, PressButton, row, executor
<1>11. ASSUME NEW w \in Approvers, \/ WriteDecision(w)
                                   \/ \E g \in Gates, d \in Decisions : ReadForDecision(w, g, d)
       PROVE  StopInv'
  BY <1>1, <1>11 DEF WriteDecision, ReadForDecision, row, executor
<1>12. ASSUME NEW s \in Stoppers, StopRead(s) PROVE StopInv'
  <2>1. \A t \in Stoppers : IF t = s THEN stop'[t] = "read" /\ saw'[t] = status
                                    ELSE stop'[t] = stop[t] /\ saw'[t] = saw[t]
    BY <1>12 DEF StopRead, TypeOK
  <2>2. UNCHANGED <<status, control, overrun, mine, pc>>
    BY <1>12 DEF StopRead, row
  <2> QED
    BY <2>1, <2>2 DEF StopInv
<1>13. ASSUME NEW s \in Stoppers, StopControl(s) PROVE StopInv'
  <2>1. \A t \in Stoppers : saw'[t] = saw[t] /\ (stop'[t] = "idle" => stop[t] = "idle")
    BY <1>13 DEF StopControl, TypeOK
  <2>2. control' /\ UNCHANGED <<status, overrun, mine, pc>>
    BY <1>13 DEF StopControl
  <2> QED
    BY <2>1, <2>2 DEF StopInv
<1>14. ASSUME NEW s \in Stoppers, StopMark(s) PROVE StopInv'
  <2>1. \A t \in Stoppers : saw'[t] = saw[t] /\ (stop'[t] = stop[t] \/ (t = s /\ stop'[t] = "answered"))
    BY <1>14 DEF StopMark, TypeOK
  <2>2. status' = "stopped" /\ stop[s] = "mark" /\ UNCHANGED <<control, overrun, mine, pc>>
    BY <1>14 DEF StopMark, executor
  <2> QED
    BY <2>1, <2>2 DEF StopInv
<1>15. CASE CleanUp
  BY <1>15 DEF CleanUp, StopInv, executor, stopping
<1>16. CASE Die \/ Raise
  BY <1>16 DEF Die, Raise, Leave, StopInv, Early, row, stopping
<1>17. CASE UNCHANGED vars
  BY <1>1, <1>17 DEF vars, row, executor
<1> QED
  BY <1>2, <1>3, <1>4, <1>5, <1>6, <1>7, <1>8, <1>9, <1>10, <1>11, <1>12, <1>13, <1>14, <1>15,
     <1>16, <1>17 DEF Next, Execute

\* Once a request has stopped a running run, at most the batch that had been
\* let through before begins, however many requests and processes there are.
THEOREM OneBatchAfterStopCorrect == Spec => []OneBatchAfterStop
<1>1. Init => StopInv
  BY DEF Init, StopInv, NoCopy
<1>2. StopInv => OneBatchAfterStop
  BY DEF StopInv, OneBatchAfterStop
<1> QED
  BY <1>1, <1>2, InitTypes, TypeStep, StopStep, PTL DEF Spec

-----------------------------------------------------------------------------
(* Decisions *)

\* No two gates are open at a time, and one person decides.
OneAtATime ==
  /\ \A g, h \in batch \intersect Gates : g = h
  /\ \A v, w \in Approvers : v = w

\* A batch has one gate at most when the pipeline never has two together.
LEMMA OneGate ==
  ASSUME MaxTogether = 1, IsFiniteSet(Gates), NEW b, Cardinality(b \intersect Gates) <= MaxTogether,
         NEW g \in b \intersect Gates, NEW h \in b \intersect Gates
  PROVE  g = h
<1> SUFFICES ASSUME g # h PROVE FALSE
  OBVIOUS
<1>1. IsFiniteSet(b \intersect Gates)
  BY FS_Subset
<1>2. IsFiniteSet({g}) /\ Cardinality({g}) = 1
  BY FS_Singleton
<1>3. Cardinality({g} \union {h}) = 2
  <2>1. h \notin {g}
    OBVIOUS
  <2>2. Cardinality({g} \union {h}) = Cardinality({g}) + 1
    BY <1>2, <2>1, FS_AddElement, ZenonT(30)
  <2> QED
    BY <1>2, <2>2
<1>4. Cardinality({g} \union {h}) <= Cardinality(b \intersect Gates)
  BY <1>1, FS_Subset
<1>5. Cardinality(b \intersect Gates) \in Nat
  BY <1>1, FS_CardinalityType
<1> QED
  BY <1>3, <1>4, <1>5

LEMMA OneAtATimeStep ==
  ASSUME MaxTogether = 1, IsFiniteSet(Gates), TypeOK, OneAtATime, [Next]_vars
  PROVE  OneAtATime'
<1>1. CASE batch' = batch \/ batch' = {}
  BY <1>1 DEF OneAtATime
<1>2. CASE NextBatch
  BY <1>1, <1>2, OneGate DEF NextBatch, OneAtATime
<1>3. CASE Execute
  BY <1>1, <1>2, <1>3 DEF Execute, Load, SyncAtStart, PrepareFails, SaveRun, MarkRunning,
     QueueEmpty, LaunchBatch, EndBatch, AbortRun, FinishRun, Leave
<1>4. ASSUME NEW g \in Gates, Poll(g) \/ PollDeadline(g) \/ PressButton(g) PROVE OneAtATime'
  BY <1>1, <1>4 DEF Poll, CannotAsk, Arm, WriteArmed, PollStopEvent, PollButton, RecordButton,
     PollDecision, PollStop, PollDeadline, PressButton, executor
<1>5. ASSUME NEW w \in Approvers, \/ WriteDecision(w)
                                  \/ \E g \in Gates, d \in Decisions : ReadForDecision(w, g, d)
      PROVE  OneAtATime'
  BY <1>1, <1>5 DEF WriteDecision, ReadForDecision, executor
<1>6. ASSUME NEW s \in Stoppers, StopRead(s) \/ StopControl(s) \/ StopMark(s) PROVE OneAtATime'
  BY <1>1, <1>6 DEF StopRead, StopControl, StopMark, executor
<1>7. CASE CleanUp \/ Die \/ Raise
  BY <1>1, <1>7 DEF CleanUp, Die, Raise, Leave, executor
<1>8. CASE UNCHANGED vars
  BY <1>1, <1>8 DEF vars, executor
<1> QED
  BY <1>3, <1>4, <1>5, <1>6, <1>7, <1>8 DEF Next

\* Outside a batch no gate is busy and no decision waits to be found.
LEMMA NobodyWaits ==
  ASSUME TypeOK, pc # "batch"
  PROVE  recorded = {} /\ undisturbed = {} /\ \A g \in Gates : gate[g] = "off"
  BY DEF TypeOK

\* Nothing that the decisions rest on has changed.
LEMMA SameDecisions ==
  ASSUME DecisionInv, UNCHANGED <<gate, ran, states, mine, out, want, copy, told>>,
         pc = "ended" => pc' = "ended"
  PROVE  DecisionInv'
  BY DEF DecisionInv, Tokens, Kept, Past, Shown, Idle, Decided, told

\* The executor is gone, and nobody waits.
LEMMA LeftDecisions ==
  ASSUME TypeOK, DecisionInv, Leave, UNCHANGED <<states, approval>>
  PROVE  DecisionInv'
<1>1. \A g \in Gates : Past(g)' /\ Shown(g)'
  BY DEF Leave, Past, Shown
<1>2. recorded' = {} /\ undisturbed' = {}
  BY DEF Leave, GatesReset
<1>3. Tokens'
  BY <1>1, <1>2 DEF Tokens
<1>4. Kept'
  BY <1>2 DEF DecisionInv, Kept, Idle, approval
<1> QED
  BY <1>3, <1>4 DEF DecisionInv

\* The executor starts and ends batches only while no gate is open.
LEMMA ExecuteDecisions ==
  ASSUME TypeOK, DecisionInv, Execute
  PROVE  DecisionInv'
<1> USE DEF DecisionInv
<1>1. CASE Load
  <2>1. UNCHANGED <<states, ran, gate, out, told, want, copy>> /\ mine'.states = states
        /\ pc # "ended" /\ undisturbed = {}
    BY <1>1, NobodyWaits DEF Load, row, gates, approval
  <2>2. \A g \in Gates : gate[g] = "off"
    BY <1>1, NobodyWaits DEF Load
  <2>3. \A g \in Gates : (Past(g) => Past(g)') /\ (Shown(g) => Past(g))
    BY <2>1, <2>2 DEF Past, Shown
  <2>4. Tokens'
    BY <2>1, <2>2, <2>3 DEF Tokens, told, Shown, TypeOK
  <2>5. Kept'
    BY <2>1 DEF Kept, Idle, told
  <2> QED
    BY <2>4, <2>5
<1>2. CASE SyncAtStart \/ NextBatch
  BY <1>2, SameDecisions DEF SyncAtStart, NextBatch, row, gates, approval
<1>3. CASE PrepareFails \/ AbortRun \/ FinishRun
  BY <1>3, LeftDecisions DEF PrepareFails, AbortRun, FinishRun
<1>4. CASE SaveRun
  <2>1. \A g \in Gates : states'[g] # "armed" /\ mine'.states[g] # "armed"
    BY <1>4 DEF SaveRun, TypeOK, Blank, Node
  <2>2. UNCHANGED <<ran, gate, out, told, want, copy>> /\ pc # "ended"
    BY <1>4 DEF SaveRun, gates, approval
  <2>3. recorded = {} /\ undisturbed = {}
    BY <1>4, NobodyWaits DEF SaveRun
  <2>4. \A g \in Gates : (Past(g) => Past(g)') /\ (Shown(g) => Shown(g)')
    BY <2>2 DEF Past, Shown
  <2>5. Tokens'
    BY <2>1, <2>2, <2>3, <2>4 DEF Tokens, told
  <2>6. Kept'
    BY <2>2, <2>3 DEF Kept, Idle, told
  <2> QED
    BY <2>5, <2>6
<1>5. CASE MarkRunning \/ QueueEmpty
  BY <1>5, SameDecisions DEF MarkRunning, QueueEmpty, row, gates, approval
<1>6. CASE LaunchBatch
  <2>1. \A g \in Gates : gate[g] = "off" /\ gate'[g] \in {"off", "begin"}
    BY <1>6 DEF LaunchBatch, TypeOK
  <2>2. \A g \in Gates : states'[g] = mine'.states[g] /\ mine'.states[g] \in {"running", mine.states[g]}
    BY <1>6 DEF LaunchBatch, TypeOK, Node
  <2>3. pc # "ended" /\ UNCHANGED <<ran, out, told, want, copy>>
    BY <1>6 DEF LaunchBatch, approval
  <2>4. recorded = {} /\ undisturbed = {}
    BY <1>6, NobodyWaits DEF LaunchBatch
  <2>5. \A g \in Gates : (Shown(g) => Past(g)) /\ (Past(g) => Past(g)') /\ (Past(g)' => Shown(g)')
    BY <2>1, <2>3 DEF Past, Shown
  <2>6. Tokens'
    BY <2>1, <2>2, <2>3, <2>4, <2>5 DEF Tokens, told
  <2>7. Kept'
    BY <2>3, <2>4 DEF Kept, Idle, told
  <2> QED
    BY <2>6, <2>7
<1>7. CASE EndBatch
  <2>1. \A g \in Gates : gate[g] # "off" => g \in ran'
    BY <1>7 DEF EndBatch, TypeOK
  <2>2. \A g \in Gates : states'[g] = mine'.states[g]
                        /\ (mine'.states[g] = "armed" => mine.states[g] = "armed")
    BY <1>7 DEF EndBatch, TypeOK, Node
  <2>3. \A g, h \in Gates : out'[h][g] = "none"
    BY <1>7 DEF EndBatch, GatesReset, Blank, Node
  <2>4. /\ pc # "ended" /\ ran \subseteq ran' /\ UNCHANGED <<want, copy>>
        /\ recorded' = {} /\ undisturbed' = {}
    BY <1>7 DEF EndBatch, GatesReset, approval
  <2>5. \A g \in Gates : Past(g) \/ gate[g] = "arming" => Past(g)' /\ Shown(g)'
    BY <2>1, <2>4 DEF Past, Shown
  <2>6. \A g \in Gates : Shown(g) => Shown(g)'
    BY <2>5 DEF Shown
  <2>7. Tokens'
    BY <2>2, <2>3, <2>4, <2>5, <2>6 DEF Tokens
  <2>8. Kept'
    BY <2>4 DEF Kept, Idle
  <2> QED
    BY <2>7, <2>8
<1> QED
  BY <1>1, <1>2, <1>3, <1>4, <1>5, <1>6, <1>7 DEF Execute

\* While a node waits with its decision recorded, another gate of the batch
\* writes only columns it has read since.
LEMMA GateDecisions ==
  ASSUME TypeOK, DecisionInv, NEW g \in Gates, Poll(g) \/ PollDeadline(g) \/ PressButton(g)
  PROVE  DecisionInv'
<1> USE DEF DecisionInv
<1>1. CASE CannotAsk(g) \/ PollStopEvent(g) \/ PollDecision(g) \/ PollStop(g) \/ PollDeadline(g)
  <2>1. /\ gate[g] \in {"begin", "polling"} /\ gate'[g] \in {"over", "stopped"}
        /\ \A h \in Gates \ {g} : gate'[h] = gate[h]
        /\ recorded' = recorded \ {g} /\ undisturbed' = undisturbed \ {g}
    BY <1>1 DEF CannotAsk, PollStopEvent, PollDecision, PollStop, PollDeadline, Ends, TypeOK
  <2>2. UNCHANGED <<states, pc, mine, ran, out, want, copy>>
    BY <1>1 DEF CannotAsk, PollStopEvent, PollDecision, PollStop, PollDeadline, row, executor, approval
  <2>3. \A h \in Gates : /\ Past(h) => Past(h)'
                         /\ Shown(h) => Shown(h)'
                         /\ gate[h] = "arming" => gate'[h] = "arming"
    BY <2>1, <2>2 DEF Past, Shown
  <2>4. Tokens'
    BY <2>1, <2>2, <2>3 DEF Tokens, TypeOK
  <2>5. Kept'
    BY <2>1, <2>2 DEF Kept, Idle, Decided, TypeOK
  <2> QED
    BY <2>4, <2>5
<1>2. CASE Arm(g)
  <2>1. gate[g] = "begin" /\ gate'[g] = "arming"
        /\ \A h \in Gates \ {g} : gate'[h] = gate[h]
    BY <1>2 DEF Arm, TypeOK
  <2>2. \A h \in Gates \ {g} : mine'.states[h] = mine.states[h]
    BY <1>2 DEF Arm, TypeOK, Column, Node
  <2>3. \A h \in Gates : out'[h] = IF h = g THEN mine'.states ELSE out[h]
    BY <1>2 DEF Arm, TypeOK
  <2>4. UNCHANGED <<states, pc, ran, want, copy, told>>
    BY <1>2 DEF Arm, row, approval
  <2>5. \A h \in Gates : (Past(h)' <=> Past(h)) /\ (Shown(h) => Shown(h)')
    BY <2>1, <2>4 DEF Past, Shown
  <2>6. gate'[g] = "arming" /\ \A h \in Gates : gate[h] = "arming" => gate'[h] = "arming"
    BY <2>1
  <2>7. \A h \in Gates : mine'.states[h] = "armed" => h = g \/ mine.states[h] = "armed"
    BY <2>2
  <2>8. Tokens'
    BY <2>3, <2>4, <2>5, <2>6, <2>7 DEF Tokens, TypeOK, told
  <2>9. \A h \in undisturbed' : gate'[h] # "polling"
    BY <2>1, <2>4 DEF Kept, TypeOK, told
  <2>10. Kept'
    BY <2>4, <2>9 DEF Kept, Idle
  <2> QED
    BY <2>8, <2>10
<1>3. CASE WriteArmed(g)
  <2>1. gate[g] = "arming" /\ gate'[g] = "polling"
        /\ \A h \in Gates \ {g} : gate'[h] = gate[h]
    BY <1>3 DEF WriteArmed, TypeOK
  <2>2. UNCHANGED <<pc, mine, ran, want, copy, told>>
    BY <1>3 DEF WriteArmed, executor, approval
  <2>3. \A h \in Gates : (Past(h) => Past(h)') /\ (gate[h] = "arming" \/ Past(h) => Shown(h)')
    BY <2>1, <2>2 DEF Past, Shown
  <2>4. \A h \in Gates : Shown(h) => Shown(h)'
    BY <2>3 DEF Shown
  <2>5. \A h \in Gates : gate[h] = "arming" => gate'[h] = "arming" \/ Past(h)'
    BY <2>1 DEF Past
  <2>6. \A h \in Gates : states'[h] = "armed" => gate[h] = "arming" \/ Past(h)
    BY <1>3 DEF WriteArmed, Tokens
  <2>7. \A f, h \in Gates : out'[f][h] = "none" \/ out'[f][h] = out[f][h]
    BY <1>3 DEF WriteArmed, TypeOK, Blank, Node
  <2>8. Tokens'
    BY <2>2, <2>3, <2>4, <2>5, <2>6, <2>7 DEF Tokens, TypeOK, told
  <2>9. ~Past(g)
    BY <2>1 DEF Past, TypeOK
  <2>10. \A h \in undisturbed' : gate'[h] # "polling"
    BY <2>1, <2>2, <2>9 DEF Tokens, Kept, TypeOK, told
  <2>11. Kept'
    BY <2>2, <2>10 DEF Kept, Idle
  <2> QED
    BY <2>8, <2>11
<1>4. CASE PollButton(g)
  <2>1. gate[g] = "polling" /\ gate'[g] = "recording"
        /\ \A h \in Gates \ {g} : gate'[h] = gate[h]
    BY <1>4 DEF PollButton, TypeOK
  <2>2. \A f, h \in Gates : out'[f][h] = IF f # g THEN out[f][h]
                                         ELSE IF h # g THEN states[h] ELSE pressed[g]
    BY <1>4 DEF PollButton, TypeOK, Column, Node
  <2>3. UNCHANGED <<states, pc, mine, ran, want, copy, told>>
    BY <1>4 DEF PollButton, row, executor, approval
  <2>4. \A h \in Gates : /\ Past(h)' <=> Past(h)
                         /\ Shown(h) => Shown(h)'
                         /\ gate[h] = "arming" => gate'[h] = "arming"
    BY <2>1, <2>3 DEF Past, Shown
  <2>5. \A f, h \in Gates : out'[f][h] = "armed" => gate'[h] = "arming" \/ Past(h)'
    BY <2>1, <2>2, <2>4 DEF Tokens, Shown, Past
  <2>6. Tokens'
    BY <2>3, <2>4, <2>5 DEF Tokens, TypeOK, told
  <2>7. ASSUME NEW h \in undisturbed', gate'[h] = "polling", NEW f \in Gates
        PROVE  gate'[f] \notin {"begin", "arming"} /\ (gate'[f] = "recording" => Decided(out'[f], h))
    <3>1. h \in Gates /\ h # g /\ h \in undisturbed /\ gate[h] = "polling"
      BY <2>1, <2>3, <2>7 DEF TypeOK, told
    <3>2. Decided(states, h) /\ gate[f] \notin {"begin", "arming"}
          /\ (gate[f] = "recording" => Decided(out[f], h))
      BY <3>1 DEF Kept
    <3> QED
      BY <2>1, <2>2, <3>1, <3>2 DEF Decided
  <2>8. \A h \in undisturbed' : gate'[h] = "polling" => h \in undisturbed /\ gate[h] = "polling"
    BY <2>1, <2>3 DEF TypeOK, told
  <2>9. Kept'
    BY <2>3, <2>7, <2>8 DEF Kept, Idle, Decided
  <2> QED
    BY <2>6, <2>9
<1>5. CASE RecordButton(g)
  <2>1. /\ gate[g] = "recording" /\ gate'[g] = "over"
        /\ \A h \in Gates \ {g} : gate'[h] = gate[h]
        /\ recorded' = recorded \ {g} /\ undisturbed' = undisturbed \ {g}
    BY <1>5 DEF RecordButton, Ends, TypeOK
  <2>2. \A h \in Gates : states'[h] = out[g][h]
    BY <1>5 DEF RecordButton
  <2>3. \A f, h \in Gates : out'[f][h] = "none" \/ out'[f][h] = out[f][h]
    BY <1>5 DEF RecordButton, TypeOK, Blank, Node
  <2>4. \A f \in Gates \ {g} : out'[f] = out[f]
    BY <1>5 DEF RecordButton, TypeOK
  <2>5. UNCHANGED <<pc, mine, ran, want, copy>>
    BY <1>5 DEF RecordButton, executor, approval
  <2>6. \A h \in Gates : /\ Past(h) => Past(h)'
                         /\ gate[h] = "arming" => gate'[h] = "arming"
                         /\ gate[h] = "arming" \/ Past(h) => Shown(h)'
    BY <2>1, <2>5 DEF Past, Shown
  <2>7. \A h \in Gates : Shown(h) => Shown(h)'
    BY <2>6 DEF Shown
  <2>8. Tokens'
    <3>1. \A h \in Gates : states'[h] = "armed" => Shown(h)'
      BY <2>2, <2>6 DEF Tokens
    <3>2. \A h \in recorded' : h \in recorded /\ h \in Gates /\ Shown(h)'
      BY <2>1, <2>7 DEF Tokens, TypeOK
    <3>3. \A h \in Gates, v \in Approvers : copy'[v][h] = "armed" => Shown(h)'
      BY <2>5, <2>7 DEF Tokens
    <3>4. \A h, f \in Gates : out'[f][h] = "armed" => gate'[h] = "arming" \/ Past(h)'
      BY <2>3, <2>6 DEF Tokens
    <3>5. \A h \in Gates : mine'.states[h] = "armed" => gate'[h] = "arming" \/ Past(h)'
      BY <2>5, <2>6 DEF Tokens
    <3>6. \A h \in undisturbed' : Past(h)'
      BY <2>1, <2>6 DEF Tokens, TypeOK
    <3> QED
      BY <3>1, <3>2, <3>3, <3>4, <3>5, <3>6 DEF Tokens
  <2>9. ASSUME NEW h \in undisturbed', gate'[h] = "polling"
        PROVE  h \in Gates \ {g} /\ h \in undisturbed /\ gate[h] = "polling" /\ Decided(out[g], h)
    BY <2>1, <2>9 DEF Kept, TypeOK
  <2>10. Kept'
    BY <2>1, <2>2, <2>4, <2>5, <2>9 DEF Kept, Idle, Decided
  <2> QED
    BY <2>8, <2>10
<1>6. CASE PressButton(g)
  BY <1>6, SameDecisions DEF PressButton, row, executor, approval
<1> QED
  BY <1>1, <1>2, <1>3, <1>4, <1>5, <1>6 DEF Poll

\* An approver writes what it read with its decision put in: the decision of
\* the gate it is for, and every other one it has read.
LEMMA RequestDecisions ==
  ASSUME TypeOK, DecisionInv, NEW w \in Approvers,
         WriteDecision(w) \/ \E g \in Gates, d \in Decisions : ReadForDecision(w, g, d)
  PROVE  DecisionInv'
<1> USE DEF DecisionInv
<1>1. CASE WriteDecision(w)
  <2> DEFINE g == want[w].gate
             d == want[w].decision
             waits == copy[w][g] = "armed" /\ gate[g] \in {"arming", "polling"}
  <2>1. g \in Gates /\ d \in Decisions /\ ~Idle(w)
    BY <1>1 DEF WriteDecision, Kept
  <2>2. \A h \in Gates : states'[h] = IF h = g THEN d ELSE copy[w][h]
    BY <1>1, <2>1 DEF WriteDecision, TypeOK, Column, Node
  <2>3. /\ recorded' = IF waits THEN recorded \union {g} ELSE recorded
        /\ undisturbed' = IF waits /\ ~Disturbed(w) THEN undisturbed \union {g} ELSE undisturbed
    BY <1>1 DEF WriteDecision
  <2>4. /\ Idle(w)' /\ \A h \in Gates : copy'[w][h] = "none"
        /\ \A v \in Approvers \ {w} : want'[v] = want[v] /\ copy'[v] = copy[v]
    BY <1>1 DEF WriteDecision, Idle, TypeOK, Blank, Node
  <2>5. UNCHANGED <<gate, pc, ran, mine, out>>
    BY <1>1 DEF WriteDecision, executor
  <2>6. \A h \in Gates : (Past(h) <=> Past(h)') /\ (Shown(h) <=> Shown(h)')
    BY <2>5 DEF Past, Shown
  <2>7. ~Disturbed(w) => /\ \A h \in Gates : gate[h] \notin {"begin", "arming", "recording"}
                         /\ \A v \in Approvers : Idle(v) \/ want[v].gate = g
    BY DEF Disturbed, Idle
  <2>8. waits => Shown(g)
    BY <2>1 DEF Tokens
  <2>9. waits /\ ~Disturbed(w) => Past(g)
    BY <2>1, <2>7 DEF Past
  <2>10. \A h \in Gates : states'[h] = "armed" => h # g /\ copy[w][h] = "armed"
    BY <2>1, <2>2, DecisionsAssumption
  <2> HIDE DEF g, d, waits
  <2>11. Tokens'
    <3>1. \A h \in Gates : states'[h] = "armed" => Shown(h)'
      BY <2>6, <2>10 DEF Tokens
    <3>2. \A h \in recorded' : h \in Gates /\ Shown(h)'
      BY <2>1, <2>3, <2>6, <2>8 DEF Tokens, TypeOK
    <3>3. \A h \in Gates, v \in Approvers : copy'[v][h] = "armed" => Shown(h)'
      BY <2>4, <2>6 DEF Tokens
    <3>4. /\ \A h \in Gates : mine'.states[h] = "armed" => gate'[h] = "arming" \/ Past(h)'
          /\ \A h, f \in Gates : out'[f][h] = "armed" => gate'[h] = "arming" \/ Past(h)'
      BY <2>5, <2>6 DEF Tokens
    <3>5. \A h \in undisturbed' : Past(h)'
      BY <2>1, <2>3, <2>6, <2>9 DEF Tokens, TypeOK
    <3> QED
      BY <3>1, <3>2, <3>3, <3>4, <3>5 DEF Tokens
  <2>12. ASSUME NEW h \in undisturbed', gate[h] = "polling"
         PROVE  /\ Decided(states', h)
                /\ \A v \in Approvers : Idle(v)' \/ want'[v].gate = h \/ Decided(copy'[v], h)
                /\ \A f \in Gates : /\ gate[f] \notin {"begin", "arming"}
                                    /\ gate[f] = "recording" => Decided(out[f], h)
    <3>1. CASE h \in undisturbed
      <4>1. /\ h \in Gates
            /\ \A v \in Approvers : Idle(v) \/ want[v].gate = h \/ Decided(copy[v], h)
            /\ \A f \in Gates : /\ gate[f] \notin {"begin", "arming"}
                                /\ gate[f] = "recording" => Decided(out[f], h)
        BY <2>12, <3>1 DEF Kept, TypeOK
      <4>2. Decided(states', h)
        BY <2>1, <2>2, <4>1 DEF Decided, g
      <4>3. \A v \in Approvers \ {w} : Idle(v)' <=> Idle(v)
        BY <2>4 DEF Idle
      <4> QED
        BY <2>4, <4>1, <4>2, <4>3
    <3>2. CASE h = g /\ ~Disturbed(w)
      <4>1. Decided(states', h)
        BY <2>1, <2>2, <3>2 DEF Decided
      <4>2. \A v \in Approvers \ {w} : Idle(v)' <=> Idle(v)
        BY <2>4 DEF Idle
      <4> QED
        BY <2>4, <2>7, <3>2, <4>1, <4>2
    <3> QED
      BY <2>3, <3>1, <3>2
  <2>13. \A v \in Approvers : ~Idle(v)' => want'[v].gate \in Gates /\ want'[v].decision \in Decisions
    BY <2>4 DEF Kept, Idle
  <2>14. Kept'
    BY <2>5, <2>12, <2>13 DEF Kept, Decided
  <2> QED
    BY <2>11, <2>14
<1>2. ASSUME NEW g \in Gates, NEW d \in Decisions, ReadForDecision(w, g, d)
      PROVE  DecisionInv'
  <2>1. /\ copy'[w] = states /\ want'[w] = [gate |-> g, decision |-> d]
        /\ \A v \in Approvers \ {w} : want'[v] = want[v] /\ copy'[v] = copy[v]
    BY <1>2 DEF ReadForDecision, TypeOK
  <2>2. UNCHANGED <<states, pc, ran, mine, gate, out, told>>
    BY <1>2 DEF ReadForDecision, row, executor, gates
  <2>3. \A h \in Gates : (Past(h) <=> Past(h)') /\ (Shown(h) <=> Shown(h)')
    BY <2>2 DEF Past, Shown
  <2>4. Tokens'
    BY <2>1, <2>2, <2>3 DEF Tokens, TypeOK, told
  <2>5. Kept'
    BY <2>1, <2>2 DEF Kept, Idle, Decided, told
  <2> QED
    BY <2>4, <2>5
<1> QED
  BY <1>1, <1>2

LEMMA DecisionStep == TypeOK /\ DecisionInv /\ [Next]_vars => DecisionInv'
<1> SUFFICES ASSUME TypeOK, DecisionInv, [Next]_vars PROVE DecisionInv'
  OBVIOUS
<1>1. CASE Execute
  BY <1>1, ExecuteDecisions
<1>2. ASSUME NEW g \in Gates, Poll(g) \/ PollDeadline(g) \/ PressButton(g) PROVE DecisionInv'
  BY <1>2, GateDecisions
<1>3. ASSUME NEW w \in Approvers, \/ WriteDecision(w)
                                  \/ \E g \in Gates, d \in Decisions : ReadForDecision(w, g, d)
      PROVE  DecisionInv'
  BY <1>3, RequestDecisions
<1>4. ASSUME NEW s \in Stoppers, StopRead(s) \/ StopControl(s) \/ StopMark(s)
      PROVE  DecisionInv'
  BY <1>4, SameDecisions DEF StopRead, StopControl, StopMark, row, executor, gates, approval
<1>5. CASE CleanUp \/ UNCHANGED vars
  <2>1. UNCHANGED <<states, executor, gates, approval>>
    BY <1>5 DEF CleanUp, vars, row
  <2>2. UNCHANGED <<gate, ran, states, mine, out, want, copy, told>> /\ pc' = pc
    BY <2>1 DEF executor, gates, approval
  <2> QED
    BY <2>2, SameDecisions
<1>6. CASE Die \/ Raise
  <2>1. Leave /\ UNCHANGED <<states, approval>>
    BY <1>6 DEF Die, Raise, row
  <2> QED
    BY <2>1, LeftDecisions
<1> QED
  BY <1>1, <1>2, <1>3, <1>4, <1>5, <1>6 DEF Next

LEMMA InitDecisions == Init => DecisionInv
  BY DEF Init, DecisionInv, Tokens, Kept, Past, Shown, Idle, Blank, NoCopy, Node

\* A decision that was reported as recorded while nobody stood by with an older
\* column is there when its node looks for it: for any number of gates in a
\* batch, of approvers and of stops, and whatever the executor writes.
THEOREM UndisturbedStaysCorrect == Spec => []UndisturbedStays
<1>1. DecisionInv => UndisturbedStays
  BY DEF DecisionInv, Kept, UndisturbedStays
<1> QED
  BY <1>1, InitTypes, TypeStep, InitDecisions, DecisionStep, PTL DEF Spec

\* With one gate in a batch and one approver, whoever records a decision that
\* is waited for is alone with the column.
Alone == \A g \in recorded : gate[g] = "polling" => g \in undisturbed

LEMMA AloneFrame ==
  ASSUME Alone,
         \A g \in recorded' : g \in recorded /\ (gate'[g] = "polling" => gate[g] = "polling")
                              /\ (g \in undisturbed => g \in undisturbed')
  PROVE  Alone'
  BY DEF Alone

LEMMA AloneStep ==
  ASSUME TypeOK, OneAtATime, DecisionInv, Alone, [Next]_vars
  PROVE  Alone'
<1>1. ASSUME UNCHANGED <<gate, told>> PROVE Alone'
  BY <1>1 DEF Alone, told
<1>2. CASE Execute
  <2>1. CASE LaunchBatch
    BY <2>1, AloneFrame, NobodyWaits DEF LaunchBatch, told
  <2>2. CASE PrepareFails \/ AbortRun \/ FinishRun \/ EndBatch
    BY <2>2 DEF PrepareFails, AbortRun, FinishRun, EndBatch, Leave, GatesReset, Alone
  <2> QED
    BY <1>1, <1>2, <2>1, <2>2 DEF Execute, Load, SyncAtStart, SaveRun, MarkRunning, NextBatch,
       QueueEmpty, gates
<1>3. ASSUME NEW g \in Gates, Poll(g) \/ PollDeadline(g) \/ PressButton(g) PROVE Alone'
  <2>1. CASE WriteArmed(g)
    <3>1. gate[g] = "arming" /\ UNCHANGED told /\ \A h \in Gates \ {g} : gate'[h] = gate[h]
      BY <2>1 DEF WriteArmed, TypeOK
    <3>2. ~Past(g)
      BY <3>1 DEF Past, TypeOK
    <3>3. \A h \in Gates \ {g} : gate[h] = "off"
      BY <3>1 DEF OneAtATime, TypeOK
    <3>4. g \notin recorded
      BY <3>2, <3>3 DEF DecisionInv, Tokens, Shown
    <3> QED
      BY <3>1, <3>4, AloneFrame DEF told, TypeOK
  <2>2. CASE Arm(g) \/ PollButton(g)
    BY <2>2, AloneFrame DEF Arm, PollButton, TypeOK, told
  <2>3. CASE PressButton(g)
    BY <1>1, <2>3 DEF PressButton
  <2>4. CASE \/ CannotAsk(g) \/ PollStopEvent(g) \/ PollDecision(g) \/ PollStop(g)
             \/ PollDeadline(g) \/ RecordButton(g)
    <3>1. \E r \in {"over", "stopped"} : Ends(g, r)
      BY <2>4 DEF CannotAsk, PollStopEvent, PollDecision, PollStop, PollDeadline, RecordButton
    <3> QED
      BY <3>1, AloneFrame DEF Ends, TypeOK
  <2> QED
    BY <1>3, <2>1, <2>2, <2>3, <2>4 DEF Poll
<1>4. ASSUME NEW w \in Approvers, WriteDecision(w) PROVE Alone'
  <2> DEFINE g == want[w].gate
  <2>1. /\ gate' = gate /\ undisturbed \subseteq undisturbed'
        /\ \A h \in recorded' : h \in recorded \/ h = g
        /\ g \in Gates
        /\ g \in recorded' /\ g \notin recorded /\ ~Disturbed(w) => g \in undisturbed'
    BY <1>4 DEF WriteDecision, DecisionInv, Kept
  <2>2. gate[g] = "polling" => ~Disturbed(w)
    <3>1. gate[g] = "polling" => \A h \in Gates \ {g} : gate[h] = "off"
      BY <2>1 DEF OneAtATime, TypeOK
    <3>2. \A v \in Approvers : want[v].gate = want[w].gate
      BY DEF OneAtATime
    <3> QED
      BY <3>1, <3>2 DEF Disturbed
  <2> QED
    BY <2>1, <2>2 DEF Alone
<1>5. ASSUME NEW w \in Approvers, NEW g \in Gates, NEW d \in Decisions, ReadForDecision(w, g, d)
      PROVE  Alone'
  BY <1>1, <1>5 DEF ReadForDecision, gates
<1>6. ASSUME NEW s \in Stoppers, StopRead(s) \/ StopControl(s) \/ StopMark(s) PROVE Alone'
  BY <1>1, <1>6 DEF StopRead, StopControl, StopMark, gates
<1>7. CASE CleanUp \/ UNCHANGED vars
  BY <1>1, <1>7 DEF CleanUp, vars, gates
<1>8. CASE Die \/ Raise
  BY <1>8 DEF Die, Raise, Leave, GatesReset, Alone
<1> QED
  BY <1>2, <1>3, <1>4, <1>5, <1>6, <1>7, <1>8 DEF Next

\* A decision that was reported as recorded is there when the node looks for
\* it, in every pipeline that opens its gates one at a time to one approver at
\* a time: stops, crashes, buttons and the executor's own writes do not lose it.
THEOREM RecordedStaysCorrect ==
  ASSUME MaxTogether = 1, IsFiniteSet(Gates), \A v, w \in Approvers : v = w
  PROVE  Spec => []RecordedStays
<1>1. Init => OneAtATime /\ Alone
  BY DEF Init, OneAtATime, Alone
<1>2. TypeOK /\ OneAtATime /\ DecisionInv /\ Alone /\ [Next]_vars => OneAtATime' /\ Alone'
  BY OneAtATimeStep, AloneStep
<1>3. DecisionInv /\ Alone => RecordedStays
  BY DEF DecisionInv, Kept, Alone, RecordedStays
<1> QED
  BY <1>1, <1>2, <1>3, InitTypes, TypeStep, InitDecisions, DecisionStep, PTL DEF Spec
=============================================================================
