-------------------------- MODULE PipelineControl --------------------------
(***************************************************************************)
(* The database row of one pipeline run, and everybody who writes it: the  *)
(* executor with its loop and the approval nodes it polls for              *)
(* (studio/pipeline_run_loop.py, pipeline_interactions.py), requests that  *)
(* decide an approval or stop the run (studio/views/run_views.py,          *)
(* consumers.py, assistant_actions_runs.py) and the cleanup of stale runs  *)
(* (runtime_limit_provider.py).                                            *)
(*                                                                         *)
(* Nobody locks the row.  node_states is one JSON column that every writer *)
(* writes as a whole, from a copy it read or kept: the executor from the   *)
(* copy of its run object, a request from what it read at its start.       *)
(*                                                                         *)
(* A database statement is one action.  Statements that one writer issues  *)
(* in a row on the same column, the last of which decides what the column  *)
(* holds, are one action too.  Which nodes become ready is the subject of  *)
(* PipelineRouting: here a batch is any set of nodes that have not run.    *)
(***************************************************************************)
EXTENDS Naturals, FiniteSets

CONSTANTS
    Gates,        \* logic/human_approval nodes
    Steps,        \* the other nodes
    Approvers,    \* requests that decide an approval
    Assistants,   \* those of the chat assistant, which need no token
    Stoppers,     \* requests that stop the run
    Decisions,    \* "approved", "rejected": no property tells them apart
    MaxTogether,  \* the most gates the pipeline has in one batch
    NoGate

ASSUME NodesAssumption == Gates \intersect Steps = {} /\ NoGate \notin Gates
ASSUME AssistantsAssumption == Assistants \subseteq Approvers
ASSUME DecisionsAssumption == Decisions \intersect {"none", "running", "armed", "done"} = {}
ASSUME BoundAssumption == MaxTogether \in Nat

Node == Gates \union Steps

\* node_states[n], up to what the writers tell apart: "armed" carries the
\* approval token, a decision stands for a state with approval_decision.
NodeState == {"none", "running", "armed", "done"} \union Decisions
Column == [Node -> NodeState]

Active   == {"pending", "running"}
Terminal == {"completed", "failed", "stopped"}

VARIABLES
    \* the row
    status, control, states,
    \* the executor; mine is the copy of the row it holds
    pc, mine, seen, batch, ran,
    \* the approval nodes of the batch: where each is, the column it is about
    \* to write and the button pressed in Telegram
    gate, out, pressed,
    \* requests: the gate and decision of an approver and the column it read;
    \* where a stopper is and the status it read
    want, copy, stop, saw,
    \* history: gates whose node waits while a decision was reported as recorded,
    \* those of them for which nobody stood by with an older column to write, and
    \* how many batches began after a stop of a running run had been answered
    recorded, undisturbed, overrun

row      == <<status, control, states>>
executor == <<pc, mine, seen, batch, ran>>
told     == <<recorded, undisturbed>>
gates    == <<gate, out, pressed, told>>
approval == <<want, copy>>
stopping == <<stop, saw>>
vars     == <<row, executor, gates, approval, stopping, overrun>>

\* The executor has marked the run as running and has not yet left the loop.
Looping == {"head", "launch", "batch"}
Live    == {"loaded", "prepare", "starting", "abort", "finish"} \union Looping

Blank  == [n \in Node |-> "none"]
NoCopy == [status |-> "pending", control |-> FALSE, states |-> Blank]

Init ==
    /\ status = "pending" /\ control = FALSE /\ states = Blank
    /\ pc = "new" /\ mine = NoCopy
    /\ seen = FALSE /\ batch = {} /\ ran = {}
    /\ gate = [g \in Gates |-> "off"]
    /\ out = [g \in Gates |-> Blank]
    /\ pressed = [g \in Gates |-> "none"]
    /\ want = [w \in Approvers |-> [gate |-> NoGate, decision |-> "none"]]
    /\ copy = [w \in Approvers |-> Blank]
    /\ stop = [s \in Stoppers |-> "idle"]
    /\ saw = [s \in Stoppers |-> "none"]
    /\ recorded = {} /\ undisturbed = {}
    /\ overrun = 0

-----------------------------------------------------------------------------
(* The executor *)

\* The locals of the approval nodes.
GatesReset ==
    /\ gate' = [g \in Gates |-> "off"]
    /\ out' = [g \in Gates |-> Blank]
    /\ pressed' = [g \in Gates |-> "none"]
    /\ recorded' = {} /\ undisturbed' = {}

\* The executor is gone, and what it kept with it.
Leave ==
    /\ pc' = "ended"
    /\ mine' = NoCopy /\ seen' = FALSE /\ batch' = {} /\ ran' = {}
    /\ GatesReset

\* The thread of the run loads it, and the executor registers itself.
Load ==
    /\ pc = "new"
    /\ mine' = [status |-> status, control |-> control, states |-> states]
    /\ pc' = "loaded"
    /\ UNCHANGED <<row, seen, batch, ran, gates, approval, stopping, overrun>>

\* _sync_stop_state_from_db.
StopInRow == status = "stopped" \/ control

\* Wrong variant: only what was delivered to this process counts.
SyncInProcess(go, halt) ==
    /\ UNCHANGED seen
    /\ pc' = IF seen THEN halt ELSE go

\* _sync_stop_state_from_db, and where the executor goes on from it.
Sync(go, halt) ==
    /\ seen' = (seen \/ StopInRow)
    /\ pc' = IF seen' THEN halt ELSE go

SyncAtStart ==
    /\ pc = "loaded"
    /\ Sync("prepare", "finish")
    /\ UNCHANGED <<row, mine, batch, ran, gates, approval, stopping, overrun>>

\* prepare_pipeline_run_start refuses the pipeline or its context.
PrepareFails ==
    /\ pc = "prepare"
    /\ status' = "failed"
    /\ Leave
    /\ UNCHANGED <<control, states, approval, stopping, overrun>>

\* ... or saves the whole run object: node_states is reset, every other
\* column gets the value it had when the run was loaded.
SaveRun ==
    /\ pc = "prepare"
    /\ status' = mine.status /\ control' = mine.control
    /\ mine' = [mine EXCEPT !.states = Blank]
    /\ states' = Blank
    /\ pc' = "starting"
    /\ UNCHANGED <<seen, batch, ran, gates, approval, stopping, overrun>>

MarkRunning ==
    /\ pc = "starting"
    /\ status' = "running"
    /\ pc' = "head"
    /\ UNCHANGED <<control, states, mine, seen, batch, ran, gates, approval, stopping, overrun>>

\* Wrong variant: nodes that have run may be taken again.
NextBatchAgain ==
    /\ pc = "head"
    /\ \E b \in SUBSET Node \ {{}} :
         /\ Cardinality(b \intersect Gates) <= MaxTogether
         /\ Sync("launch", "finish")
         /\ batch' = IF pc' = "launch" THEN b ELSE {}
    /\ UNCHANGED <<row, mine, ran, gates, approval, stopping, overrun>>

\* The head of the loop with ready nodes: the row is read for a stop.
NextBatch ==
    /\ pc = "head"
    /\ \E b \in SUBSET (Node \ ran) \ {{}} :
         /\ Cardinality(b \intersect Gates) <= MaxTogether
         /\ Sync("launch", "finish")
         /\ batch' = IF pc' = "launch" THEN b ELSE {}
    /\ UNCHANGED <<row, mine, ran, gates, approval, stopping, overrun>>

\* The head of the loop with an empty queue: no stop is looked for.
QueueEmpty ==
    /\ pc = "head"
    /\ pc' = "finish"
    /\ UNCHANGED <<row, mine, seen, batch, ran, gates, approval, stopping, overrun>>

\* A stop of a run that was seen running has been answered.
StopAnswered == \E s \in Stoppers : stop[s] = "answered" /\ saw[s] = "running"

\* The nodes of the batch are marked running, one update per node.
LaunchBatch ==
    /\ pc = "launch"
    /\ mine' = [mine EXCEPT !.states = [n \in Node |-> IF n \in batch THEN "running" ELSE @[n]]]
    /\ states' = mine'.states
    /\ gate' = [g \in Gates |-> IF g \in batch THEN "begin" ELSE gate[g]]
    /\ overrun' = IF StopAnswered THEN overrun + 1 ELSE overrun
    /\ pc' = "batch"
    /\ UNCHANGED <<status, control, seen, batch, ran, out, pressed, told, approval, stopping>>

\* gather returns.  Every state is stored, and the executor goes back to the
\* head unless a node aborts the run or a stop was noticed.  A logic/wait
\* ends as stopped when the row says stopped or a stop was delivered.
EndBatch ==
    /\ pc = "batch"
    /\ \A g \in batch \intersect Gates : gate[g] \in {"over", "stopped"}
    /\ mine' = [mine EXCEPT !.states = [n \in Node |-> IF n \in batch THEN "done" ELSE @[n]]]
    /\ states' = mine'.states
    /\ ran' = ran \union batch
    /\ batch' = {}
    /\ \E aborted, halted \in BOOLEAN :
         /\ aborted => batch \intersect Steps # {}
         /\ halted => batch \intersect Steps # {} /\ (seen \/ status = "stopped")
         /\ seen' = (seen \/ halted \/ \E g \in batch \intersect Gates : gate[g] = "stopped")
         /\ pc' = IF aborted THEN "abort" ELSE IF seen' THEN "finish" ELSE "head"
    /\ GatesReset
    /\ UNCHANGED <<status, control, approval, stopping, overrun>>

AbortRun ==
    /\ pc = "abort"
    /\ status' = "failed"
    /\ Leave
    /\ UNCHANGED <<control, states, approval, stopping, overrun>>

\* The status is written without a look at the row.
FinishRun ==
    /\ pc = "finish"
    /\ status' = IF seen THEN "stopped" ELSE "completed"
    /\ Leave
    /\ UNCHANGED <<control, states, approval, stopping, overrun>>

-----------------------------------------------------------------------------
(* An approval node: execute_logic_human_approval *)

Ends(g, result) ==
    /\ gate' = [gate EXCEPT ![g] = result]
    /\ pressed' = [pressed EXCEPT ![g] = "none"]
    /\ recorded' = recorded \ {g} /\ undisturbed' = undisturbed \ {g}

Decided(c, g) == c[g] \in Decisions

\* There is no channel by which the request could be delivered, or the node
\* raises.
CannotAsk(g) ==
    /\ gate[g] = "begin"
    /\ Ends(g, "over")
    /\ UNCHANGED <<row, executor, out, approval, stopping, overrun>>

\* The token is put into the executor's copy, of which a thread writes ...
Arm(g) ==
    /\ gate[g] = "begin"
    /\ mine' = [mine EXCEPT !.states[g] = "armed"]
    /\ out' = [out EXCEPT ![g] = mine'.states]
    /\ gate' = [gate EXCEPT ![g] = "arming"]
    /\ UNCHANGED <<row, pc, seen, batch, ran, pressed, told, approval, stopping, overrun>>

\* Wrong variant: the state is written again while the node polls.
WriteArmedAgain(g) ==
    /\ gate[g] \in {"arming", "polling"}
    /\ states' \in {out[g], mine.states}
    /\ gate' = [gate EXCEPT ![g] = "polling"]
    /\ out' = [out EXCEPT ![g] = Blank]
    /\ UNCHANGED <<status, control, executor, pressed, told, approval, stopping, overrun>>

\* ... what it held when the thread serialised it: at once, or only now.
WriteArmed(g) ==
    /\ gate[g] = "arming"
    /\ states' \in {out[g], mine.states}
    /\ gate' = [gate EXCEPT ![g] = "polling"]
    /\ out' = [out EXCEPT ![g] = Blank]
    /\ UNCHANGED <<status, control, executor, pressed, told, approval, stopping, overrun>>

\* The button in Telegram; the next poll takes it from Telegram.
PressButton(g) ==
    /\ gate[g] = "polling"
    /\ pressed[g] = "none"
    /\ \E d \in Decisions : pressed' = [pressed EXCEPT ![g] = d]
    /\ UNCHANGED <<row, executor, gate, out, told, approval, stopping, overrun>>

PollStopEvent(g) ==
    /\ gate[g] = "polling"
    /\ seen
    /\ Ends(g, "stopped")
    /\ UNCHANGED <<row, executor, out, approval, stopping, overrun>>

\* A button was pressed and the row that is read has no decision yet: the
\* decision is put into the column as it was read.
PollButton(g) ==
    /\ gate[g] = "polling"
    /\ pressed[g] # "none" /\ ~Decided(states, g)
    /\ out' = [out EXCEPT ![g] = [states EXCEPT ![g] = pressed[g]]]
    /\ pressed' = [pressed EXCEPT ![g] = "none"]
    /\ gate' = [gate EXCEPT ![g] = "recording"]
    /\ UNCHANGED <<row, executor, told, approval, stopping, overrun>>

RecordButton(g) ==
    /\ gate[g] = "recording"
    /\ states' = out[g]
    /\ out' = [out EXCEPT ![g] = Blank]
    /\ Ends(g, "over")
    /\ UNCHANGED <<status, control, executor, approval, stopping, overrun>>

\* The row that is read holds a decision; a button is taken and dropped.
PollDecision(g) ==
    /\ gate[g] = "polling"
    /\ Decided(states, g)
    /\ Ends(g, "over")
    /\ UNCHANGED <<row, executor, out, approval, stopping, overrun>>

\* Wrong variant: the status is looked at, as logic/wait does.
PollStopByStatus(g) ==
    /\ gate[g] = "polling"
    /\ pressed[g] = "none" /\ ~Decided(states, g) /\ status = "stopped"
    /\ Ends(g, "stopped")
    /\ UNCHANGED <<row, executor, out, approval, stopping, overrun>>

PollStop(g) ==
    /\ gate[g] = "polling"
    /\ pressed[g] = "none" /\ ~Decided(states, g) /\ control
    /\ Ends(g, "stopped")
    /\ UNCHANGED <<row, executor, out, approval, stopping, overrun>>

\* The deadline has passed, and the row that is read decides nothing.
PollDeadline(g) ==
    /\ gate[g] = "polling"
    /\ pressed[g] = "none" /\ ~Decided(states, g) /\ ~control
    /\ Ends(g, "over")
    /\ UNCHANGED <<row, executor, out, approval, stopping, overrun>>

-----------------------------------------------------------------------------
(* Requests *)

Idle(w) == want[w].gate = NoGate

\* api_run_approve with the token of gate g, which is undecided in the row
\* that is read; approve_pipeline_node looks at the decision only.
ReadForDecision(w, g, d) ==
    /\ Idle(w)
    /\ \/ states[g] = "armed"
       \/ w \in Assistants /\ states[g] \notin {"none"} \union Decisions
    /\ want' = [want EXCEPT ![w] = [gate |-> g, decision |-> d]]
    /\ copy' = [copy EXCEPT ![w] = states]
    /\ UNCHANGED <<row, executor, gates, stopping, overrun>>

\* Somebody else will write the column from a copy that w's decision is not in:
\* a gate that arms itself or records a button, or an approver of another gate.
Disturbed(w) ==
    \/ \E g \in Gates : gate[g] \in {"begin", "arming", "recording"}
    \/ \E v \in Approvers : want[v].gate \notin {NoGate, want[w].gate}

\* The whole column is written from what was read, and the page says that the
\* decision has been recorded.
WriteDecision(w) ==
    /\ ~Idle(w)
    /\ LET g == want[w].gate
           waits == copy[w][g] = "armed" /\ gate[g] \in {"arming", "polling"}
       IN  /\ states' = [copy[w] EXCEPT ![g] = want[w].decision]
           /\ recorded' = IF waits THEN recorded \union {g} ELSE recorded
           /\ undisturbed' = IF waits /\ ~Disturbed(w) THEN undisturbed \union {g} ELSE undisturbed
    /\ want' = [want EXCEPT ![w] = [gate |-> NoGate, decision |-> "none"]]
    /\ copy' = [copy EXCEPT ![w] = Blank]
    /\ UNCHANGED <<status, control, executor, gate, out, pressed, stopping, overrun>>

\* The stop is given to the executor when it lives in the process that serves
\* the request: before the row is read (WebSocket) or after it (HTTP).
Deliver == seen' \in {seen, seen \/ pc \in Live}

StopRead(s) ==
    /\ stop[s] = "idle"
    /\ stop' = [stop EXCEPT ![s] = "read"]
    /\ saw' = [saw EXCEPT ![s] = status]
    /\ Deliver
    /\ UNCHANGED <<row, pc, mine, batch, ran, gates, approval, overrun>>

\* Wrong variant: a run that has ended is marked as well.
StopControlMarks(s) ==
    /\ stop[s] = "read"
    /\ control' = TRUE
    /\ Deliver
    /\ stop' = [stop EXCEPT ![s] = "mark"]
    /\ UNCHANGED <<status, states, pc, mine, batch, ran, gates, approval, saw, overrun>>

\* update_runtime_control.
StopControl(s) ==
    /\ stop[s] = "read"
    /\ control' = TRUE
    /\ Deliver
    /\ stop' = [stop EXCEPT ![s] = IF saw[s] \in Active THEN "mark" ELSE "answered"]
    /\ UNCHANGED <<status, states, pc, mine, batch, ran, gates, approval, saw, overrun>>

\* The run was active when it was read.
StopMark(s) ==
    /\ stop[s] = "mark"
    /\ status' = "stopped"
    /\ stop' = [stop EXCEPT ![s] = "answered"]
    /\ UNCHANGED <<control, states, executor, gates, approval, saw, overrun>>

\* cleanup_stale_runs, which the start of another run calls: an active run
\* that is older than the threshold is failed, executor or not.
CleanUp ==
    /\ status \in Active
    /\ status' = "failed"
    /\ UNCHANGED <<control, states, executor, gates, approval, stopping, overrun>>

-----------------------------------------------------------------------------
(* Faults *)

\* The process dies; the run is not taken up again.
Die ==
    /\ pc # "ended"
    /\ Leave
    /\ UNCHANGED <<row, approval, stopping, overrun>>

\* A statement of the executor raises: the loop, or the thread, fails the run.
Raise ==
    /\ pc \in ({"new"} \union Live) \ {"batch"}
    /\ status' = "failed"
    /\ Leave
    /\ UNCHANGED <<control, states, approval, stopping, overrun>>

-----------------------------------------------------------------------------
Execute ==
    \/ Load \/ SyncAtStart \/ PrepareFails \/ SaveRun \/ MarkRunning
    \/ NextBatch \/ QueueEmpty \/ LaunchBatch \/ EndBatch \/ AbortRun \/ FinishRun

Poll(g) ==
    \/ CannotAsk(g) \/ Arm(g) \/ WriteArmed(g) \/ PollStopEvent(g) \/ PollButton(g)
    \/ RecordButton(g) \/ PollDecision(g) \/ PollStop(g)

Next ==
    \/ Execute
    \/ \E g \in Gates : Poll(g) \/ PollDeadline(g) \/ PressButton(g)
    \/ \E w \in Approvers :
         WriteDecision(w) \/ \E g \in Gates, d \in Decisions : ReadForDecision(w, g, d)
    \/ \E s \in Stoppers : StopRead(s) \/ StopControl(s) \/ StopMark(s)
    \/ CleanUp \/ Die \/ Raise

Spec == Init /\ [][Next]_vars

\* The executor and its polls go on, and a request that has begun is served;
\* a deadline is not relied on, nor that anybody asks for anything.
Fairness ==
    /\ WF_vars(Execute)
    /\ \A g \in Gates : WF_vars(Poll(g))
    /\ \A s \in Stoppers : WF_vars(StopControl(s) \/ StopMark(s))

FairSpec == Spec /\ Fairness
-----------------------------------------------------------------------------
(* Properties *)

\* Types; a node of the batch has not run, and only its gates are busy.
TypeOK ==
    /\ status \in Active \union Terminal /\ control \in BOOLEAN /\ states \in Column
    /\ pc \in {"new", "ended"} \union Live
    /\ mine \in [status : Active \union Terminal, control : BOOLEAN, states : Column]
    /\ seen \in BOOLEAN
    /\ batch \subseteq Node /\ ran \subseteq Node /\ batch \intersect ran = {}
    /\ gate \in [Gates -> {"off", "begin", "arming", "polling", "recording", "over", "stopped"}]
    /\ \A g \in Gates : gate[g] # "off" => pc = "batch" /\ g \in batch
    /\ out \in [Gates -> Column]
    /\ pressed \in [Gates -> {"none"} \union Decisions]
    /\ want \in [Approvers -> [gate : Gates \union {NoGate}, decision : {"none"} \union Decisions]]
    /\ copy \in [Approvers -> Column]
    /\ stop \in [Stoppers -> {"idle", "read", "mark", "answered"}]
    /\ saw \in [Stoppers -> {"none"} \union Active \union Terminal]
    /\ recorded \subseteq Gates /\ undisturbed \subseteq recorded
    /\ \A g \in recorded : gate[g] \in {"arming", "polling", "recording"}
    /\ overrun \in Nat

\* A decision that was reported to its giver as recorded is found by the node
\* that waits for it.
RecordedStays ==
    \A g \in recorded : gate[g] = "polling" => Decided(states, g)

\* It is found whenever nobody stood by to write an older column when it was
\* recorded: all that is read later holds it, however many gates are open and
\* however many people decide.
UndisturbedStays ==
    \A g \in undisturbed : gate[g] = "polling" => Decided(states, g)

\* After a stop of a running run has been answered at most one more batch
\* begins: the one for which the row had been read before.
OneBatchAfterStop == overrun <= 1

\* When the executor is gone and no stop request that saw the run active is
\* under way, a final status stays.
Settled == pc = "ended" /\ status \in Terminal /\ \A s \in Stoppers : ~(stop[s] \in {"read", "mark"} /\ saw[s] \in Active)
OutcomeSettled == [][Settled => status' = status]_vars

\* A stop that is in the row while the loop runs ends the run without waiting
\* for anybody's decision or a deadline, whichever process has received it.
StopEndsRun == control /\ pc \in Looping ~> pc = "ended"
-----------------------------------------------------------------------------
(* The inductive invariant of the decisions *)

\* The token of gate g has been in the row ...
Past(g) == gate[g] \in {"polling", "recording", "over", "stopped"} \/ g \in ran \/ pc = "ended"

\* ... or another gate of the batch has put it there before g did.
Shown(g) ==
    \/ Past(g)
    \/ gate[g] = "arming" /\ \E h \in Gates \ {g} : gate[h] # "off"

Tokens ==
    /\ \A g \in Gates : states[g] = "armed" => Shown(g)
    /\ \A g \in recorded : Shown(g)
    /\ \A g \in Gates, w \in Approvers : copy[w][g] = "armed" => Shown(g)
    /\ \A g \in Gates : mine.states[g] = "armed" => gate[g] = "arming" \/ Past(g)
    /\ \A g, h \in Gates : out[h][g] = "armed" => gate[g] = "arming" \/ Past(g)
    /\ \A g \in undisturbed : Past(g)

\* Whoever may write the column while g waits for its decision holds it.
Kept ==
    /\ \A w \in Approvers : ~Idle(w) => want[w].gate \in Gates /\ want[w].decision \in Decisions
    /\ \A g \in undisturbed : gate[g] = "polling" =>
         /\ Decided(states, g)
         /\ \A w \in Approvers : Idle(w) \/ want[w].gate = g \/ Decided(copy[w], g)
         /\ \A h \in Gates : /\ gate[h] \notin {"begin", "arming"}
                             /\ gate[h] = "recording" => Decided(out[h], g)

DecisionInv == Tokens /\ Kept
=============================================================================
