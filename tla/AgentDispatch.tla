--------------------------- MODULE AgentDispatch ---------------------------
(***************************************************************************)
(* The queue of agent runs (servers/agent_dispatch.py), the workers of the *)
(* execution plane that take runs from it (agent_background.py,            *)
(* run_agent_execution_plane.py) and drive the engine of a run             *)
(* (agent_engine_runner_loop.py, agents.py), operators who stop a run or   *)
(* answer its questions (agent_service.py, consumers/agent_live.py) and    *)
(* the cleanup of stale runs (runtime_limit_provider.py).                  *)
(*                                                                         *)
(* Every run has one dispatch: plans that wait for a review, which would   *)
(* give it another one, are requested nowhere in the code.  A worker and   *)
(* the operators share the run's row, and the runtime_control column in it *)
(* is their mailbox; nobody locks either, so each statement is an action.  *)
(***************************************************************************)
EXTENDS Naturals

CONSTANTS
    Runs,        \* agent runs, each of an agent of its own
    Workers,     \* slots of the execution plane
    Operators,   \* operators, one request at a time each
    NoRun,
    MaxCrashes,  \* bound: crashes of workers
    MaxStalls,   \* bound: leases that end while their worker is alive
    MaxReplies   \* bound: answers, and no stall goes with an answer

ASSUME RunsAssumption == NoRun \notin Runs
ASSUME BoundsAssumption == MaxCrashes \in Nat /\ MaxStalls \in Nat /\ MaxReplies \in Nat

Active   == {"pending", "running", "waiting"}
Terminal == {"completed", "failed", "stopped"}

\* A dispatch that is claimed has lapsed when its lease is over; completed,
\* failed and canceled ones are all over, and nothing tells them apart.
Dispatches == {"none", "queued", "claimed", "lapsed", "over"}

\* runtime_control: the stop flag, and the numbers of the last answer that was
\* put in and of the last one that the engine took.
Mailbox == [stop : BOOLEAN, nonce : Nat, ack : Nat]
Empty   == [stop |-> FALSE, nonce |-> 0, ack |-> 0]

VARIABLES
    \* the runs of mini agents: a list of commands, no engine
    mini,
    \* the rows: a run's status, whether completed_at is set, its mailbox; its
    \* dispatch
    status, ended, control, dispatch,
    \* a worker: where it is, its run, whether its engine was told to stop, the
    \* result it is about to save, the answer its watch has to acknowledge
    pc, job, told, result, note,
    \* an operator: the request, the run it is about and the mailbox it read
    ask, copy,
    \* where the cleanup of a run is
    clean,
    \* history: runs stopped before any worker was past its last look at the
    \* row, runs whose outcome was saved, runs that an answer which came too
    \* late set to running
    early, reported, revived,
    crashes, stalls, replies

rows     == <<status, ended, control>>
workers  == <<pc, job, told, result, note>>
requests == <<ask, copy>>
history  == <<early, reported, revived>>
setting  == <<mini, crashes, stalls, replies>>
vars     == <<rows, dispatch, workers, requests, clean, history, setting>>

NoAsk  == [kind |-> "none", run |-> NoRun]
NoNote == [at |-> "none", box |-> Empty]

Init ==
    /\ mini \in SUBSET Runs
    /\ status = [r \in Runs |-> "none"] /\ ended = [r \in Runs |-> FALSE]
    /\ control = [r \in Runs |-> Empty]
    /\ dispatch = [r \in Runs |-> "none"]
    /\ pc = [w \in Workers |-> "idle"] /\ job = [w \in Workers |-> NoRun]
    /\ told = [w \in Workers |-> FALSE] /\ result = [w \in Workers |-> "none"]
    /\ note = [w \in Workers |-> NoNote]
    /\ ask = [o \in Operators |-> NoAsk] /\ copy = [o \in Operators |-> Empty]
    /\ clean = [r \in Runs |-> "no"]
    /\ early = {} /\ reported = {} /\ revived = {}
    /\ crashes = 0 /\ stalls = 0 /\ replies = 0

-----------------------------------------------------------------------------
(* Launch: the request may die between its two statements *)

CreateRun(r) ==
    /\ status[r] = "none"
    /\ status' = [status EXCEPT ![r] = "pending"]
    /\ UNCHANGED <<ended, control, dispatch, workers, requests, clean, history, setting>>

Enqueue(r) ==
    /\ status[r] # "none" /\ dispatch[r] = "none"
    /\ dispatch' = [dispatch EXCEPT ![r] = "queued"]
    /\ UNCHANGED <<rows, workers, requests, clean, history, setting>>

-----------------------------------------------------------------------------
(* Claim and lease *)

Idle(w) == pc[w] = "idle"

\* Wrong variant: the lease is not looked at.
ClaimableLeased(r) ==
    /\ dispatch[r] \in {"queued", "claimed", "lapsed"}
    /\ status[r] \in {"pending", "running"}

\* Wrong variant: the status of the run is not looked at.
ClaimableEnded(r) == dispatch[r] \in {"queued", "lapsed"}

Claimable(r) ==
    /\ dispatch[r] \in {"queued", "lapsed"}
    /\ status[r] \in {"pending", "running"}

\* Which of the claimable dispatches is the oldest is left open.
Claim(w) ==
    /\ Idle(w)
    /\ \E r \in Runs :
         /\ Claimable(r)
         /\ dispatch' = [dispatch EXCEPT ![r] = "claimed"]
         /\ job' = [job EXCEPT ![w] = r]
    /\ pc' = [pc EXCEPT ![w] = "load"]
    /\ UNCHANGED <<rows, told, result, note, requests, clean, history, setting>>

\* A worker that executes a dispatch renews its lease, whoever has claimed it.
Heartbeat(w) ==
    /\ ~Idle(w)
    /\ dispatch[job[w]] = "lapsed"
    /\ dispatch' = [dispatch EXCEPT ![job[w]] = "claimed"]
    /\ UNCHANGED <<rows, workers, requests, clean, history, setting>>

\* The lease of a dispatch that nobody executes ends ...
Expire(r) ==
    /\ dispatch[r] = "claimed"
    /\ \A w \in Workers : job[w] # r
    /\ dispatch' = [dispatch EXCEPT ![r] = "lapsed"]
    /\ UNCHANGED <<rows, workers, requests, clean, history, setting>>

\* ... and that of one whose worker is held up.
Stall(w) ==
    /\ stalls < MaxStalls /\ replies = 0
    /\ ~Idle(w)
    /\ dispatch[job[w]] = "claimed"
    /\ dispatch' = [dispatch EXCEPT ![job[w]] = "lapsed"]
    /\ stalls' = stalls + 1
    /\ UNCHANGED <<rows, workers, requests, clean, history, mini, crashes, replies>>

-----------------------------------------------------------------------------
(* Execution of a claimed dispatch *)

Goto(w, l) == pc' = [pc EXCEPT ![w] = l]
Only(w, l) == Goto(w, l) /\ UNCHANGED <<job, told, result, note>>

\* Wrong variant: the worker comes back for work with its last run.
ReleaseKeeping(w) ==
    /\ Goto(w, "idle")
    /\ told' = [told EXCEPT ![w] = FALSE]
    /\ result' = [result EXCEPT ![w] = "none"]
    /\ note' = [note EXCEPT ![w] = NoNote]
    /\ UNCHANGED job

\* The worker drops its job and all it knew of it.
Release(w) ==
    /\ Goto(w, "idle")
    /\ job' = [job EXCEPT ![w] = NoRun]
    /\ told' = [told EXCEPT ![w] = FALSE]
    /\ result' = [result EXCEPT ![w] = "none"]
    /\ note' = [note EXCEPT ![w] = NoNote]

\* Wrong variant: the mailbox is not looked at.
StopInStatus(r) == status[r] = "stopped"

\* A stopped run is known by its status, and by its mailbox when the cleanup
\* has made it failed since.
StopSeen(r) == status[r] = "stopped" \/ control[r].stop

\* Where the execution of a run begins once its row was looked at.
Entry(r) == IF r \in mini THEN "start" ELSE "check"

\* The run is read, and left alone when it was stopped.
Load(w) ==
    /\ pc[w] = "load"
    /\ Only(w, IF StopSeen(job[w]) THEN "complete" ELSE Entry(job[w]))
    /\ UNCHANGED <<rows, dispatch, requests, clean, history, setting>>

MarkFailed(r) ==
    /\ status' = [status EXCEPT ![r] = "failed"]
    /\ ended' = [ended EXCEPT ![r] = TRUE]
    /\ UNCHANGED control

\* None of its servers is left.
NoServers(w) ==
    /\ pc[w] \in {"start", "check"} /\ pc[w] = Entry(job[w])
    /\ MarkFailed(job[w])
    /\ Only(w, "complete")
    /\ UNCHANGED <<dispatch, requests, clean, history, setting>>

\* The engine of a full agent reads the row again ...
Check(w) ==
    /\ pc[w] = "check"
    /\ Only(w, IF StopSeen(job[w]) THEN "complete" ELSE "start")
    /\ UNCHANGED <<rows, dispatch, requests, clean, history, setting>>

\* ... and starts the run with an empty mailbox; a mini agent leaves that.
Start(w) ==
    /\ pc[w] = "start"
    /\ LET r == job[w] IN
         /\ status' = [status EXCEPT ![r] = "running"]
         /\ ended' = [ended EXCEPT ![r] = FALSE]
         /\ control' = [control EXCEPT ![r] = IF r \in mini THEN @ ELSE Empty]
         /\ Only(w, IF r \in mini THEN "mini" ELSE "loop")
    /\ UNCHANGED <<dispatch, requests, clean, history, setting>>

\* A step of the agent asks the operator.
AskUser(w) ==
    /\ pc[w] = "loop"
    /\ status' = [status EXCEPT ![job[w]] = "waiting"]
    /\ Only(w, "asking")
    /\ UNCHANGED <<ended, control, dispatch, requests, clean, history, setting>>

\* Nobody has answered for five minutes.
AskTimesOut(w) ==
    /\ pc[w] = "asking"
    /\ Only(w, "asked")
    /\ UNCHANGED <<rows, dispatch, requests, clean, history, setting>>

GoOn(w) ==
    /\ pc[w] = "asked"
    /\ status' = [status EXCEPT ![job[w]] = "running"]
    /\ Only(w, "loop")
    /\ UNCHANGED <<ended, control, dispatch, requests, clean, history, setting>>

\* The watch of the engine, which polls the mailbox while the loop runs: the
\* first stop it reads interrupts a question ...
WatchStop(w) ==
    /\ pc[w] \in {"loop", "asking", "asked"} /\ note[w] = NoNote
    /\ control[job[w]].stop /\ ~told[w]
    /\ told' = [told EXCEPT ![w] = TRUE]
    /\ Goto(w, IF pc[w] = "asking" THEN "asked" ELSE pc[w])
    /\ UNCHANGED <<rows, dispatch, job, result, note, requests, clean, history, setting>>

\* ... and an answer ends it.
WatchReply(w) ==
    /\ pc[w] = "asking" /\ note[w] = NoNote
    /\ LET c == control[job[w]] IN
         /\ c.stop => told[w]
         /\ c.nonce > c.ack
         /\ note' = [note EXCEPT ![w] = [at |-> "given", box |-> [Empty EXCEPT !.nonce = c.nonce]]]
    /\ Goto(w, "asked")
    /\ UNCHANGED <<rows, dispatch, job, told, result, requests, clean, history, setting>>

\* The answer is acknowledged in the mailbox as it is read now ...
CopyMailbox(w) ==
    /\ note[w].at = "given"
    /\ note' = [note EXCEPT ![w] = [at |-> "copied",
                                    box |-> [control[job[w]] EXCEPT !.ack = note[w].box.nonce]]]
    /\ UNCHANGED <<rows, dispatch, pc, job, told, result, requests, clean, history, setting>>

\* ... and written back.
Acknowledge(w) ==
    /\ note[w].at = "copied"
    /\ control' = [control EXCEPT ![job[w]] = note[w].box]
    /\ note' = [note EXCEPT ![w] = NoNote]
    /\ UNCHANGED <<status, ended, dispatch, pc, job, told, result, requests, clean, history, setting>>

\* The loop ends: by a stop that it was told of, by an answer of the model, by
\* a limit or by an exception.
LeaveLoop(w) ==
    /\ pc[w] = "loop"
    /\ \E res \in IF told[w] THEN {"stopped", "failed"} ELSE {"completed", "failed"} :
         result' = [result EXCEPT ![w] = res]
    /\ Goto(w, "report")
    /\ told' = [told EXCEPT ![w] = FALSE]
    /\ UNCHANGED <<rows, dispatch, job, note, requests, clean, history, setting>>

\* The report has been written, and the run is saved with every column: the
\* mailbox as the run was started with.
SaveReport(w) ==
    /\ pc[w] = "report"
    /\ LET r == job[w] IN
         /\ status' = [status EXCEPT ![r] = result[w]]
         /\ ended' = [ended EXCEPT ![r] = TRUE]
         /\ control' = [control EXCEPT ![r] = Empty]
         /\ reported' = reported \union {r}
    /\ Goto(w, "saved")
    /\ result' = [result EXCEPT ![w] = "none"]
    /\ UNCHANGED <<dispatch, job, told, note, requests, clean, early, revived, setting>>

\* What follows the report raises, and the run is saved once more as failed.
ReportFails(w) ==
    /\ pc[w] = "saved"
    /\ status' = [status EXCEPT ![job[w]] = "failed"]
    /\ ended' = [ended EXCEPT ![job[w]] = TRUE]
    /\ control' = [control EXCEPT ![job[w]] = Empty]
    /\ Only(w, "complete")
    /\ UNCHANGED <<dispatch, requests, clean, history, setting>>

\* A mini agent runs its commands and saves its result; it looks for no stop.
FinishMini(w) ==
    /\ pc[w] = "mini"
    /\ \E res \in {"completed", "failed"} : status' = [status EXCEPT ![job[w]] = res]
    /\ ended' = [ended EXCEPT ![job[w]] = TRUE]
    /\ reported' = reported \union {job[w]}
    /\ Only(w, "complete")
    /\ UNCHANGED <<control, dispatch, requests, clean, early, revived, setting>>

\* complete_agent_dispatch, whatever has become of the dispatch.
Complete(w) ==
    /\ pc[w] \in {"saved", "complete"}
    /\ dispatch' = [dispatch EXCEPT ![job[w]] = "over"]
    /\ Release(w)
    /\ UNCHANGED <<rows, requests, clean, history, setting>>

\* An exception that the engine does not handle: the dispatch fails first ...
Raise(w) ==
    /\ pc[w] \in {"load", "check", "start", "mini"}
    /\ dispatch' = [dispatch EXCEPT ![job[w]] = "over"]
    /\ Only(w, "raised")
    /\ UNCHANGED <<rows, requests, clean, history, setting>>

\* ... and then the run.
FailRun(w) ==
    /\ pc[w] = "raised"
    /\ MarkFailed(job[w])
    /\ Release(w)
    /\ UNCHANGED <<dispatch, requests, clean, history, setting>>

Crash(w) ==
    /\ crashes < MaxCrashes
    /\ ~Idle(w)
    /\ Release(w)
    /\ crashes' = crashes + 1
    /\ UNCHANGED <<rows, dispatch, requests, clean, history, mini, stalls, replies>>

-----------------------------------------------------------------------------
(* Operators *)

\* stop_agent_run_for_user reads an active run; a stop over the WebSocket does
\* not ask for that, and an answer wants a run that waits.
BeginRequest(o, kind, r) ==
    /\ ask[o] = NoAsk
    /\ status[r] \in CASE kind = "stop" -> Active
                       [] kind = "live_stop" -> Active \union Terminal
                       [] kind = "reply" -> {"waiting"}
    /\ IF kind = "reply" THEN replies < MaxReplies /\ stalls = 0 /\ replies' = replies + 1
                         ELSE UNCHANGED replies
    /\ ask' = [ask EXCEPT ![o] = [kind |-> kind, run |-> r]]
    /\ copy' = [copy EXCEPT ![o] = control[r]]
    /\ UNCHANGED <<rows, dispatch, workers, clean, history, mini, crashes, stalls>>

\* update_runtime_control: the mailbox is written as it was read, but for the
\* stop or the answer.
WriteControl(o) ==
    /\ ask[o].kind \in {"stop", "live_stop", "reply"}
    /\ control' = [control EXCEPT ![ask[o].run] =
                     IF ask[o].kind = "reply" THEN [copy[o] EXCEPT !.nonce = @ + 1]
                                              ELSE [copy[o] EXCEPT !.stop = TRUE]]
    /\ ask' = [ask EXCEPT ![o].kind = CASE @ = "stop" -> "cancel"
                                        [] @ = "live_stop" -> "mark"
                                        [] @ = "reply" -> "resume"]
    /\ copy' = [copy EXCEPT ![o] = Empty]
    /\ UNCHANGED <<status, ended, dispatch, workers, clean, history, setting>>

\* cancel_agent_dispatches_for_run.
Cancel(r) ==
    dispatch' = [dispatch EXCEPT ![r] = IF @ = "none" THEN @ ELSE "over"]

CancelDispatch(o) ==
    /\ ask[o].kind = "cancel"
    /\ Cancel(ask[o].run)
    /\ ask' = [ask EXCEPT ![o].kind = "mark"]
    /\ UNCHANGED <<rows, workers, copy, clean, history, setting>>

\* The worker is past its last look at the row, and not yet done with the run.
UnderWay(w) ==
    \/ pc[w] \in {"start", "mini", "loop", "asking", "asked", "report", "saved"}
    \/ note[w] # NoNote

\* The stop that an operator is about to mark is in the mailbox, no worker is
\* under way with the run and no answer to it.
IsEarly(r) ==
    /\ control[r].stop
    /\ \A w \in Workers : job[w] = r => ~UnderWay(w)
    /\ \A o \in Operators : ask[o].run = r => ask[o].kind \notin {"reply", "resume"}

\* mark_agent_run_stopped: whatever the status is by now.
MarkStopped(o) ==
    /\ ask[o].kind = "mark"
    /\ LET r == ask[o].run IN
         /\ status' = [status EXCEPT ![r] = "stopped"]
         /\ ended' = [ended EXCEPT ![r] = TRUE]
         /\ early' = IF IsEarly(r) THEN early \union {r} ELSE early
    /\ ask' = [ask EXCEPT ![o] = NoAsk]
    /\ UNCHANGED <<control, dispatch, workers, copy, clean, reported, revived, setting>>

\* The answer sets the run to running, whatever the status is by now.
Resume(o) ==
    /\ ask[o].kind = "resume"
    /\ LET r == ask[o].run IN
         /\ status' = [status EXCEPT ![r] = "running"]
         /\ revived' = IF status[r] # "waiting" THEN revived \union {r} ELSE revived
    /\ ask' = [ask EXCEPT ![o] = NoAsk]
    /\ UNCHANGED <<ended, control, dispatch, workers, copy, clean, early, reported, setting>>

-----------------------------------------------------------------------------
(* The cleanup of stale runs, with which every cycle of a worker begins *)

\* Wrong variant: a run that waits for an answer is left to its operator.
ListBusy(r) ==
    /\ clean[r] = "no"
    /\ status[r] \in {"pending", "running"} /\ ~ended[r]
    /\ clean' = [clean EXCEPT ![r] = "listed"]
    /\ UNCHANGED <<rows, dispatch, workers, requests, history, setting>>

\* An active run is older than the threshold.
ListStale(r) ==
    /\ clean[r] = "no"
    /\ status[r] \in Active /\ ~ended[r]
    /\ clean' = [clean EXCEPT ![r] = "listed"]
    /\ UNCHANGED <<rows, dispatch, workers, requests, history, setting>>

CleanDispatch(r) ==
    /\ clean[r] = "listed"
    /\ Cancel(r)
    /\ clean' = [clean EXCEPT ![r] = "canceled"]
    /\ UNCHANGED <<rows, workers, requests, history, setting>>

CleanRun(r) ==
    /\ clean[r] = "canceled"
    /\ MarkFailed(r)
    /\ clean' = [clean EXCEPT ![r] = "no"]
    /\ UNCHANGED <<dispatch, workers, requests, history, setting>>

-----------------------------------------------------------------------------
Drive(w) ==
    \/ Load(w) \/ Check(w) \/ Start(w) \/ AskTimesOut(w) \/ GoOn(w) \/ SaveReport(w)
    \/ FinishMini(w) \/ Complete(w) \/ FailRun(w)

Work(w) ==
    \/ Claim(w) \/ Heartbeat(w) \/ Stall(w) \/ Drive(w) \/ NoServers(w) \/ AskUser(w)
    \/ WatchStop(w) \/ WatchReply(w) \/ CopyMailbox(w) \/ Acknowledge(w)
    \/ LeaveLoop(w) \/ ReportFails(w) \/ Raise(w) \/ Crash(w)

Operate(o) ==
    \/ WriteControl(o) \/ CancelDispatch(o) \/ MarkStopped(o) \/ Resume(o)
    \/ \E kind \in {"stop", "live_stop", "reply"}, r \in Runs : BeginRequest(o, kind, r)

Launch(r)  == CreateRun(r) \/ Enqueue(r)
CleanUp(r) == CleanDispatch(r) \/ CleanRun(r)

Next ==
    \/ \E r \in Runs : Launch(r) \/ Expire(r) \/ ListStale(r) \/ CleanUp(r)
    \/ \E w \in Workers : Work(w)
    \/ \E o \in Operators : Operate(o)

Spec == Init /\ [][Next]_vars

\* A run that no worker executes or may claim.
Abandoned(r) == ~Claimable(r) /\ \A w \in Workers : job[w] # r

\* Workers poll, and go on; a session is limited in steps and time, so that a
\* loop that is come back to ends.  Leases run out.  The threshold of the
\* cleanup is hours: it is relied on for abandoned runs only.
Fairness ==
    /\ \A w \in Workers : WF_vars(Claim(w)) /\ WF_vars(Drive(w)) /\ SF_vars(LeaveLoop(w))
    /\ \A r \in Runs : WF_vars(Expire(r)) /\ WF_vars(Abandoned(r) /\ ListStale(r)) /\ WF_vars(CleanUp(r))

FairSpec == Spec /\ Fairness
-----------------------------------------------------------------------------
(* Properties *)

\* Types; a busy worker has a run, an idle one has neither run nor engine, and
\* a request has a run.
TypeOK ==
    /\ mini \subseteq Runs
    /\ status \in [Runs -> {"none"} \union Active \union Terminal]
    /\ ended \in [Runs -> BOOLEAN] /\ control \in [Runs -> Mailbox]
    /\ dispatch \in [Runs -> Dispatches]
    /\ pc \in [Workers -> {"idle", "load", "check", "start", "mini", "loop", "asking", "asked",
                           "report", "saved", "complete", "raised"}]
    /\ job \in [Workers -> Runs \union {NoRun}]
    /\ \A w \in Workers : job[w] = NoRun <=> Idle(w)
    /\ told \in [Workers -> BOOLEAN]
    /\ result \in [Workers -> {"none"} \union Terminal]
    /\ \A w \in Workers : pc[w] = "report" => result[w] \in Terminal
    /\ note \in [Workers -> [at : {"none", "given", "copied"}, box : Mailbox]]
    /\ \A w \in Workers : Idle(w) => note[w] = NoNote
    /\ ask \in [Operators -> [kind : {"none", "stop", "live_stop", "reply", "cancel", "mark", "resume"},
                              run : Runs \union {NoRun}]]
    /\ \A o \in Operators : ask[o].run = NoRun <=> ask[o].kind = "none"
    /\ copy \in [Operators -> Mailbox]
    /\ clean \in [Runs -> {"no", "listed", "canceled"}]
    /\ early \subseteq Runs /\ reported \subseteq Runs /\ revived \subseteq Runs
    /\ crashes \in 0 .. MaxCrashes /\ stalls \in 0 .. MaxStalls /\ replies \in 0 .. MaxReplies

\* While no lease runs out under a worker that is alive, a run is executed by
\* one worker at a time, whatever crashes, cancels or answers come between.
OneWorkerUnlessStalled ==
    stalls = 0 => \A v, w \in Workers : ~Idle(v) /\ job[v] = job[w] => v = w

\* A run that was stopped while no worker was past its last look at the row is
\* not executed, although the worker may hold the dispatch by then, and the
\* cleanup may make the run failed before the worker looks.
StoppedNotStarted ==
    \A w \in Workers : job[w] \in early => ~UnderWay(w)

\* The work of a run whose outcome was saved is not begun again, not even when
\* the worker dies before it completes the dispatch; only an answer that comes
\* too late can bring the run back.
NotRunAgain ==
    [][stalls = 0 =>
         \A w \in Workers : Start(w) => job[w] \notin reported \/ job[w] \in revived]_vars

\* Every run ends, whatever happens to its launch and its workers.
EveryRunEnds ==
    \A r \in Runs : status[r] \in Active /\ ~ended[r] ~> status[r] \in Terminal
=============================================================================
