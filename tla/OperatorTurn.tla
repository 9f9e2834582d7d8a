---------------------------- MODULE OperatorTurn ----------------------------
(***************************************************************************)
(* The turns of one operator chat: started by messages, continued by the   *)
(* confirmation or the cancellation of the action a turn proposes, stopped *)
(* by the user, given up when nothing saves them for 90 s                  *)
(* (core_ui/services/operator_session.py, operator_session_resume.py,      *)
(* operator_loop.py, operator_turn_runtime.py, assistant_chat.py).         *)
(*                                                                         *)
(* Messages and decisions arrive over the chat's websocket, where the web  *)
(* process runs them as tasks and keeps the newest one of the chat in a    *)
(* map, and over HTTP, where a request runs the same code unknown to the   *)
(* map.  A function handed to a database thread is one action, whatever    *)
(* awaits lie around it; functions of different tasks take turns freely.   *)
(***************************************************************************)
EXTENDS Naturals

CONSTANTS
    Turns,          \* turns the chat can have, numbered as they are created
    Proposing,      \* bound: turns that propose an action, each one at most
    Sockets,        \* tasks of the web process
    Requests,       \* HTTP requests
    NoTurn, NoTask,
    MaxIterations,  \* MAX_ITERATIONS of the loop
    MaxCrashes      \* bound: crashes of the web process

Tasks == Sockets \cup Requests

ASSUME TurnsAssumption == Turns \subseteq Nat /\ NoTurn \notin Turns
ASSUME TasksAssumption == /\ NoTask \notin Tasks
                          /\ Sockets \cap Requests = {}
ASSUME BoundsAssumption == MaxIterations \in Nat /\ MaxCrashes \in Nat

\* done, failed and limit are all closed: no step tells them apart.
Live     == {"running", "resuming"}
Open     == Live \cup {"awaiting_confirm"}
Statuses == Open \cup {"none", "closed"}

Decided  == {"completed", "failed", "cancelled"}
Actions  == Decided \cup {"none", "asked", "running"}

\* Where a task is.  From its creation a turn is in the loop of one task:
\* about to read it, about to save it as running, busy with the model and its
\* tools, about to park it.  A task that continues a turn has fed the decision
\* to it first.
Looping  == {"feed", "top", "save", "iterate", "park"}
Deciding == {"claim", "handle", "withdraw", "resume"}
Labels   == Looping \cup Deciding \cup {"idle", "admit", "create", "finally"}

VARIABLES
    \* the turn's row: status, iteration, not saved for 90 s
    status, iteration, stale,
    \* the action it proposes: status, how often its handler was started; what
    \* the model was told about it
    action, runs, told,
    \* handlers that go on although the task waiting for them was cancelled
    loose,
    \* the task the process knows for this chat
    entry,
    \* a task: where it is, what it was started for, its turn
    pc, kind, turn,
    \* a stop has cancelled the task and has not closed the turn yet
    stopping,
    crashes

rows  == <<status, iteration, stale>>
deeds == <<action, runs, told, loose>>
tasks == <<pc, kind, turn>>
vars  == <<rows, deeds, entry, tasks, stopping, crashes>>

-----------------------------------------------------------------------------
(* Shared parts of the steps *)

\* A task in the map that is not done; once done it is as good as absent.
Busy == entry # NoTask /\ pc[entry] # "idle"

GoTo(k, label) == /\ pc' = [pc EXCEPT ![k] = label]
                  /\ UNCHANGED <<kind, turn>>

\* A task of the process still has its finally to run; a request just ends.
Leave(k) ==
    /\ pc'   = [pc EXCEPT ![k] = IF k \in Sockets THEN "finally" ELSE "idle"]
    /\ kind' = [kind EXCEPT ![k] = "message"]
    /\ turn' = [turn EXCEPT ![k] = NoTurn]

\* Wrong variant of Refused: the model without its constraint.
Unconstrained(t) == FALSE

\* cu_turn_one_active_per_session: saving an open status raises an error if
\* the chat has another open turn.
Refused(t) == \E u \in Turns \ {t} : status[u] \in Open

\* Turns that some statement closes; every save also sets updated_at, which
\* matters for open turns only.
Closing(S) ==
    /\ status' = [t \in Turns |-> IF t \in S THEN "closed" ELSE status[t]]
    /\ stale'  = [t \in Turns |-> IF t \in S THEN FALSE ELSE stale[t]]
    /\ UNCHANGED iteration

\* _save_turn with an open status: the task goes on at label, or ends with
\* the error.
SaveOpen(k, value, steps, label) ==
    LET t == turn[k] IN
    \/ /\ Refused(t)
       /\ Leave(k)
       /\ UNCHANGED rows
    \/ /\ ~Refused(t)
       /\ status'    = [status EXCEPT ![t] = value]
       /\ iteration' = [iteration EXCEPT ![t] = @ + steps]
       /\ stale'     = [stale EXCEPT ![t] = FALSE]
       /\ IF label = "leave" THEN Leave(k) ELSE GoTo(k, label)

-----------------------------------------------------------------------------
(* Messages and decisions arrive *)

Init ==
    /\ status    = [t \in Turns |-> "none"]
    /\ iteration = [t \in Turns |-> 0]
    /\ stale     = [t \in Turns |-> FALSE]
    /\ action    = [t \in Turns |-> "none"]
    /\ runs      = [t \in Turns |-> 0]
    /\ told      = [t \in Turns |-> "nothing"]
    /\ loose     = {}
    /\ entry     = NoTask
    /\ pc        = [k \in Tasks |-> "idle"]
    /\ kind      = [k \in Tasks |-> "message"]
    /\ turn      = [k \in Tasks |-> NoTurn]
    /\ stopping  = FALSE
    /\ crashes   = 0

\* start_message_turn and start_action_turn: not beside a task the process
\* knows.  A request does not ask.
Begin(k, what, t, label) ==
    /\ pc[k] = "idle"
    /\ k \in Sockets => ~Busy
    /\ entry' = IF k \in Sockets THEN k ELSE entry
    /\ pc'    = [pc EXCEPT ![k] = label]
    /\ kind'  = [kind EXCEPT ![k] = what]
    /\ turn'  = [turn EXCEPT ![k] = t]
    /\ UNCHANGED <<rows, deeds, stopping, crashes>>

Fresh == {t \in Turns : status[t] = "none"}

\* Bound: only while the chat may have another turn.
Message(k) == /\ Fresh # {}
              /\ Begin(k, "message", NoTurn, "admit")

\* Only the request looks at the action before it starts.  Bound: a decision
\* the model was told of is not taken again; nothing parks its turn again.
Confirm(k, t) == /\ action[t] # "none" /\ told[t] = "nothing"
                 /\ k \in Requests => action[t] = "asked"
                 /\ Begin(k, "confirm", t, "claim")

Cancel(k, t) == /\ action[t] # "none" /\ told[t] = "nothing"
                /\ Begin(k, "cancel", t, "withdraw")

-----------------------------------------------------------------------------
(* start_operator_turn *)

\* Zombies, running and not saved for 90 s, are given up; any other open turn
\* refuses the message.
Superseded == {t \in Turns : status[t] = "running" /\ stale[t]}

Admit(k) ==
    /\ pc[k] = "admit"
    /\ Closing(Superseded)
    /\ IF \E t \in Turns \ Superseded : status[t] \in Open
         THEN Leave(k)
         ELSE GoTo(k, "create")
    /\ UNCHANGED <<deeds, entry, stopping, crashes>>

\* Under the lock of the session it looks for open turns again.
Create(k) ==
    /\ pc[k] = "create"
    /\ \/ /\ \A u \in Turns : status[u] \notin Open
          /\ \E t \in Fresh :
               /\ \A u \in Fresh : t <= u
               /\ status' = [status EXCEPT ![t] = "running"]
               /\ turn'   = [turn EXCEPT ![k] = t]
          /\ pc' = [pc EXCEPT ![k] = "top"]
          /\ UNCHANGED <<iteration, stale, kind>>
       \/ /\ Fresh = {} \/ \E u \in Turns : status[u] \in Open
          /\ Leave(k)
          /\ UNCHANGED rows
    /\ UNCHANGED <<deeds, entry, stopping, crashes>>

-----------------------------------------------------------------------------
(* run_operator_loop *)

\* Wrong variant of AtLimit: one iteration too many.
PastLimit(t) == iteration[t] > MaxIterations

AtLimit(t) == iteration[t] >= MaxIterations

\* The top of an iteration reads the row; only here the loop finds out that
\* somebody else has closed its turn.
Refresh(k) ==
    LET t == turn[k] IN
    /\ pc[k] = "top"
    /\ \/ /\ status[t] \notin Live
          /\ Leave(k)
          /\ UNCHANGED rows
       \/ /\ status[t] \in Live /\ AtLimit(t)
          /\ Closing({t})
          /\ Leave(k)
       \/ /\ status[t] \in Live /\ ~AtLimit(t)
          /\ GoTo(k, "save")
          /\ UNCHANGED rows
    /\ UNCHANGED <<deeds, entry, stopping, crashes>>

SaveRunning(k) ==
    /\ pc[k] = "save"
    /\ SaveOpen(k, "running", 1, "iterate")
    /\ UNCHANGED <<deeds, entry, stopping, crashes>>

\* Read tools have run and their results are saved: on to the next iteration.
Continue(k) ==
    /\ pc[k] = "iterate"
    /\ stale' = [stale EXCEPT ![turn[k]] = FALSE]
    /\ GoTo(k, "top")
    /\ UNCHANGED <<status, iteration, deeds, entry, stopping, crashes>>

\* The final answer, an empty one, or an error of the model: whatever the row
\* says by now, it is closed.
Finish(k) ==
    /\ pc[k] = "iterate"
    /\ Closing({turn[k]})
    /\ Leave(k)
    /\ UNCHANGED <<deeds, entry, stopping, crashes>>

\* A tool that changes something is proposed ...
Propose(k) ==
    /\ pc[k] = "iterate"
    /\ turn[k] \in Proposing /\ action[turn[k]] = "none"
    /\ action' = [action EXCEPT ![turn[k]] = "asked"]
    /\ GoTo(k, "park")
    /\ UNCHANGED <<rows, runs, told, loose, entry, stopping, crashes>>

\* ... and the turn waits for the decision; the task is over.
Park(k) ==
    /\ pc[k] = "park"
    /\ SaveOpen(k, "awaiting_confirm", 0, "leave")
    /\ UNCHANGED <<deeds, entry, stopping, crashes>>

-----------------------------------------------------------------------------
(* Decisions: execute_action, cancel_action, resume_after_action *)

\* Wrong variant of MayStart: a claim that does not regard a running action.
MayRestart(t) == action[t] \in {"asked", "running"}

MayStart(t) == action[t] = "asked"

\* The claim of the action, under its row's lock: its handler starts, or it is
\* denied, or the typed confirmation is wrong and the user is asked again.
ClaimAction(k) ==
    LET t == turn[k] IN
    /\ pc[k] = "claim"
    /\ MayStart(t)
    /\ \/ /\ action' = [action EXCEPT ![t] = "running"]
          /\ runs'   = [runs EXCEPT ![t] = @ + 1]
          /\ GoTo(k, "handle")
       \/ /\ action' = [action EXCEPT ![t] = "failed"]
          /\ GoTo(k, "resume")
          /\ UNCHANGED runs
       \/ /\ Leave(k)
          /\ UNCHANGED <<action, runs>>
    /\ UNCHANGED <<rows, told, loose, entry, stopping, crashes>>

\* Wrong variant of Settled: a running action is taken for a decided one.
Claimed(t) == action[t] \in Decided \cup {"running"}

\* Somebody else has claimed it.  While it runs, that one owns the turn; once
\* it is decided, the turn may be resumed with what it came to.
Settled(t) == action[t] \in Decided

FindClaimed(k) ==
    /\ pc[k] = "claim"
    /\ ~MayStart(turn[k])
    /\ IF Settled(turn[k]) THEN GoTo(k, "resume") ELSE Leave(k)
    /\ UNCHANGED <<rows, deeds, entry, stopping, crashes>>

HandlerEnds(k) ==
    /\ pc[k] = "handle"
    /\ \E outcome \in {"completed", "failed"} :
         action' = [action EXCEPT ![turn[k]] = outcome]
    /\ GoTo(k, "resume")
    /\ UNCHANGED <<rows, runs, told, loose, entry, stopping, crashes>>

\* A cancellation that comes too late changes nothing, and resumes the turn
\* all the same.
Withdraw(k) ==
    LET t == turn[k] IN
    /\ pc[k] = "withdraw"
    /\ action' = [action EXCEPT ![t] = IF @ = "asked" THEN "cancelled" ELSE @]
    /\ GoTo(k, "resume")
    /\ UNCHANGED <<rows, runs, told, loose, entry, stopping, crashes>>

\* Wrong variant of MayResume: a turn that another task resumes, too.
MayResumeAgain(t) == status[t] \in {"awaiting_confirm", "resuming"}

MayResume(t) == status[t] = "awaiting_confirm"

\* _claim_turn, under the row's lock; without a turn there is nothing to do.
TakeTurn(k) ==
    LET t == turn[k] IN
    /\ pc[k] = "resume"
    /\ \/ /\ MayResume(t)
          /\ status' = [status EXCEPT ![t] = "resuming"]
          /\ stale'  = [stale EXCEPT ![t] = FALSE]
          /\ GoTo(k, "feed")
          /\ UNCHANGED iteration
       \/ /\ ~MayResume(t)
          /\ Leave(k)
          /\ UNCHANGED rows
    /\ UNCHANGED <<deeds, entry, stopping, crashes>>

\* What the result message says: a cancellation whatever became of the
\* action, or what the confirmed action came to.
Said(k) == IF kind[k] = "cancel" THEN "cancelled" ELSE action[turn[k]]

\* The decision joins the messages of the turn, which is saved as resuming
\* once more, whatever its row says by now.
Feed(k) ==
    LET t == turn[k] IN
    /\ pc[k] = "feed"
    /\ SaveOpen(k, "resuming", 0, "top")
    /\ told' = IF Refused(t) THEN told ELSE [told EXCEPT ![t] = Said(k)]
    /\ UNCHANGED <<action, runs, loose, entry, stopping, crashes>>

-----------------------------------------------------------------------------
(* Ends of tasks *)

\* The finally of a task removes the map's entry, whichever task it names.
Unwind(k) ==
    /\ pc[k] = "finally"
    /\ pc'    = [pc EXCEPT ![k] = "idle"]
    /\ entry' = NoTask
    /\ UNCHANGED <<rows, deeds, kind, turn, stopping, crashes>>

\* An error of the database, of a tool or of the event layer: the task ends
\* and leaves the rows as they are.
Raise(k) ==
    /\ pc[k] \notin {"idle", "finally"}
    /\ Leave(k)
    /\ UNCHANGED <<rows, deeds, entry, stopping, crashes>>

\* Cancelling a task does not end the thread its handler runs in.
CancelTask(k) ==
    /\ Leave(k)
    /\ loose' = IF pc[k] = "handle" THEN loose \cup {turn[k]} ELSE loose
    /\ UNCHANGED <<action, runs, told>>

LooseEnds(t) ==
    /\ t \in loose
    /\ \E outcome \in {"completed", "failed"} :
         action' = [action EXCEPT ![t] = outcome]
    /\ loose' = loose \ {t}
    /\ UNCHANGED <<rows, runs, told, entry, tasks, stopping, crashes>>

\* A message task beats every 10 s, so not before its turn exists.
Beating(k) == /\ k \in Sockets
              /\ kind[k] = "message"
              /\ pc[k] \in Looping

LiveTurns == {t \in Turns : status[t] \in Live}

\* It keeps every live turn of the chat from getting stale, not only its own;
\* when there is none it cancels its own work.
Beat(k) ==
    /\ Beating(k)
    /\ \/ /\ LiveTurns # {}
          /\ stale' = [t \in Turns |-> FALSE]
          /\ UNCHANGED <<tasks, deeds>>
       \/ /\ LiveTurns = {}
          /\ CancelTask(k)
          /\ UNCHANGED stale
    /\ UNCHANGED <<status, iteration, entry, stopping, crashes>>

\* 300 s: every live turn of the chat is failed, not only its own.
TimeOut(k) ==
    /\ Beating(k)
    /\ Closing(LiveTurns)
    /\ Leave(k)
    /\ UNCHANGED <<deeds, entry, stopping, crashes>>

-----------------------------------------------------------------------------
(* The user stops the turn; the page reconnects; time; crashes *)

\* The process' task is cancelled and at once forgotten ...
StopTask ==
    /\ ~stopping
    /\ IF Busy
         THEN CancelTask(entry)
         ELSE UNCHANGED <<tasks, deeds>>
    /\ entry'    = NoTask
    /\ stopping' = TRUE
    /\ UNCHANGED <<rows, crashes>>

\* ... then whatever is live in the chat by now is saved as done.
StopCloses ==
    /\ stopping
    /\ Closing(LiveTurns)
    /\ stopping' = FALSE
    /\ UNCHANGED <<deeds, entry, tasks, crashes>>

\* Wrong variant of Abandoned: running turns only, as for a new message.
AbandonedRunning == Superseded

\* get_active_turn_snapshot gives up what was not saved for 90 s.
Abandoned == {t \in LiveTurns : stale[t]}

Reconnect ==
    /\ Abandoned # {}
    /\ Closing(Abandoned)
    /\ UNCHANGED <<deeds, entry, tasks, stopping, crashes>>

\* 90 s may pass between two saves even of a live task: a resumed turn and
\* that of a request have no heartbeat, and a heartbeat may be held up by the
\* tool it shares a thread with.
Age(t) ==
    /\ status[t] \in Live /\ ~stale[t]
    /\ stale' = [stale EXCEPT ![t] = TRUE]
    /\ UNCHANGED <<status, iteration, deeds, entry, tasks, stopping, crashes>>

\* Everything the process had in memory is gone, its handlers included.
Crash ==
    /\ crashes < MaxCrashes
    /\ crashes'  = crashes + 1
    /\ entry'    = NoTask
    /\ pc'       = [k \in Tasks |-> "idle"]
    /\ kind'     = [k \in Tasks |-> "message"]
    /\ turn'     = [k \in Tasks |-> NoTurn]
    /\ loose'    = {}
    /\ stopping' = FALSE
    /\ UNCHANGED <<rows, action, runs, told>>

-----------------------------------------------------------------------------
Work(k) == \/ Admit(k) \/ Create(k)
           \/ Refresh(k) \/ SaveRunning(k) \/ Continue(k) \/ Finish(k)
           \/ Propose(k) \/ Park(k)
           \/ ClaimAction(k) \/ FindClaimed(k) \/ HandlerEnds(k)
           \/ Withdraw(k) \/ TakeTurn(k) \/ Feed(k)
           \/ Unwind(k)

Next == \/ \E k \in Tasks : \/ Work(k) \/ Message(k) \/ Raise(k)
                            \/ Beat(k) \/ TimeOut(k)
        \/ \E k \in Tasks, t \in Turns : Confirm(k, t) \/ Cancel(k, t)
        \/ \E t \in Turns : LooseEnds(t) \/ Age(t)
        \/ StopTask \/ StopCloses
        \/ Reconnect \/ Crash

Spec == Init /\ [][Next]_vars

\* Tasks go on: the model and the tools have timeouts of their own.  A turn
\* nobody works on, in a chat without heartbeat, gets stale; and the user
\* opens the chat again now and then.
Deserted(t) == /\ \A k \in Tasks : turn[k] = t => pc[k] \notin Looping
               /\ \A k \in Tasks : ~Beating(k)

Fairness == /\ \A k \in Tasks : WF_vars(Work(k))
            /\ \A t \in Turns : WF_vars(Deserted(t) /\ Age(t))
            /\ WF_vars(Reconnect)

FairSpec == Spec /\ Fairness

-----------------------------------------------------------------------------
(* Properties *)

\* Types.  A turn begins with its creation, never exceeds the limit of
\* iterations, and only a created one proposes an action.
TypeOK ==
    /\ status \in [Turns -> Statuses]
    /\ iteration \in [Turns -> 0 .. MaxIterations]
    /\ stale \in [Turns -> BOOLEAN]
    /\ action \in [Turns -> Actions]
    /\ runs \in [Turns -> Nat]
    /\ told \in [Turns -> Actions \cup {"nothing"}]
    /\ loose \subseteq Turns
    /\ entry \in Sockets \cup {NoTask}
    /\ pc \in [Tasks -> Labels]
    /\ kind \in [Tasks -> {"message", "confirm", "cancel"}]
    /\ turn \in [Tasks -> Turns \cup {NoTurn}]
    /\ stopping \in BOOLEAN
    /\ crashes \in 0 .. MaxCrashes
    /\ \A k \in Tasks : pc[k] \in Looping \cup Deciding => turn[k] \in Turns
    /\ \A t \in Turns : status[t] = "none" => action[t] = "none"

\* The database, and not the map of tasks, keeps a chat to one dialog: it has
\* one open turn at most, and no turn has two tasks in its loop, whatever is
\* sent twice, stopped, given up for stale or revived by a task's late save.
OneDialog ==
    /\ \A t, u \in Turns : status[t] \in Open /\ status[u] \in Open => t = u
    /\ \A j, k \in Tasks :
         pc[j] \in Looping /\ pc[k] \in Looping /\ turn[j] = turn[k] => j = k

\* A confirmed action changes servers, so its handler is started once at most,
\* and never after its turn was told that the user cancelled it.
ExecutedOnce ==
    \A t \in Turns : /\ runs[t] <= 1
                     /\ told[t] = "cancelled" => action[t] # "asked"

\* The model hears of a success or of a failure only when that is what the
\* action came to, never of an action that still runs.
ToldWhatHappened ==
    \A t \in Turns : told[t] \in {"nothing", "cancelled", action[t]} \ {"running"}

\* No turn blocks its chat for ever ("so the chat is not blocked forever"):
\* however its task ends, a running or resuming turn is closed or parked.
TurnsSettle ==
    \A t \in Turns : status[t] \in Live ~> status[t] \notin Live

=============================================================================
