------------------------ MODULE TerminalNotification ------------------------
(***************************************************************************)
(* How an operator chat that waits for a playbook run hears of its end.    *)
(* The notification of a finished run is an outbox entry on the run itself *)
(* (servers/services/playbook_run_state.py): it is delivered by the        *)
(* on_commit hook of the terminal transition or by the sweep of a worker,  *)
(* under a claim with a lease and an attempt number.  Delivering it resumes *)
(* the chat turns parked on the run (core_ui/services/operator_async.py,   *)
(* operator_session_resume.py).                                            *)
(*                                                                         *)
(* A database statement is one action; a deliverer keeps what it read      *)
(* before in its own variables.  The claim's time is not modelled: aged    *)
(* holds the claims older than the lease, and (claimed_at, attempts)       *)
(* together identify a claim exactly when attempts alone does, because     *)
(* every claim raises it.                                                  *)
(***************************************************************************)
EXTENDS Naturals, FiniteSets

CONSTANTS
  Runs,         \* playbook runs
  Turns,        \* operator chat turns
  RunOf,        \* RunOf[t] is the run the confirmed action of turn t starts
  Deliverers,   \* processes that deliver (web, workers)
  Sweepers,     \* those that are playbook workers and sweep
  Window,       \* how many parked turns _find_turns_for_run looks at ([:20])
  MaxStalls,    \* bound: claims that age out under a live deliverer
  MaxFaults,    \* bound: crashes, lost hooks, failed statements
  NoRun, NoTurn

ASSUME RunsAssumption == IsFiniteSet(Runs) /\ IsFiniteSet(Turns)
ASSUME RunOfAssumption == RunOf \in [Turns -> Runs]
ASSUME SweepersAssumption == Sweepers \subseteq Deliverers
ASSUME BoundAssumption == Window \in Nat /\ MaxStalls \in Nat /\ MaxFaults \in Nat
ASSUME NullAssumption == NoRun \notin Runs /\ NoTurn \notin Turns

VARIABLES
  finishedAt, \* rank of PlaybookRun.finished_at, 0 before a terminal status
  hook,       \* runs whose on_commit delivery is still to come
  notified,   \* runs with terminal_notified_at set
  claimed,    \* runs with terminal_notification_claimed_at set
  aged,       \* claimed runs whose claim is older than the lease
  attempts,   \* terminal_notification_attempts
  turn,       \* ChatTurnState.status
  parkedAt,   \* ChatTurnState.updated_at of a parked turn, as a rank
  resumed,    \* how often the result was fed into the turn
  pc, run, mine, todo, cur,   \* a deliverer and its locals
  stalls, faults

outbox   == <<finishedAt, hook, notified, claimed, aged, attempts>>
chat     == <<turn, parkedAt, resumed>>
locals   == <<pc, run, mine, todo, cur>>
budget   == <<stalls, faults>>
vars     == <<outbox, chat, locals, budget>>

\* A deliverer between its claim and the statement that ends it.
Delivering == {"find", "resume", "loop", "final", "release"}

-----------------------------------------------------------------------------
Finished == {r \in Runs : finishedAt[r] > 0}

\* Wrong variant: the run need not have a terminal status.
EligibleTooEarly(r) == r \notin notified /\ (r \notin claimed \/ r \in aged)

\* Wrong variant: a claim is never taken over.
EligibleUnclaimed(r) == r \in Finished /\ r \notin notified /\ r \notin claimed

\* The query of _claim_terminal_notification and of the sweep.
Eligible(r) == r \in Finished /\ r \notin notified /\ (r \notin claimed \/ r \in aged)

\* Wrong variant: the claim is recognised by the run alone.
FenceByRun(d) == run[d] \in claimed /\ run[d] \notin notified

\* _claim_queryset: the run still carries this deliverer's claim.
Fence(d) ==
  /\ run[d] \in claimed
  /\ run[d] \notin notified
  /\ attempts[run[d]] = mine[d]

\* _find_turns_for_run: of all parked turns only the newest Window are read.
Newest(t) ==
  Cardinality({u \in Turns : turn[u] = "parked" /\ parkedAt[u] > parkedAt[t]}) < Window

\* Wrong variant: any turn of the run is resumed, whatever its status.
WaitingInAnyStatus(r) == {t \in Turns : turn[t] # "confirm" /\ RunOf[t] = r}

Waiting(r) == {t \in Turns : turn[t] = "parked" /\ Newest(t) /\ RunOf[t] = r}

Goto(d, label) == pc' = [pc EXCEPT ![d] = label]

Leave(d) ==
  /\ pc' = [pc EXCEPT ![d] = "idle"]
  /\ run' = [run EXCEPT ![d] = NoRun]
  /\ mine' = [mine EXCEPT ![d] = 0]
  /\ todo' = [todo EXCEPT ![d] = {}]
  /\ cur' = [cur EXCEPT ![d] = NoTurn]

Init ==
  /\ finishedAt = [r \in Runs |-> 0]
  /\ hook = {}
  /\ notified = {}
  /\ claimed = {}
  /\ aged = {}
  /\ attempts = [r \in Runs |-> 0]
  /\ turn = [t \in Turns |-> "confirm"]
  /\ parkedAt = [t \in Turns |-> 0]
  /\ resumed = [t \in Turns |-> 0]
  /\ pc = [d \in Deliverers |-> "idle"]
  /\ run = [d \in Deliverers |-> NoRun]
  /\ mine = [d \in Deliverers |-> 0]
  /\ todo = [d \in Deliverers |-> {}]
  /\ cur = [d \in Deliverers |-> NoTurn]
  /\ stalls = 0
  /\ faults = 0

(***************************************************************************)
(* The chat side: the user confirms, the action starts the run, and the    *)
(* turn is parked on it afterwards.                                        *)
(***************************************************************************)

\* A run is started by the turn that waits for it, or by a user without one.
Started(r) ==
  \/ \A t \in Turns : RunOf[t] # r
  \/ \E t \in Turns : RunOf[t] = r /\ turn[t] # "confirm"

Confirm(t) ==
  /\ turn[t] = "confirm"
  /\ turn' = [turn EXCEPT ![t] = "resuming"]
  /\ UNCHANGED <<outbox, parkedAt, resumed, locals, budget>>

\* park_turn_for_async, with no look at whether the run has ended meanwhile.
Park(t) ==
  /\ turn[t] = "resuming"
  /\ turn' = [turn EXCEPT ![t] = "parked"]
  /\ parkedAt' = [parkedAt EXCEPT ![t] = 1 + Cardinality({u \in Turns : parkedAt[u] > 0})]
  /\ UNCHANGED <<outbox, resumed, locals, budget>>

(***************************************************************************)
(* transition_playbook_run.                                                *)
(***************************************************************************)

\* The first transition clears the outbox fields; a later one only tries the
\* delivery again.  The hook runs after the commit.
Finish(r) ==
  /\ Started(r)
  /\ r \notin notified
  /\ finishedAt' = [finishedAt EXCEPT ![r] = IF @ = 0 THEN Cardinality(Finished) + 1 ELSE @]
  /\ hook' = hook \cup {r}
  /\ UNCHANGED <<notified, claimed, aged, attempts, chat, locals, budget>>

(***************************************************************************)
(* deliver_playbook_run_terminal_notification.                             *)
(***************************************************************************)

Begin(d, r) ==
  /\ pc[d] = "idle"
  /\ run' = [run EXCEPT ![d] = r]
  /\ Goto(d, "read")
  /\ UNCHANGED <<mine, todo, cur, chat, budget>>

FromHook(d, r) ==
  /\ r \in hook
  /\ hook' = hook \ {r}
  /\ Begin(d, r)
  /\ UNCHANGED <<finishedAt, notified, claimed, aged, attempts>>

\* deliver_pending_playbook_run_notifications(limit=1) in the worker loop.
\* Several sweeps may list the same run.
FromSweep(d, r) ==
  /\ d \in Sweepers
  /\ Eligible(r)
  /\ \A x \in Runs : Eligible(x) => finishedAt[r] <= finishedAt[x]
  /\ Begin(d, r)
  /\ UNCHANGED outbox

\* The attempt counter is read ...
ReadAttempts(d) ==
  /\ pc[d] = "read"
  /\ IF Eligible(run[d])
     THEN /\ mine' = [mine EXCEPT ![d] = attempts[run[d]]]
          /\ Goto(d, "claim")
          /\ UNCHANGED <<run, todo, cur>>
     ELSE Leave(d)
  /\ UNCHANGED <<outbox, chat, budget>>

\* ... and compared in the update that claims.
ClaimNotification(d) ==
  /\ pc[d] = "claim"
  /\ IF Eligible(run[d]) /\ attempts[run[d]] = mine[d]
     THEN /\ claimed' = claimed \cup {run[d]}
          /\ aged' = aged \ {run[d]}
          /\ attempts' = [attempts EXCEPT ![run[d]] = @ + 1]
          /\ mine' = [mine EXCEPT ![d] = @ + 1]
          /\ Goto(d, "find")
          /\ UNCHANGED <<run, todo, cur>>
     ELSE Leave(d) /\ UNCHANGED <<claimed, aged, attempts>>
  /\ UNCHANGED <<finishedAt, hook, notified, chat, budget>>

\* resume_turns_for_playbook_run lists the turns to resume.
FindTurns(d) ==
  /\ pc[d] = "find"
  /\ todo' = [todo EXCEPT ![d] = Waiting(run[d])]
  /\ Goto(d, "resume")
  /\ UNCHANGED <<outbox, run, mine, cur, chat, budget>>

\* resume_after_async_result: the turn is read again but its status is not
\* looked at; the result is appended and the loop is entered.
ResumeTurn(d, t) ==
  /\ pc[d] = "resume"
  /\ t \in todo[d]
  /\ turn' = [turn EXCEPT ![t] = "running"]
  /\ resumed' = [resumed EXCEPT ![t] = @ + 1]
  /\ todo' = [todo EXCEPT ![d] = @ \ {t}]
  /\ cur' = [cur EXCEPT ![d] = t]
  /\ Goto(d, "loop")
  /\ UNCHANGED <<outbox, parkedAt, run, mine, budget>>

\* run_operator_loop returns, normally or not.
LoopEnds(d) ==
  /\ pc[d] = "loop"
  /\ turn' = [turn EXCEPT ![cur[d]] = "closed"]
  /\ cur' = [cur EXCEPT ![d] = NoTurn]
  /\ Goto(d, "resume")
  /\ UNCHANGED <<outbox, parkedAt, resumed, run, mine, todo, budget>>

\* _notify_operator has returned.
Delivered(d) ==
  /\ pc[d] = "resume"
  /\ todo[d] = {}
  /\ Goto(d, "final")
  /\ UNCHANGED <<outbox, run, mine, todo, cur, chat, budget>>

\* The last statement, in which only the newest claim may mark the run.
Finalize(d) ==
  /\ pc[d] = "final"
  /\ IF Fence(d)
     THEN notified' = notified \cup {run[d]} /\ claimed' = claimed \ {run[d]} /\ aged' = aged \ {run[d]}
     ELSE UNCHANGED <<notified, claimed, aged>>
  /\ Leave(d)
  /\ UNCHANGED <<finishedAt, hook, attempts, chat, budget>>

\* Wrong variant: a delivery that failed counts as delivered.
ReleaseAsDone(d) ==
  /\ pc[d] = "release"
  /\ IF Fence(d)
     THEN notified' = notified \cup {run[d]} /\ claimed' = claimed \ {run[d]} /\ aged' = aged \ {run[d]}
     ELSE UNCHANGED <<notified, claimed, aged>>
  /\ Leave(d)
  /\ UNCHANGED <<finishedAt, hook, attempts, chat, budget>>

\* _notify_operator raised: the claim is given back, the run stays pending.
Release(d) ==
  /\ pc[d] = "release"
  /\ IF Fence(d)
     THEN claimed' = claimed \ {run[d]} /\ aged' = aged \ {run[d]}
     ELSE UNCHANGED <<claimed, aged>>
  /\ Leave(d)
  /\ UNCHANGED <<finishedAt, hook, notified, attempts, chat, budget>>

(***************************************************************************)
(* Time and faults.                                                        *)
(***************************************************************************)

\* The claim of a deliverer that still works on the run.
Attended(r) == \E d \in Deliverers : pc[d] \in Delivering /\ run[d] = r /\ mine[d] = attempts[r]

Age(r) ==
  /\ r \in claimed
  /\ r \notin aged
  /\ aged' = aged \cup {r}
  /\ UNCHANGED <<finishedAt, hook, notified, claimed, attempts, chat, locals, faults>>

ClaimAges(r) == ~Attended(r) /\ Age(r) /\ UNCHANGED stalls

\* A delivery runs whole chat loops with a model and tools: it may well take
\* longer than the lease of its claim.
SlowDelivery(r) == Attended(r) /\ Age(r) /\ stalls < MaxStalls /\ stalls' = stalls + 1

Fault == faults < MaxFaults /\ faults' = faults + 1

\* The process dies between the commit and its hook.
LoseHook(r) ==
  /\ Fault
  /\ r \in hook
  /\ hook' = hook \ {r}
  /\ UNCHANGED <<finishedAt, notified, claimed, aged, attempts, chat, locals, stalls>>

\* _notify_operator raises before it has resumed anything.
NotifyFails(d) ==
  /\ Fault
  /\ pc[d] = "find"
  /\ Goto(d, "release")
  /\ UNCHANGED <<outbox, run, mine, todo, cur, chat, stalls>>

\* Resuming one turn raises: that turn is failed and the next one is taken.
ResumeFails(d, t) ==
  /\ Fault
  /\ pc[d] = "resume"
  /\ t \in todo[d]
  /\ turn' = [turn EXCEPT ![t] = "closed"]
  /\ todo' = [todo EXCEPT ![d] = @ \ {t}]
  /\ UNCHANGED <<outbox, parkedAt, resumed, pc, run, mine, cur, stalls>>

\* The process dies, or its statement fails and is only logged.  A chat turn
\* whose loop dies with it stays as it was saved last.
Die(d) ==
  /\ Fault
  /\ pc[d] # "idle"
  /\ Leave(d)
  /\ UNCHANGED <<outbox, chat, stalls>>

-----------------------------------------------------------------------------
Deliver(d) ==
  \/ ReadAttempts(d) \/ ClaimNotification(d) \/ FindTurns(d)
  \/ \E t \in Turns : ResumeTurn(d, t)
  \/ LoopEnds(d) \/ Delivered(d) \/ Finalize(d) \/ Release(d)

Next ==
  \/ \E t \in Turns : Confirm(t) \/ Park(t)
  \/ \E r \in Runs : Finish(r) \/ ClaimAges(r) \/ SlowDelivery(r) \/ LoseHook(r)
  \/ \E d \in Deliverers :
       \/ \E r \in Runs : FromHook(d, r) \/ FromSweep(d, r)
       \/ \E t \in Turns : ResumeFails(d, t)
       \/ Deliver(d) \/ NotifyFails(d) \/ Die(d)

Spec == Init /\ [][Next]_vars

\* Started deliveries go on, workers keep sweeping, time passes, a confirmed
\* turn is parked and a started run ends.
Fairness ==
  /\ \A d \in Deliverers : WF_vars(Deliver(d))
  /\ \A d \in Sweepers : WF_vars(\E r \in Runs : FromSweep(d, r))
  /\ \A r \in Runs : WF_vars(ClaimAges(r)) /\ WF_vars(r \notin Finished /\ Finish(r))
  /\ \A t \in Turns : WF_vars(Park(t))

FairSpec == Spec /\ Fairness

-----------------------------------------------------------------------------
\* Every variable has its type, and a busy deliverer has a run.
TypeOK ==
  /\ finishedAt \in [Runs -> Nat]
  /\ hook \subseteq Finished
  /\ notified \subseteq Finished
  /\ claimed \subseteq Finished
  /\ aged \subseteq claimed
  /\ attempts \in [Runs -> Nat]
  /\ turn \in [Turns -> {"confirm", "resuming", "parked", "running", "closed"}]
  /\ parkedAt \in [Turns -> Nat]
  /\ resumed \in [Turns -> Nat]
  /\ pc \in [Deliverers -> Delivering \cup {"idle", "read", "claim"}]
  /\ run \in [Deliverers -> Runs \cup {NoRun}]
  /\ \A d \in Deliverers : pc[d] # "idle" => run[d] \in Runs
  /\ mine \in [Deliverers -> Nat]
  /\ todo \in [Deliverers -> SUBSET Turns]
  /\ cur \in [Deliverers -> Turns \cup {NoTurn}]
  /\ \A d \in Deliverers : pc[d] = "loop" => cur[d] \in Turns
  /\ stalls \in 0 .. MaxStalls
  /\ faults \in 0 .. MaxFaults

\* A run is not marked as notified while the delivery with the newest claim is
\* still under way: "the attempt number fences stale finalizers from marking a
\* newer delivery as complete" (deliver_playbook_run_terminal_notification).
NotMarkedUnderDelivery ==
  \A d \in Deliverers :
    pc[d] \in Delivering /\ mine[d] = attempts[run[d]] => run[d] \notin notified

\* The result of a run is fed into a waiting turn once, as long as no delivery
\* that is still alive is taken for dead.
ResumedOnce == \A t \in Turns : resumed[t] <= 1
ResumedOnceUnlessSlow == stalls = 0 => ResumedOnce

\* Every finished run is notified in the end, whatever hooks are lost and
\* whichever deliverers die.
EveryRunNotified == \A r \in Runs : r \in Finished ~> r \in notified

\* A turn that was parked before its run ended does not stay parked.
ParkedInTimeWakes ==
  \A t \in Turns : turn[t] = "parked" /\ RunOf[t] \notin Finished ~> turn[t] # "parked"

-----------------------------------------------------------------------------
\* What makes the attempt number a fence: nobody is ahead of the row, and two
\* deliverers never carry the same attempt of the same run.
ClaimsDistinct ==
  /\ \A d \in Deliverers : pc[d] \in Delivering => mine[d] <= attempts[run[d]]
  /\ \A d, e \in Deliverers :
       pc[d] \in Delivering /\ pc[e] \in Delivering /\ run[d] = run[e] /\ mine[d] = mine[e]
         => d = e

OutboxInv == TypeOK /\ ClaimsDistinct /\ NotMarkedUnderDelivery

\* While no claim has aged out under a live delivery, the one delivery of a run
\* holds its claim, so nobody else can take the run.
DeliveryHoldsItsClaim ==
  \A d \in Deliverers :
    pc[d] \in Delivering => run[d] \in claimed \ aged /\ mine[d] = attempts[run[d]]

\* What a delivery still has to resume is parked on its run ...
ListedTurnsAreParked ==
  \A d \in Deliverers : \A t \in todo[d] :
    pc[d] \in {"resume", "loop"} /\ RunOf[t] = run[d] /\ turn[t] = "parked"

\* ... and a turn that heard the result has left the parked status for good.
HeardTurnsHaveGoneOn ==
  /\ \A t \in Turns : turn[t] \in {"confirm", "resuming", "parked"} => resumed[t] = 0
  /\ \A d \in Deliverers : pc[d] = "loop" => turn[cur[d]] \in {"running", "closed"}

HeardOnce ==
  DeliveryHoldsItsClaim /\ ListedTurnsAreParked /\ HeardTurnsHaveGoneOn /\ ResumedOnce

ResumeInv == OutboxInv /\ (stalls = 0 => HeardOnce)
=============================================================================
