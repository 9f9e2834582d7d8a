-------------------------- MODULE PlaybookDispatch --------------------------
(***************************************************************************)
(* The durable queue of playbook runs and the leased workers that execute  *)
(* it: servers/playbook_dispatch.py (the dispatch rows),                   *)
(* servers/playbook_execution_worker.py (one claimed row, from claim to    *)
(* finalization), servers/services/playbook_run_state.py (the terminal     *)
(* transition of a run) and servers/services/playbook_runner.py (what a    *)
(* worker does between "claimed" and "finished").                          *)
(*                                                                         *)
(* A database transaction is one action (the claim, whose atomicity is not *)
(* a given, is taken apart in ClaimTransaction). Everything a worker does  *)
(* between two transactions is a value of pc, so every read that is used   *)
(* after the row lock is gone is a separate step.  There is no clock:      *)
(* expired holds the claimed rows whose lease has run out by now, and      *)
(* past[w] the rows whose lease had run out at the instant worker w read   *)
(* as its "now".                                                           *)
(***************************************************************************)
EXTENDS Naturals, FiniteSets

CONSTANTS
  Runs,          \* playbook runs, numbered in the order they are queued
  Workers,       \* worker keys of playbook-execution-worker replicas
  Users, Owner,  \* Owner[r] is the user who started run r
  RetrySafe,     \* runs enqueued with mutation_safe_to_retry=True
  Container,     \* runs executed in a named, isolated runner container
  GlobalLimit,   \* PLAYBOOK_EXECUTION_GLOBAL_CONCURRENCY
  UserLimit,     \* PLAYBOOK_EXECUTION_PER_USER_CONCURRENCY
  MaxStalls,     \* bound: leases that run out under a live worker
  MaxFaults,     \* bound: crashes, exceptions, shutdowns, failed lease probes
  NoWorker, NoRun

ASSUME RunsAssumption == Runs \subseteq Nat /\ IsFiniteSet(Runs)
ASSUME OwnerAssumption == Owner \in [Runs -> Users]
ASSUME LimitAssumption ==
  /\ GlobalLimit \in Nat \ {0}
  /\ UserLimit \in Nat \ {0}
  /\ UserLimit <= GlobalLimit
ASSUME BoundAssumption == MaxStalls \in Nat /\ MaxFaults \in Nat
ASSUME SetsAssumption == RetrySafe \subseteq Runs /\ Container \subseteq Runs
ASSUME NullAssumption == NoWorker \notin Workers /\ NoRun \notin Runs

VARIABLES
  status,    \* PlaybookRun.status ("none" before the run is created)
  cancel,    \* PlaybookRun.cancel_requested
  queue,     \* PlaybookRunDispatch.status ("none" before the row is created)
  by,        \* PlaybookRunDispatch.claimed_by
  attempt,   \* PlaybookRunDispatch.attempt_count
  expired,   \* claimed rows whose lease_expires_at has passed
  past,      \* past[w]: claimed rows with lease_expires_at <= w's own "now"
  pc,        \* where each worker process is
  job,       \* the run whose dispatch the worker holds or is working on
  held,      \* attempt_count in the worker's execution fence
  lost,      \* the worker's lost_lease event
  out,       \* the outcome the worker is about to persist
  escapes,   \* an exception raised now leaves execute_playbook_dispatch
  live,      \* remote executions alive: <<run, attempt>>
  stalls, faults

runVars   == <<status, cancel>>
rowVars   == <<queue, by, attempt>>
leaseVars == <<expired, past>>
workVars  == <<pc, job, held, lost, out, escapes>>
budget    == <<stalls, faults>>
vars == <<runVars, rowVars, leaseVars, workVars, live, budget>>

Terminal == {"completed", "failed", "partial", "cancelled"}
Active == {"queued", "claimed"}
Closed == {"completed", "failed", "canceled", "interrupted"}

\* Steps of execute_playbook_dispatch in which its heartbeat thread runs.
Beating == {"prep", "ready", "launch", "exec", "save", "post", "read",
            "patch", "except", "fin"}
Busy == Beating \cup {"start", "early"}

-----------------------------------------------------------------------------
Settled(r) == status[r] \in Terminal

\* Wrong variant: the fence looks at the row only, not at who claimed it.
FenceIgnoresHolder(w) == queue[job[w]] = "claimed" /\ job[w] \notin expired

\* playbook_run_fence_is_owned: the row is still this attempt's live claim.
FenceOwned(w) ==
  /\ queue[job[w]] = "claimed"
  /\ by[job[w]] = w
  /\ attempt[job[w]] = held[w]
  /\ job[w] \notin expired

\* _owns_claim: the fence, unless the loss of the lease was already noticed.
OwnsClaim(w) == ~lost[w] /\ FenceOwned(w)

\* _owns_claim records a failed probe in lost_lease; the answer is sticky.
Probe(w) == lost' = [lost EXCEPT ![w] = ~OwnsClaim(w)]

\* A write refused inside _persist_run leaves lost_lease alone, one refused by
\* the _owns_claim in front of it sets it.
Refused(w) == \E noticed \in {lost[w], TRUE} : lost' = [lost EXCEPT ![w] = noticed]

\* transition_playbook_run: the first terminal status wins.
Settle(r, s) == status' = [status EXCEPT ![r] = IF Settled(r) THEN @ ELSE s]

\* A row that leaves "claimed", or whose lease is renewed, is not expired for
\* anyone.
FreshLease(r) ==
  /\ expired' = expired \ {r}
  /\ past' = [w \in Workers |-> past[w] \ {r}]

CloseRow(r, q) ==
  /\ queue' = [queue EXCEPT ![r] = q]
  /\ FreshLease(r)
  /\ UNCHANGED <<by, attempt>>

Goto(w, label) == pc' = [pc EXCEPT ![w] = label]

\* execute_playbook_dispatch returns or raises; its locals are gone.
Leave(w, label) ==
  /\ pc' = [pc EXCEPT ![w] = label]
  /\ job' = [job EXCEPT ![w] = NoRun]
  /\ held' = [held EXCEPT ![w] = 0]
  /\ lost' = [lost EXCEPT ![w] = FALSE]
  /\ out' = [out EXCEPT ![w] = "none"]
  /\ escapes' = [escapes EXCEPT ![w] = FALSE]

\* A worker process that is executing the current claim of r.
Holds(w, r) ==
  /\ pc[w] \in Busy
  /\ job[w] = r
  /\ by[r] = w
  /\ pc[w] = "start" \/ held[w] = attempt[r]

Watched == {<<job[w], held[w]>> : w \in {v \in Workers : pc[v] = "exec"}}

-----------------------------------------------------------------------------
Init ==
  /\ status = [r \in Runs |-> "none"]
  /\ cancel = [r \in Runs |-> FALSE]
  /\ queue = [r \in Runs |-> "none"]
  /\ by = [r \in Runs |-> NoWorker]
  /\ attempt = [r \in Runs |-> 0]
  /\ expired = {}
  /\ past = [w \in Workers |-> {}]
  /\ pc = [w \in Workers |-> "idle"]
  /\ job = [w \in Workers |-> NoRun]
  /\ held = [w \in Workers |-> 0]
  /\ lost = [w \in Workers |-> FALSE]
  /\ out = [w \in Workers |-> "none"]
  /\ escapes = [w \in Workers |-> FALSE]
  /\ live = {}
  /\ stalls = 0
  /\ faults = 0

(***************************************************************************)
(* The web process.                                                        *)
(***************************************************************************)

\* prepare_playbook_run + enqueue_playbook_run_dispatch: the run and its row
\* are created in one transaction.
Enqueue(r) ==
  /\ queue[r] = "none"
  /\ \A x \in Runs : x < r => queue[x] # "none"
  /\ status' = [status EXCEPT ![r] = "pending"]
  /\ queue' = [queue EXCEPT ![r] = "queued"]
  /\ UNCHANGED <<cancel, by, attempt, leaseVars, workVars, live, budget>>

\* cancel_playbook_dispatch_for_run.  A queued row is closed on the spot; a
\* claimed one is only flagged, and the container of its current attempt is
\* removed after the commit if the Docker daemon answers.
Cancel(r) ==
  /\ queue[r] # "none"
  /\ cancel' = [cancel EXCEPT ![r] = TRUE]
  /\ \/ /\ queue[r] = "queued"
        /\ CloseRow(r, "canceled")
        /\ Settle(r, "cancelled")
     \/ /\ queue[r] # "queued"
        /\ UNCHANGED <<status, rowVars, leaseVars>>
  /\ \/ UNCHANGED live
     \/ r \in Container /\ live' = live \ {<<r, attempt[r]>>}
  /\ UNCHANGED <<workVars, budget>>

(***************************************************************************)
(* Time.                                                                   *)
(***************************************************************************)

LeaseEnds(r) ==
  /\ queue[r] = "claimed"
  /\ r \notin expired
  /\ expired' = expired \cup {r}
  /\ UNCHANGED <<runVars, rowVars, past, workVars, live, faults>>

\* Nobody renews the lease of a claim whose worker is gone.
AbandonedLeaseEnds(r) ==
  /\ \A w \in Workers : ~Holds(w, r)
  /\ LeaseEnds(r)
  /\ UNCHANGED stalls

\* A worker that is alive but stalled lets its lease run out.
Stall(r) ==
  /\ \E w \in Workers : Holds(w, r)
  /\ LeaseEnds(r)
  /\ stalls < MaxStalls
  /\ stalls' = stalls + 1

\* An execution nobody watches any more comes to its own end.
OrphanEnds(r, a) ==
  /\ <<r, a>> \in live \ Watched
  /\ live' = live \ {<<r, a>>}
  /\ UNCHANGED <<runVars, rowVars, leaseVars, workVars, budget>>

(***************************************************************************)
(* The worker's poll: recover expired rows, then claim the oldest.         *)
(***************************************************************************)

\* claim_next_playbook_dispatch reads the clock once, for the recovery and for
\* the count.  The recovery _run_once makes just before is this one with an
\* earlier "now".
ReadNow(w) ==
  /\ pc[w] = "idle"
  /\ past' = [past EXCEPT ![w] = {r \in expired : queue[r] = "claimed"}]
  /\ Goto(w, "poll")
  /\ UNCHANGED <<runVars, rowVars, expired, job, held, lost, out, escapes, live, budget>>

\* Wrong variant: the two vocabularies ("cancelled" runs, "canceled" rows) mixed.
MirrorVerbatim(s) == s

\* The status recovery gives the row of a run that is already finished.
Mirror(s) == CASE s = "cancelled" -> "canceled"
               [] s = "failed" -> "failed"
               [] OTHER -> "completed"

\* Wrong variant: the old attempt is never removed.
CleanupSkipped(r, gone) == gone /\ UNCHANGED live

\* cleanup_claim_runtime_job: TRUE when the old attempt's container is known
\* to be gone; FALSE when the daemon cannot tell.  An attempt that runs in no
\* container has nothing to remove and is always reported gone.
CleanupJob(r, gone) ==
  \/ r \in Container /\ live' = live \ {<<r, attempt[r]>>}
  \/ r \in Container /\ ~gone /\ UNCHANGED live
  \/ r \notin Container /\ gone /\ UNCHANGED live

\* Wrong variant: mutation_safe_to_retry is not looked at.
RequeueIfGone(r, gone) == gone

\* May the row go back to the queue?  Only a row enqueued as retry-safe whose
\* old runtime is confirmed gone.
MayRequeue(r, gone) == r \in RetrySafe /\ gone

Requeue(r) ==
  /\ queue' = [queue EXCEPT ![r] = "queued"]
  /\ by' = [by EXCEPT ![r] = NoWorker]
  /\ FreshLease(r)
  /\ status' = [status EXCEPT ![r] = "pending"]
  /\ UNCHANGED attempt

\* Wrong variant: a retry-safe row is requeued before anything else is asked.
RequeueFirst(r, gone) ==
  \/ MayRequeue(r, gone) /\ Requeue(r)
  \/ ~MayRequeue(r, gone) /\ CloseRow(r, "interrupted") /\ Settle(r, "failed")

\* Wrong variant: the cancellation is not looked at.
RequeueDespiteCancel(r, gone) ==
  \/ Settled(r) /\ CloseRow(r, Mirror(status[r])) /\ UNCHANGED status
  \/ ~Settled(r) /\ MayRequeue(r, gone) /\ Requeue(r)
  \/ /\ ~Settled(r) /\ ~MayRequeue(r, gone)
     /\ CloseRow(r, IF cancel[r] THEN "canceled" ELSE "interrupted")
     /\ Settle(r, IF cancel[r] THEN "cancelled" ELSE "failed")

\* One iteration, one transaction, of recover_expired_playbook_dispatches: the
\* row is locked and must still be claimed with a lease <= the captured now.
RecoverRow(r, gone) ==
  \/ /\ Settled(r)
     /\ CloseRow(r, Mirror(status[r]))
     /\ UNCHANGED status
  \/ /\ ~Settled(r) /\ cancel[r]
     /\ CloseRow(r, "canceled")
     /\ Settle(r, "cancelled")
  \/ /\ ~Settled(r) /\ ~cancel[r] /\ MayRequeue(r, gone)
     /\ Requeue(r)
  \/ /\ ~Settled(r) /\ ~cancel[r] /\ ~MayRequeue(r, gone)
     /\ CloseRow(r, "interrupted")
     /\ Settle(r, "failed")

Recover(w, r) ==
  /\ pc[w] = "poll"
  /\ r \in past[w]
  /\ \E gone \in BOOLEAN : CleanupJob(r, gone) /\ RecoverRow(r, gone)
  /\ UNCHANGED <<cancel, workVars, budget>>

\* Wrong variant: rows are counted while expired ones are still unrecovered.
SweptNever(w) == TRUE

\* The recovery has visited every row it listed before anything is counted.
Swept(w) == past[w] = {}

\* Claims the limits count: lease_expires_at > now.
Current(w) == {r \in Runs : queue[r] = "claimed" /\ r \notin past[w]}

Saturated(w, u) == Cardinality({r \in Current(w) : Owner[r] = u}) >= UserLimit

Candidates(w) ==
  {r \in Runs : /\ queue[r] = "queued"
                /\ status[r] = "pending"
                /\ ~cancel[r]
                /\ ~Saturated(w, Owner[r])}

\* claim_next_playbook_dispatch chooses r: there is room under the global
\* limit and r is the oldest candidate.
Chosen(w, r) ==
  /\ pc[w] = "poll"
  /\ Swept(w)
  /\ Cardinality(Current(w)) < GlobalLimit
  /\ r \in Candidates(w)
  /\ \A x \in Candidates(w) : r <= x

Claim(w, r) ==
  /\ Chosen(w, r)
  /\ queue' = [queue EXCEPT ![r] = "claimed"]
  /\ by' = [by EXCEPT ![r] = w]
  /\ attempt' = [attempt EXCEPT ![r] = @ + 1]
  /\ job' = [job EXCEPT ![w] = r]
  /\ Goto(w, "start")
  /\ UNCHANGED <<runVars, leaseVars, held, lost, out, escapes, live, budget>>

\* _targets_still_authorized is false: the row and the run fail together.
RejectTargets(w, r) ==
  /\ Chosen(w, r)
  /\ CloseRow(r, "failed")
  /\ Settle(r, "failed")
  /\ Leave(w, "idle")
  /\ UNCHANGED <<cancel, live, budget>>

NothingToClaim(w) ==
  /\ pc[w] = "poll"
  /\ Swept(w)
  /\ Cardinality(Current(w)) >= GlobalLimit \/ Candidates(w) = {}
  /\ Leave(w, "idle")
  /\ UNCHANGED <<runVars, rowVars, leaseVars, live, budget>>

(***************************************************************************)
(* execute_playbook_dispatch: the first reads.                             *)
(***************************************************************************)

\* The row is no longer this worker's live claim: PlaybookDispatchError.
StartRefused(w) ==
  /\ pc[w] = "start"
  /\ queue[job[w]] # "claimed" \/ by[job[w]] # w \/ job[w] \in expired
  /\ Leave(w, "idle")
  /\ UNCHANGED <<runVars, rowVars, leaseVars, live, budget>>

\* The fence is taken from the row as read, and so is cancel_requested.  A run
\* that is already cancelled is closed before the heartbeat thread starts.
Start(w) ==
  /\ pc[w] = "start"
  /\ queue[job[w]] = "claimed" /\ by[job[w]] = w /\ job[w] \notin expired
  /\ held' = [held EXCEPT ![w] = attempt[job[w]]]
  /\ IF cancel[job[w]]
     THEN Goto(w, "early") /\ out' = [out EXCEPT ![w] = "cancelled"]
     ELSE Goto(w, "prep") /\ UNCHANGED out
  /\ UNCHANGED <<runVars, rowVars, leaseVars, job, lost, escapes, live, budget>>

\* heartbeat_playbook_dispatch: the fence without the lease, so a heartbeat
\* revives a claim that has expired but was not recovered yet.
Heartbeat(w) ==
  /\ pc[w] \in Beating
  /\ IF queue[job[w]] = "claimed" /\ by[job[w]] = w /\ attempt[job[w]] = held[w]
     THEN FreshLease(job[w]) /\ UNCHANGED lost
     ELSE lost' = [lost EXCEPT ![w] = TRUE] /\ UNCHANGED leaseVars
  /\ UNCHANGED <<runVars, rowVars, pc, job, held, out, escapes, live, budget>>

(***************************************************************************)
(* execute_playbook_run: the runner inside the claim.                      *)
(***************************************************************************)

\* A precondition fails (targets, runtime digest, bundle, YAML): the runner
\* will save FAILED and return.
PrepareFails(w) ==
  /\ pc[w] = "prep"
  /\ out' = [out EXCEPT ![w] = "failed"]
  /\ Goto(w, "save")
  /\ UNCHANGED <<runVars, rowVars, leaseVars, job, held, lost, escapes, live, budget>>

\* _save_run(status=RUNNING).  Its result is ignored: the runner goes on
\* whether or not the write was accepted.
SaveRunning(w) ==
  /\ pc[w] = "prep"
  /\ IF OwnsClaim(w)
     THEN /\ status' = [status EXCEPT ![job[w]] = IF Settled(job[w]) THEN @ ELSE "running"]
          /\ UNCHANGED lost
     ELSE Refused(w) /\ UNCHANGED status
  /\ Goto(w, "ready")
  /\ UNCHANGED <<cancel, rowVars, leaseVars, job, held, out, escapes, live, budget>>

\* _should_cancel: the user's flag, or a claim that is no longer owned.
ShouldCancel(w) == cancel[job[w]] \/ ~OwnsClaim(w)

\* _is_cancelled is asked first and spares the lease probe when it is true.
NoteCancel(w) == IF cancel[job[w]] THEN UNCHANGED lost ELSE Probe(w)

\* The last check before a command or a container is started ...
CheckBeforeLaunch(w) ==
  /\ pc[w] = "ready"
  /\ NoteCancel(w)
  /\ IF ShouldCancel(w)
     THEN Goto(w, "save") /\ out' = [out EXCEPT ![w] = "cancelled"]
     ELSE Goto(w, "launch") /\ UNCHANGED out
  /\ UNCHANGED <<runVars, rowVars, leaseVars, job, held, escapes, live, budget>>

\* ... and the start itself, which nothing fences.
Launch(w) ==
  /\ pc[w] = "launch"
  /\ live' = live \cup {<<job[w], held[w]>>}
  /\ Goto(w, "exec")
  /\ UNCHANGED <<runVars, rowVars, leaseVars, job, held, lost, out, escapes, budget>>

Without(w) == live \ {<<job[w], held[w]>>}

\* The cancel probe of _stream_command: the client is terminated and the
\* container removed, if the daemon answers.  A shell command is not interruptible and has no such probe.
StopExecution(w) ==
  /\ pc[w] = "exec"
  /\ job[w] \in Container
  /\ ShouldCancel(w)
  /\ NoteCancel(w)
  /\ live' \in {live, Without(w)}
  /\ out' = [out EXCEPT ![w] = "cancelled"]
  /\ Goto(w, "save")
  /\ UNCHANGED <<runVars, rowVars, leaseVars, job, held, escapes, budget>>

\* The execution ends by itself, on its timeout (what runs remotely may then
\* outlive it), or because its container was removed under it; then the
\* status is chosen.
ExecutionEnds(w, s) ==
  /\ pc[w] = "exec"
  /\ s \in {"completed", "partial", "failed"}
  /\ s # "failed" => <<job[w], held[w]>> \in live
  /\ IF s = "failed" THEN live' \in {live, Without(w)} ELSE live' = Without(w)
  /\ NoteCancel(w)
  /\ out' = [out EXCEPT ![w] = IF ShouldCancel(w) THEN "cancelled" ELSE s]
  /\ Goto(w, "save")
  /\ UNCHANGED <<runVars, rowVars, leaseVars, job, held, escapes, budget>>

\* The shell engine goes on to its next command, behind a new check.
NextCommand(w) ==
  /\ pc[w] = "exec"
  /\ job[w] \notin Container
  /\ live' = Without(w)
  /\ Goto(w, "ready")
  /\ UNCHANGED <<runVars, rowVars, leaseVars, job, held, lost, out, escapes, budget>>

\* Wrong variant: the outcome is saved without a fence.
SaveUnfenced(w) ==
  /\ pc[w] = "save"
  /\ Settle(job[w], out[w])
  /\ out' = [out EXCEPT ![w] = "none"]
  /\ Goto(w, "post")
  /\ UNCHANGED <<cancel, rowVars, leaseVars, job, held, lost, escapes, live, budget>>

\* _save_run with a terminal status: a fenced transition_playbook_run.
SaveOutcome(w) ==
  /\ pc[w] = "save"
  /\ IF OwnsClaim(w)
     THEN Settle(job[w], out[w]) /\ UNCHANGED lost
     ELSE Refused(w) /\ UNCHANGED status
  /\ out' = [out EXCEPT ![w] = "none"]
  /\ Goto(w, "post")
  /\ UNCHANGED <<cancel, rowVars, leaseVars, job, held, escapes, live, budget>>

(***************************************************************************)
(* execute_playbook_dispatch: finalization.                                *)
(***************************************************************************)

\* The runner returned ("post") or raised ("except"): a worker that no longer
\* owns its claim stops here and leaves the row to the recovery.
CheckClaim(w) ==
  /\ pc[w] \in {"post", "except"}
  /\ IF OwnsClaim(w)
     THEN Goto(w, "read") /\ UNCHANGED <<job, held, lost, out, escapes>>
     ELSE Leave(w, "idle")
  /\ UNCHANGED <<runVars, rowVars, leaseVars, live, budget>>

\* Wrong variant: an unfinished run is taken for a cancelled one.
ReadRunGuesses(w) ==
  /\ pc[w] = "read"
  /\ Goto(w, IF Settled(job[w]) THEN "fin" ELSE "patch")
  /\ out' = [out EXCEPT ![w] = IF Settled(job[w]) THEN status[job[w]] ELSE "cancelled"]
  /\ UNCHANGED <<runVars, rowVars, leaseVars, job, held, lost, escapes, live, budget>>

\* The run is read again, outside any transaction, and decides what is
\* written: on the normal path its own terminal status or a fallback, on the
\* exception path a failure unless a cancellation is pending.
ReadRun(w) ==
  /\ pc[w] = "read"
  /\ \/ /\ Settled(job[w])
        /\ Goto(w, "fin")
        /\ out' = [out EXCEPT ![w] = IF escapes[w] THEN "failed" ELSE status[job[w]]]
     \/ /\ ~Settled(job[w]) /\ cancel[job[w]]
        /\ Goto(w, IF escapes[w] THEN "fin" ELSE "patch")
        /\ out' = [out EXCEPT ![w] = "cancelled"]
     \/ /\ ~Settled(job[w]) /\ ~cancel[job[w]]
        /\ Goto(w, "patch")
        /\ out' = [out EXCEPT ![w] = "failed"]
  /\ UNCHANGED <<runVars, rowVars, leaseVars, job, held, lost, escapes, live, budget>>

\* Wrong variant: the result of the fenced write is ignored.
FallbackUnchecked(w) ==
  /\ pc[w] = "patch"
  /\ IF FenceOwned(w) THEN Settle(job[w], out[w]) ELSE UNCHANGED status
  /\ Goto(w, "fin")
  /\ UNCHANGED <<cancel, rowVars, leaseVars, job, held, lost, out, escapes, live, budget>>

\* _persist_run of the fallback status; a refused write abandons the row.
PersistFallback(w) ==
  /\ pc[w] = "patch"
  /\ IF FenceOwned(w) /\ ~Settled(job[w])
     THEN /\ Settle(job[w], out[w])
          /\ Goto(w, "fin")
          /\ UNCHANGED <<job, held, lost, out, escapes>>
     ELSE Leave(w, "idle") /\ UNCHANGED status
  /\ UNCHANGED <<cancel, rowVars, leaseVars, live, budget>>

\* _finish_canceled_dispatch: fully fenced, lease included.
FinishCanceled(w) ==
  /\ pc[w] \in {"early", "fin"}
  /\ out[w] = "cancelled"
  /\ IF FenceOwned(w)
     THEN CloseRow(job[w], "canceled") /\ Settle(job[w], "cancelled")
     ELSE UNCHANGED <<status, rowVars, leaseVars>>
  /\ Leave(w, "idle")
  /\ UNCHANGED <<cancel, live, budget>>

\* The guards of complete_ and fail_playbook_dispatch.  Neither asks that the
\* row is still claimed or its lease alive, and a blank claimed_by matches.
MayClose(w, refusing) ==
  /\ queue[job[w]] \notin refusing
  /\ by[job[w]] \in {NoWorker, w}
  /\ attempt[job[w]] = held[w]

Complete(w) ==
  /\ pc[w] = "fin"
  /\ out[w] \in {"completed", "partial"}
  /\ IF MayClose(w, {"canceled", "interrupted", "failed"})
     THEN CloseRow(job[w], "completed")
     ELSE UNCHANGED <<rowVars, leaseVars>>
  /\ Leave(w, "idle")
  /\ UNCHANGED <<runVars, live, budget>>

Fail(w) ==
  /\ pc[w] = "fin"
  /\ out[w] = "failed"
  /\ IF MayClose(w, {"canceled", "interrupted", "completed"})
     THEN CloseRow(job[w], "failed")
     ELSE UNCHANGED <<rowVars, leaseVars>>
  /\ Leave(w, "idle")
  /\ UNCHANGED <<runVars, live, budget>>

(***************************************************************************)
(* Faults.                                                                 *)
(***************************************************************************)

Fault == faults < MaxFaults /\ faults' = faults + 1

\* A database or workdir error.  Before the try block, and inside its handler,
\* it leaves execute_playbook_dispatch; otherwise the handler runs.
Raise(w) ==
  /\ Fault
  /\ \/ /\ pc[w] \in {"prep", "ready", "save", "post", "read", "patch", "fin"}
        /\ ~escapes[w]
        /\ Goto(w, "except")
        /\ escapes' = [escapes EXCEPT ![w] = TRUE]
        /\ out' = [out EXCEPT ![w] = "none"]
        /\ UNCHANGED <<job, held, lost>>
     \/ /\ pc[w] \in {"start", "early"} \/ escapes[w]
        /\ Leave(w, "idle")
  /\ UNCHANGED <<runVars, rowVars, leaseVars, live, stalls>>

\* SIGTERM (the shutdown event is seen by the next probe), or a probe that
\* cannot reach the database and therefore counts as a lost lease.
LoseLease(w) ==
  /\ Fault
  /\ pc[w] \in Beating
  /\ ~lost[w]
  /\ lost' = [lost EXCEPT ![w] = TRUE]
  /\ UNCHANGED <<runVars, rowVars, leaseVars, pc, job, held, out, escapes, live, stalls>>

\* The process dies; what it started remotely lives on.
Crash(w) ==
  /\ Fault
  /\ pc[w] # "down"
  /\ Leave(w, "down")
  /\ UNCHANGED <<runVars, rowVars, leaseVars, live, stalls>>

\* The supervisor restarts it.  scavenge_ansible_workdirs then removes old
\* containers, none of which a worker still watches (the TTL exceeds the
\* execution timeout).
Restart(w) ==
  /\ pc[w] = "down"
  /\ Goto(w, "idle")
  /\ \E old \in SUBSET {j \in live \ Watched : j[1] \in Container} : live' = live \ old
  /\ past' = [past EXCEPT ![w] = {}]
  /\ UNCHANGED <<runVars, rowVars, expired, job, held, lost, out, escapes, budget>>

-----------------------------------------------------------------------------
Claiming(w) ==
  \/ NothingToClaim(w)
  \/ \E r \in Runs : Recover(w, r) \/ Claim(w, r) \/ RejectTargets(w, r)

Running(w) ==
  \/ PrepareFails(w) \/ SaveRunning(w) \/ CheckBeforeLaunch(w) \/ Launch(w)
  \/ StopExecution(w) \/ NextCommand(w)
  \/ \E s \in Terminal : ExecutionEnds(w, s)
  \/ SaveOutcome(w)

Finalizing(w) ==
  \/ CheckClaim(w) \/ ReadRun(w) \/ PersistFallback(w)
  \/ FinishCanceled(w) \/ Complete(w) \/ Fail(w)

Step(w) ==
  ReadNow(w) \/ Claiming(w) \/ StartRefused(w) \/ Start(w) \/ Running(w) \/ Finalizing(w)

Next ==
  \/ \E r \in Runs : Enqueue(r) \/ Cancel(r) \/ AbandonedLeaseEnds(r) \/ Stall(r)
  \/ \E j \in live : OrphanEnds(j[1], j[2])
  \/ \E w \in Workers :
       Step(w) \/ Heartbeat(w) \/ Raise(w) \/ LoseLease(w) \/ Crash(w) \/ Restart(w)

Spec == Init /\ [][Next]_vars

\* Worker loops keep running and are restarted by their supervisor, time
\* passes for a lease nobody renews, and an execution ends (a playbook has
\* finitely many commands, each with a timeout).
Fairness ==
  /\ \A w \in Workers :
       /\ WF_vars(Step(w))
       /\ WF_vars(Restart(w))
       /\ SF_vars(\E s \in Terminal : ExecutionEnds(w, s))
  /\ \A r \in Runs : WF_vars(AbandonedLeaseEnds(r))

FairSpec == Spec /\ Fairness

-----------------------------------------------------------------------------
Labels == Busy \cup {"idle", "poll", "down"}

\* Every variable has its type, and a busy worker has a run.
TypeOK ==
  /\ status \in [Runs -> Terminal \cup {"none", "pending", "running"}]
  /\ cancel \in [Runs -> BOOLEAN]
  /\ queue \in [Runs -> Active \cup Closed \cup {"none"}]
  /\ by \in [Runs -> Workers \cup {NoWorker}]
  /\ attempt \in [Runs -> Nat]
  /\ expired \subseteq Runs
  /\ past \in [Workers -> SUBSET Runs]
  /\ pc \in [Workers -> Labels]
  /\ job \in [Workers -> Runs \cup {NoRun}]
  /\ \A w \in Workers : pc[w] \in Busy => job[w] \in Runs
  /\ held \in [Workers -> Nat]
  /\ lost \in [Workers -> BOOLEAN]
  /\ out \in [Workers -> Terminal \cup {"none"}]
  /\ escapes \in [Workers -> BOOLEAN]
  /\ live \subseteq Runs \X Nat
  /\ stalls \in 0 .. MaxStalls
  /\ faults \in 0 .. MaxFaults

Claims == {r \in Runs : queue[r] = "claimed"}

\* However many workers poll at the same moment, with clocks read before the
\* lock, the claimed rows never exceed the cluster-wide limit, nor those of
\* one user the per-user limit (claim_next_playbook_dispatch: "prevents two
\* workers exceeding the cap").
ConcurrencyCaps ==
  /\ Cardinality(Claims) <= GlobalLimit
  /\ \A u \in Users : Cardinality({r \in Claims : Owner[r] = u}) <= UserLimit

\* A row in the queue can still be claimed: its run is pending, not asked to
\* cancel, and no worker's name is left on it.  Otherwise neither the claim
\* nor the recovery would ever look at it again.
QueuedIsClaimable ==
  \A r \in Runs : queue[r] = "queued" =>
    status[r] = "pending" /\ ~cancel[r] /\ by[r] = NoWorker

\* The row and the run are written by different transactions of different
\* processes, yet a closed row never claims an outcome its run does not have:
\* a row is closed only over a finished run, and completed, canceled and
\* interrupted rows name the run's own outcome.  ("failed" is weaker: an error
\* raised after a run was saved fails the row whatever the run says.)
RowsAgree ==
  \A r \in Runs :
    /\ queue[r] \in Closed => Settled(r)
    /\ queue[r] = "completed" => status[r] \in {"completed", "partial"}
    /\ queue[r] = "canceled" => status[r] = "cancelled"
    /\ queue[r] = "interrupted" => status[r] = "failed"

\* A run is cancelled only because somebody asked, never because a worker
\* lost its lease (both end the execution through the same _should_cancel).
CancelledOnRequest == \A r \in Runs : status[r] = "cancelled" => cancel[r]

\* An execution that was not declared retry-safe is never started twice, over
\* any sequence of crashes, stalls and recoveries.
NoReplay == \A r \in Runs \ RetrySafe : attempt[r] <= 1

\* The container of an old attempt is gone before a new attempt starts one.
OneContainer ==
  \A r \in Container : Cardinality({j \in live : j[1] = r}) <= 1

\* As long as no worker that is alive lets its lease run out, whatever else
\* crashes: recovery removes the container before the row is requeued.
OneContainerUnlessStalled == stalls = 0 => OneContainer

\* An outcome is final: not even the unconditional reset to "pending" of the
\* recovery overwrites it.
OutcomeIsFinal == [][\A r \in Runs : Settled(r) => status'[r] = status[r]]_vars

\* Success is reported only by the attempt that holds the claim at that very
\* moment, with its lease alive: a worker that was given up for dead cannot
\* report for its successor.
OutcomeFromHolder ==
  [][\A r \in Runs :
       status'[r] # status[r] /\ status'[r] \in {"completed", "partial"} =>
         /\ queue[r] = "claimed" /\ r \notin expired
         /\ \E w \in Workers : /\ pc[w] = "save" /\ job[w] = r /\ by[r] = w
                               /\ held[w] = attempt[r] /\ out[w] = status'[r]]_vars

\* Every accepted run is finished and its row closed, through any bounded
\* number of crashes, stalls, errors and lost leases.
EveryRunFinishes ==
  \A r \in Runs : queue[r] # "none" ~> Settled(r) /\ queue[r] \in Closed

Promise == INSTANCE PlaybookRunPromise WITH
  outcome <- [r \in Runs |-> IF status[r] \in {"pending", "running"} THEN "open" ELSE status[r]],
  asked <- cancel,
  starts <- attempt

\* The queue keeps what PlaybookRunPromise promises about every run.
KeepsPromise == Promise!Spec

-----------------------------------------------------------------------------
(***************************************************************************)
(* The inductive invariant behind the safety properties.                   *)
(***************************************************************************)

\* What a run and its row say of each other while the row is open.
RowShape ==
  \A r \in Runs :
    /\ queue[r] = "none" <=> status[r] = "none"
    /\ queue[r] = "none" => ~cancel[r] /\ by[r] = NoWorker
    /\ queue[r] = "claimed" => by[r] \in Workers /\ attempt[r] > 0
    /\ r \notin RetrySafe /\ queue[r] \in {"none", "queued"} => attempt[r] = 0
    /\ status[r] \in {"completed", "partial"} => attempt[r] > 0

\* Only claimed rows have a lease, and what a poll saw expired still is.
LeaseShape ==
  /\ expired \subseteq Claims
  /\ \A w \in Workers : past[w] \subseteq expired

\* What a worker may rely on although it holds no lock: complete_ and
\* fail_playbook_dispatch are reached only over a finished run, which nothing
\* reopens, and nobody else finishes a run whose row is claimed by this worker.
WorkerFact(w) ==
  LET r == job[w]
      mine == queue[r] = "claimed" /\ by[r] = w
  IN /\ pc[w] = "start" /\ mine => ~Settled(r)
     /\ pc[w] = "save" => out[w] # "none" /\ (out[w] = "cancelled" => cancel[r] \/ lost[w])
     /\ pc[w] = "patch" => out[w] \in {"failed", "cancelled"}
     /\ pc[w] \in {"patch", "early", "fin"} /\ out[w] = "cancelled" => cancel[r]
     /\ pc[w] \in {"early", "fin"} /\ out[w] = "cancelled" /\ mine =>
          status[r] \notin {"completed", "failed", "partial"}
     /\ pc[w] = "fin" /\ out[w] \in {"completed", "partial"} => status[r] = out[w]
     /\ pc[w] = "fin" /\ out[w] = "failed" => Settled(r)

WorkerShape == \A w \in Workers : WorkerFact(w)

SafetyInv ==
  /\ TypeOK
  /\ RowShape
  /\ LeaseShape
  /\ WorkerShape
  /\ QueuedIsClaimable
  /\ RowsAgree
  /\ CancelledOnRequest
  /\ NoReplay

\* While no live worker has let its lease run out, every worker that executes a
\* run still holds its claim, lease included ...
ClaimsAreHeld ==
  \A w \in Workers : pc[w] \in Busy => Holds(w, job[w]) /\ job[w] \notin expired

\* ... and a container that is alive belongs to the attempt its row counts, which
\* is not waiting in the queue for its next one.
ContainersAreCurrent ==
  \A j \in live :
    j[1] \in Container => j[2] = attempt[j[1]] /\ queue[j[1]] \notin {"none", "queued"}

ContainerInv == SafetyInv /\ (stalls = 0 => ClaimsAreHeld /\ ContainersAreCurrent)
=============================================================================
