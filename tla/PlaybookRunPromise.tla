-------------------------- MODULE PlaybookRunPromise --------------------------
(***************************************************************************)
(* What the playbook queue promises about every run, whatever workers,     *)
(* leases and recoveries do underneath.  A run is accepted once, may be    *)
(* started (again only if it was declared retry-safe), may be asked to     *)
(* stop, and is settled exactly once:                                      *)
(*   - no start follows the request to cancel, nor the outcome;            *)
(*   - a run that was never started can only fail or be cancelled;         *)
(*   - "cancelled" is the answer to a request, never the system's own idea;*)
(*   - every accepted run is settled in the end.                           *)
(***************************************************************************)
EXTENDS Naturals

CONSTANTS Runs, RetrySafe

VARIABLES
  outcome,  \* "none", "open", or the status the run was settled with
  asked,    \* cancellation has been requested
  starts    \* how often an execution of the run was started

vars == <<outcome, asked, starts>>

Init ==
  /\ outcome = [r \in Runs |-> "none"]
  /\ asked = [r \in Runs |-> FALSE]
  /\ starts = [r \in Runs |-> 0]

Accept(r) ==
  /\ outcome[r] = "none"
  /\ outcome' = [outcome EXCEPT ![r] = "open"]
  /\ UNCHANGED <<asked, starts>>

Begin(r) ==
  /\ outcome[r] = "open"
  /\ ~asked[r]
  /\ starts[r] = 0 \/ r \in RetrySafe
  /\ starts' = [starts EXCEPT ![r] = @ + 1]
  /\ UNCHANGED <<outcome, asked>>

Ask(r) ==
  /\ outcome[r] # "none"
  /\ asked' = [asked EXCEPT ![r] = TRUE]
  /\ UNCHANGED <<outcome, starts>>

\* A run that has not been started yet is cancelled by the request itself.
AskAndCancel(r) ==
  /\ outcome[r] = "open"
  /\ asked' = [asked EXCEPT ![r] = TRUE]
  /\ outcome' = [outcome EXCEPT ![r] = "cancelled"]
  /\ UNCHANGED starts

Answers(r) ==
  {"failed"} \cup (IF asked[r] THEN {"cancelled"} ELSE {})
             \cup (IF starts[r] > 0 THEN {"completed", "partial"} ELSE {})

Resolve(r) ==
  /\ outcome[r] = "open"
  /\ \E s \in Answers(r) : outcome' = [outcome EXCEPT ![r] = s]
  /\ UNCHANGED <<asked, starts>>

Next == \E r \in Runs :
  Accept(r) \/ Begin(r) \/ Ask(r) \/ AskAndCancel(r) \/ Resolve(r)

Safe == Init /\ [][Next]_vars

Spec == Safe /\ \A r \in Runs : WF_vars(Resolve(r))
=============================================================================
