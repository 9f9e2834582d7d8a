----------------------------- MODULE AtomicClaim -----------------------------
(***************************************************************************)
(* What a claimant of the playbook queue may rely on, whatever statements, *)
(* locks and snapshots claim_next_playbook_dispatch is made of: to count   *)
(* the claims, to choose a row and to claim it is one step.                *)
(*   - a claim is made only while there is room under the limit;           *)
(*   - rows that have never been claimed are claimed in the order of their *)
(*     ids: none is overtaken by a younger one.                            *)
(* A row that recovery has put back in the queue may be overtaken, by a    *)
(* claimant that looked for its candidate before.                          *)
(***************************************************************************)
EXTENDS Naturals, FiniteSets

CONSTANTS Rows, Limit

VARIABLES
  row,    \* "none", "queued", "claimed" or "closed"
  tried   \* rows that have been claimed before

vars == <<row, tried>>

Claimed == {r \in Rows : row[r] = "claimed"}

\* Queued for the first time.
Fresh == {r \in Rows : row[r] = "queued"} \ tried

Init ==
  /\ row = [r \in Rows |-> "none"]
  /\ tried = {}

Arrive(r) ==
  /\ row[r] = "none"
  /\ \A x \in Rows : x < r => row[x] # "none"
  /\ row' = [row EXCEPT ![r] = "queued"]
  /\ UNCHANGED tried

Claim(r) ==
  /\ row[r] = "queued"
  /\ \A x \in Fresh : r <= x
  /\ Cardinality(Claimed) < Limit
  /\ row' = [row EXCEPT ![r] = "claimed"]
  /\ tried' = tried \cup {r}

Requeue(r) ==
  /\ row[r] = "claimed"
  /\ row' = [row EXCEPT ![r] = "queued"]
  /\ UNCHANGED tried

\* Finished, cancelled, interrupted, or refused by the claimant.
Close(r) ==
  /\ row[r] \in {"queued", "claimed"}
  /\ row' = [row EXCEPT ![r] = "closed"]
  /\ UNCHANGED tried

Next == \E r \in Rows : Arrive(r) \/ Claim(r) \/ Requeue(r) \/ Close(r)

Spec == Init /\ [][Next]_vars
=============================================================================
