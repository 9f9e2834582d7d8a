-------------------------- MODULE ClaimTransaction --------------------------
(***************************************************************************)
(* The inside of the transaction of claim_next_playbook_dispatch           *)
(* (servers/playbook_dispatch.py), which PlaybookDispatch takes as one     *)
(* step.  PostgreSQL runs it statement by statement under READ COMMITTED:  *)
(* it locks the oldest active row, counts the claims, locks the oldest     *)
(* candidate and writes.  What makes the count exact is only the first row *)
(* lock, taken by every claimant.                                          *)
(*                                                                         *)
(* Every statement sees what is committed when it begins.  SELECT ... FOR  *)
(* UPDATE then walks the rows it saw, waits for each one's lock and passes *)
(* over the rows that have changed away meanwhile.  The id of a new row is *)
(* drawn from a sequence when it is inserted, not when it is committed.    *)
(***************************************************************************)
EXTENDS Naturals, FiniteSets

CONSTANTS
  Rows,            \* dispatch rows, named by their ids
  Workers,         \* claimants
  Limit,           \* PLAYBOOK_EXECUTION_GLOBAL_CONCURRENCY
  CommitsInOrder,  \* do inserts commit in the order of their ids?
  NoWorker, NoRow

ASSUME RowsAssumption == Rows \subseteq Nat /\ IsFiniteSet(Rows)
ASSUME LimitAssumption == Limit \in Nat \ {0} /\ CommitsInOrder \in BOOLEAN
ASSUME NullAssumption == NoWorker \notin Workers /\ NoRow \notin Rows

VARIABLES
  row,     \* PlaybookRunDispatch.status as committed
  tried,   \* rows with attempt_count > 0
  holder,  \* the claimant whose transaction has the row locked
  pc,      \* the statement a claimant has come to
  seen,    \* the rows its running SELECT ... FOR UPDATE has still to try
  guard,   \* the oldest active row, locked
  choice   \* the candidate, locked

vars == <<row, tried, holder, pc, seen, guard, choice>>

Active == {r \in Rows : row[r] \in {"queued", "claimed"}}
Claimed == {r \in Rows : row[r] = "claimed"}
Queued == {r \in Rows : row[r] = "queued"}

Oldest(S, r) == r \in S /\ \A x \in S : r <= x

Goto(w, label) == pc' = [pc EXCEPT ![w] = label]

\* The transaction is over, whichever way: its locks are gone.
EndTransaction(w) ==
  /\ holder' = [r \in Rows |-> IF holder[r] = w THEN NoWorker ELSE holder[r]]
  /\ seen' = [seen EXCEPT ![w] = {}]
  /\ guard' = [guard EXCEPT ![w] = NoRow]
  /\ choice' = [choice EXCEPT ![w] = NoRow]
  /\ Goto(w, "idle")

Init ==
  /\ row = [r \in Rows |-> "none"]
  /\ tried = {}
  /\ holder = [r \in Rows |-> NoWorker]
  /\ pc = [w \in Workers |-> "idle"]
  /\ seen = [w \in Workers |-> {}]
  /\ guard = [w \in Workers |-> NoRow]
  /\ choice = [w \in Workers |-> NoRow]

(***************************************************************************)
(* Everybody else's transactions, on rows no claimant has locked.          *)
(***************************************************************************)

\* prepare_playbook_run inserts the row in a transaction it still goes on with.
Insert(r) ==
  /\ row[r] = "none"
  /\ \A x \in Rows : x < r => row[x] # "none"
  /\ row' = [row EXCEPT ![r] = "inserted"]
  /\ UNCHANGED <<tried, holder, pc, seen, guard, choice>>

CommitInsert(r) ==
  /\ row[r] = "inserted"
  /\ CommitsInOrder => \A x \in Rows : x < r => row[x] # "inserted"
  /\ row' = [row EXCEPT ![r] = "queued"]
  /\ UNCHANGED <<tried, holder, pc, seen, guard, choice>>

\* Completion, failure, cancellation or interruption of a row.
Close(r) ==
  /\ r \in Active
  /\ holder[r] = NoWorker
  /\ row' = [row EXCEPT ![r] = "closed"]
  /\ UNCHANGED <<tried, holder, pc, seen, guard, choice>>

\* The recovery of an expired, retry-safe claim.
Requeue(r) ==
  /\ r \in Claimed
  /\ holder[r] = NoWorker
  /\ row' = [row EXCEPT ![r] = "queued"]
  /\ UNCHANGED <<tried, holder, pc, seen, guard, choice>>

(***************************************************************************)
(* claim_next_playbook_dispatch.                                           *)
(***************************************************************************)

\* active.order_by("id").first() begins: its rows are those committed by now.
BeginTransaction(w) ==
  /\ pc[w] = "idle"
  /\ seen' = [seen EXCEPT ![w] = Active]
  /\ Goto(w, "lock")
  /\ UNCHANGED <<row, tried, holder, guard, choice>>

\* Wrong variant: a claimant is content with any active row.
LockAny(w) ==
  /\ pc[w] = "lock"
  /\ \E r \in seen[w] \cap Active :
       /\ holder[r] = NoWorker
       /\ holder' = [holder EXCEPT ![r] = w]
       /\ guard' = [guard EXCEPT ![w] = r]
  /\ Goto(w, "count")
  /\ UNCHANGED <<row, tried, seen, choice>>

\* It waits for the lock of the oldest and passes over rows closed meanwhile.
LockOldest(w) ==
  /\ pc[w] = "lock"
  /\ \E r \in seen[w] :
       /\ Oldest(seen[w], r)
       /\ holder[r] = NoWorker
       /\ \/ /\ r \in Active
             /\ holder' = [holder EXCEPT ![r] = w]
             /\ guard' = [guard EXCEPT ![w] = r]
             /\ Goto(w, "count")
             /\ UNCHANGED seen
          \/ /\ r \notin Active
             /\ seen' = [seen EXCEPT ![w] = @ \ {r}]
             /\ UNCHANGED <<holder, guard, pc>>
  /\ UNCHANGED <<row, tried, choice>>

NothingActive(w) ==
  /\ pc[w] = "lock"
  /\ seen[w] = {}
  /\ EndTransaction(w)
  /\ UNCHANGED <<row, tried>>

\* The claims are counted, and the query for the oldest candidate begins.
Count(w) ==
  /\ pc[w] = "count"
  /\ IF Cardinality(Claimed) >= Limit
     THEN EndTransaction(w)
     ELSE /\ seen' = [seen EXCEPT ![w] = Queued]
          /\ Goto(w, "choose")
          /\ UNCHANGED <<holder, guard, choice>>
  /\ UNCHANGED <<row, tried>>

\* Wrong variant: the candidate is read without FOR UPDATE.
ChooseUnlocked(w) ==
  /\ pc[w] = "choose"
  /\ \E r \in seen[w] : Oldest(seen[w], r) /\ choice' = [choice EXCEPT ![w] = r]
  /\ Goto(w, "write")
  /\ UNCHANGED <<row, tried, holder, seen, guard>>

\* Wrong variant: the candidates are not ordered.
LockAnyCandidate(w) ==
  /\ pc[w] = "choose"
  /\ \E r \in seen[w] \cap Queued :
       /\ holder[r] \in {NoWorker, w}
       /\ holder' = [holder EXCEPT ![r] = w]
       /\ choice' = [choice EXCEPT ![w] = r]
  /\ Goto(w, "write")
  /\ UNCHANGED <<row, tried, seen, guard>>

\* candidates.first(): the oldest row that is still queued once it is locked.
LockCandidate(w) ==
  /\ pc[w] = "choose"
  /\ \E r \in seen[w] :
       /\ Oldest(seen[w], r)
       /\ holder[r] \in {NoWorker, w}
       /\ \/ /\ r \in Queued
             /\ holder' = [holder EXCEPT ![r] = w]
             /\ choice' = [choice EXCEPT ![w] = r]
             /\ Goto(w, "write")
             /\ UNCHANGED seen
          \/ /\ r \notin Queued
             /\ seen' = [seen EXCEPT ![w] = @ \ {r}]
             /\ UNCHANGED <<holder, choice, pc>>
  /\ UNCHANGED <<row, tried, guard>>

NoCandidate(w) ==
  /\ pc[w] = "choose"
  /\ seen[w] = {}
  /\ EndTransaction(w)
  /\ UNCHANGED <<row, tried>>

\* The candidate is claimed, or failed when its targets changed, and committed.
Commit(w) ==
  /\ pc[w] = "write"
  /\ \/ row' = [row EXCEPT ![choice[w]] = "claimed"] /\ tried' = tried \cup {choice[w]}
     \/ row' = [row EXCEPT ![choice[w]] = "closed"] /\ UNCHANGED tried
  /\ EndTransaction(w)

\* The claimant dies or its statement fails.
Rollback(w) ==
  /\ pc[w] # "idle"
  /\ EndTransaction(w)
  /\ UNCHANGED <<row, tried>>

-----------------------------------------------------------------------------
Next ==
  \/ \E r \in Rows : Insert(r) \/ CommitInsert(r) \/ Close(r) \/ Requeue(r)
  \/ \E w \in Workers :
       \/ BeginTransaction(w) \/ LockOldest(w) \/ NothingActive(w) \/ Count(w)
       \/ LockCandidate(w) \/ NoCandidate(w) \/ Commit(w) \/ Rollback(w)

Spec == Init /\ [][Next]_vars

-----------------------------------------------------------------------------
Deciding == {"count", "choose", "write"}

\* Every variable has its type, and a claimant that decides has its row locked.
TypeOK ==
  /\ row \in [Rows -> {"none", "inserted", "queued", "claimed", "closed"}]
  /\ tried \subseteq Rows
  /\ holder \in [Rows -> Workers \cup {NoWorker}]
  /\ pc \in [Workers -> Deciding \cup {"idle", "lock"}]
  /\ seen \in [Workers -> SUBSET Rows]
  /\ guard \in [Workers -> Rows \cup {NoRow}]
  /\ choice \in [Workers -> Rows \cup {NoRow}]
  /\ \A w \in Workers : pc[w] \in Deciding =>
       guard[w] \in Active /\ holder[guard[w]] = w
  /\ \A w \in Workers : pc[w] = "write" =>
       choice[w] \in Queued /\ holder[choice[w]] = w

\* Never do two claimants count and claim at the same time ("this serializes
\* the count-and-claim decision").
OneDecides ==
  \A v, w \in Workers : pc[v] \in Deciding /\ pc[w] \in Deciding => v = w

\* The claims never exceed the limit ("prevents two workers exceeding the
\* cap").
CapHolds == Cardinality(Claimed) <= Limit

Atomic == INSTANCE AtomicClaim WITH
  row <- [r \in Rows |-> IF row[r] = "inserted" THEN "none" ELSE row[r]]

\* Statements, locks and snapshots taken together, the claim is one step: it
\* counts, chooses and writes as AtomicClaim says, under the limit and in order.
ClaimsAtomically == Atomic!Spec

-----------------------------------------------------------------------------
(***************************************************************************)
(* The inductive invariant, which needs CommitsInOrder.                    *)
(***************************************************************************)

\* What is committed, and what has been inserted, has no gap below it.
InOrder ==
  \A x, y \in Rows : x < y =>
    /\ row[y] # "none" => row[x] # "none"
    /\ row[y] \notin {"none", "inserted"} => row[x] \notin {"none", "inserted"}

\* What a claimant searches is committed, and it misses no older active row.
SearchIsComplete ==
  \A w \in Workers : pc[w] = "lock" =>
    \A y \in seen[w] :
      /\ row[y] \notin {"none", "inserted"}
      /\ \A x \in Active : x < y => x \in seen[w]

\* The locked row is the oldest active one there is.
GuardIsOldest ==
  \A w \in Workers : pc[w] \in Deciding => \A r \in Active : guard[w] <= r

\* There is room for the claim that is about to be written.
RoomLeft ==
  \A w \in Workers : pc[w] \in {"choose", "write"} => Cardinality(Claimed) < Limit

LockInv ==
  /\ TypeOK
  /\ InOrder
  /\ SearchIsComplete
  /\ GuardIsOldest
  /\ OneDecides
  /\ RoomLeft
  /\ CapHolds

\* What the claim needs beyond the lock to keep the order: the candidates still
\* to be tried miss no older row that was never claimed, and the one chosen has
\* none before it.
Fresh == Queued \ tried

CandidatesComplete ==
  \A w \in Workers : pc[w] = "choose" =>
    \A y \in seen[w] :
      /\ row[y] \notin {"none", "inserted"}
      /\ \A x \in Fresh : x < y => x \in seen[w]

ChoiceIsNext ==
  \A w \in Workers : pc[w] = "write" => \A x \in Fresh : choice[w] <= x

OrderInv == LockInv /\ Claimed \subseteq tried /\ CandidatesComplete /\ ChoiceIsNext
=============================================================================
