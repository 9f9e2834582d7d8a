----------------------- MODULE ClaimTransactionProofs -----------------------
(***************************************************************************)
(* Proofs about ClaimTransaction, for any number of rows and claimants and *)
(* any limit: when inserts commit in the order of their ids, the lock on   *)
(* the oldest active row makes count-and-claim one step.                   *)
(***************************************************************************)
EXTENDS ClaimTransaction, FiniteSetTheorems, TLAPS

USE RowsAssumption, LimitAssumption, NullAssumption

-----------------------------------------------------------------------------
\* How the number of claims changes with one row.
LEMMA ClaimCount ==
  ASSUME TypeOK, NEW r \in Rows, NEW s \in {"queued", "claimed", "closed", "inserted"},
         row' = [row EXCEPT ![r] = s]
  PROVE  /\ Cardinality(Claimed) \in Nat
         /\ Cardinality(Claimed)' \in Nat
         /\ s # "claimed" => Cardinality(Claimed)' <= Cardinality(Claimed)
         /\ Cardinality(Claimed)' <= Cardinality(Claimed) + 1
<1>1. /\ IsFiniteSet(Claimed) /\ IsFiniteSet(Claimed \cup {r})
      /\ Cardinality(Claimed \cup {r}) <= Cardinality(Claimed) + 1
  <2>1. IsFiniteSet(Claimed)
    BY FS_Subset DEF Claimed
  <2>2. /\ IsFiniteSet(Claimed \cup {r})
        /\ r \in Claimed => Claimed \cup {r} = Claimed
        /\ r \notin Claimed => Cardinality(Claimed \cup {r}) = Cardinality(Claimed) + 1
    BY <2>1, FS_AddElement
  <2>3. Cardinality(Claimed) \in Nat
    BY <2>1, FS_CardinalityType
  <2> QED
    BY <2>1, <2>2, <2>3
<1>2. Claimed' \subseteq Claimed \cup {r}
  BY DEF TypeOK, Claimed
<1>3. s # "claimed" => Claimed' \subseteq Claimed
  BY DEF TypeOK, Claimed
<1> QED
  BY <1>1, <1>2, <1>3, FS_Subset, FS_CardinalityType

\* A transaction that ends releases its locks and touches nobody else's.
LEMMA EndEffect ==
  ASSUME TypeOK, NEW w \in Workers, EndTransaction(w)
  PROVE  /\ holder' \in [Rows -> Workers \cup {NoWorker}]
         /\ \A r \in Rows : holder[r] # w => holder'[r] = holder[r]
         /\ pc' = [pc EXCEPT ![w] = "idle"]
         /\ seen' \in [Workers -> SUBSET Rows]
         /\ guard' \in [Workers -> Rows \cup {NoRow}]
         /\ choice' \in [Workers -> Rows \cup {NoRow}]
         /\ \A v \in Workers : v # w =>
              seen'[v] = seen[v] /\ guard'[v] = guard[v] /\ choice'[v] = choice[v]
  BY DEF TypeOK, EndTransaction, Goto

\* The steps of the other transactions keep the types: they change no row a
\* claimant has locked.
LEMMA OthersType ==
  ASSUME TypeOK, NEW r \in Rows, Insert(r) \/ CommitInsert(r) \/ Close(r) \/ Requeue(r)
  PROVE  TypeOK'
<1>1. PICK s \in {"inserted", "queued", "closed"} :
        /\ row' = [row EXCEPT ![r] = s]
        /\ tried' = tried
        /\ holder' = holder /\ pc' = pc /\ seen' = seen /\ guard' = guard /\ choice' = choice
        /\ r \in Active => holder[r] = NoWorker
  BY DEF Insert, CommitInsert, Close, Requeue, TypeOK, Active
<1>2. row' \in [Rows -> {"none", "inserted", "queued", "claimed", "closed"}]
  BY <1>1 DEF TypeOK
<1>3. ASSUME NEW x \in Rows, x \in Active, holder[x] # NoWorker
      PROVE  x # r /\ row'[x] = row[x]
  BY <1>1, <1>3 DEF TypeOK
<1>4. \A w \in Workers : pc[w] \in Deciding => guard[w] \in Active' /\ holder'[guard[w]] = w
  BY <1>1, <1>3 DEF TypeOK, Active
<1>5. \A w \in Workers : pc[w] = "write" => choice[w] \in Queued' /\ holder'[choice[w]] = w
  BY <1>1, <1>3 DEF TypeOK, Queued, Active
<1> QED
  BY <1>1, <1>2, <1>4, <1>5 DEF TypeOK

\* A transaction that ends without a write keeps the types.
LEMMA EndType ==
  ASSUME TypeOK, NEW w \in Workers, EndTransaction(w), row' = row, tried' = tried
  PROVE  TypeOK'
<1>1. \A v \in Workers : pc'[v] # "idle" => v # w /\ pc'[v] = pc[v]
  BY EndEffect DEF TypeOK
<1>2. Active' = Active /\ Queued' = Queued /\ Active \subseteq Rows /\ Queued \subseteq Rows
  BY DEF Active, Queued
<1>3. ASSUME NEW v \in Workers, pc'[v] \in Deciding
      PROVE  guard'[v] \in Active' /\ holder'[guard'[v]] = v
  <2>1. v # w /\ pc[v] \in Deciding /\ guard'[v] = guard[v]
    BY <1>1, <1>3, EndEffect DEF Deciding
  <2>2. guard[v] \in Active /\ holder[guard[v]] = v
    BY <2>1 DEF TypeOK
  <2> QED
    BY <2>1, <2>2, <1>2, EndEffect
<1>4. ASSUME NEW v \in Workers, pc'[v] = "write"
      PROVE  choice'[v] \in Queued' /\ holder'[choice'[v]] = v
  <2>1. v # w /\ pc[v] = "write" /\ choice'[v] = choice[v]
    BY <1>1, <1>4, EndEffect
  <2>2. choice[v] \in Queued /\ holder[choice[v]] = v
    BY <2>1 DEF TypeOK
  <2> QED
    BY <2>1, <2>2, <1>2, EndEffect
<1>5. pc' \in [Workers -> Deciding \cup {"idle", "lock"}]
  BY EndEffect DEF TypeOK
<1> QED
  BY <1>3, <1>4, <1>5, EndEffect DEF TypeOK

\* So do the steps of the claimants.
LEMMA ClaimantType ==
  ASSUME LockInv, NEW w \in Workers,
         \/ BeginTransaction(w) \/ LockOldest(w) \/ NothingActive(w) \/ Count(w)
         \/ LockCandidate(w) \/ NoCandidate(w) \/ Commit(w) \/ Rollback(w)
  PROVE  TypeOK'
<1> TypeOK /\ OneDecides
  BY DEF LockInv
<1>1. CASE BeginTransaction(w)
  BY <1>1 DEF BeginTransaction, Goto, TypeOK, Deciding, Active, Queued
<1>2. CASE LockOldest(w)
  <2>1. PICK r \in seen[w] :
          /\ holder[r] = NoWorker
          /\ \/ /\ r \in Active
                /\ holder' = [holder EXCEPT ![r] = w]
                /\ guard' = [guard EXCEPT ![w] = r]
                /\ pc' = [pc EXCEPT ![w] = "count"]
                /\ seen' = seen
             \/ /\ seen' = [seen EXCEPT ![w] = @ \ {r}]
                /\ UNCHANGED <<holder, guard, pc>>
    BY <1>2 DEF LockOldest, Goto
  <2>2. /\ r \in Rows /\ row' = row /\ tried' = tried /\ choice' = choice
        /\ Active' = Active /\ Queued' = Queued
    BY <1>2 DEF LockOldest, TypeOK, Active, Queued
  <2>3. CASE guard' = guard /\ pc' = pc /\ holder' = holder /\ seen' = [seen EXCEPT ![w] = @ \ {r}]
    BY <2>2, <2>3 DEF TypeOK
  <2>4. ASSUME r \in Active,
               holder' = [holder EXCEPT ![r] = w], guard' = [guard EXCEPT ![w] = r],
               pc' = [pc EXCEPT ![w] = "count"], seen' = seen
        PROVE  TypeOK'
    <3>1. \A x \in Rows : holder[x] \in Workers => holder'[x] = holder[x]
      BY <2>1, <2>2, <2>4 DEF TypeOK
    <3>2. \A v \in Workers : v # w => guard'[v] = guard[v] /\ pc'[v] = pc[v]
      BY <2>4 DEF TypeOK
    <3>3. guard'[w] = r /\ holder'[r] = w /\ pc'[w] = "count"
      BY <2>2, <2>4 DEF TypeOK
    <3>4. \A v \in Workers : pc'[v] \in Deciding => guard'[v] \in Active' /\ holder'[guard'[v]] = v
      BY <2>2, <2>4, <3>1, <3>2, <3>3 DEF TypeOK, Active
    <3>5. \A v \in Workers : pc'[v] = "write" => choice'[v] \in Queued' /\ holder'[choice'[v]] = v
      <4>1. \A v \in Workers : pc[v] = "write" => choice[v] \in Queued /\ holder[choice[v]] = v
        BY DEF TypeOK
      <4> QED
        BY <2>2, <3>1, <3>2, <3>3, <4>1 DEF Queued
    <3>6. /\ holder' \in [Rows -> Workers \cup {NoWorker}]
          /\ guard' \in [Workers -> Rows \cup {NoRow}]
          /\ pc' \in [Workers -> Deciding \cup {"idle", "lock"}]
      BY <2>2, <2>4 DEF TypeOK, Deciding
    <3> QED
      BY <2>2, <2>4, <3>4, <3>5, <3>6 DEF TypeOK
  <2> QED
    BY <2>1, <2>3, <2>4
<1>3. CASE NothingActive(w) \/ NoCandidate(w) \/ Rollback(w)
  BY <1>3, EndType DEF NothingActive, NoCandidate, Rollback
<1>4. CASE Count(w)
  <2>1. CASE Cardinality(Claimed) >= Limit
    BY <1>4, <2>1, EndType DEF Count
  <2>2. CASE ~(Cardinality(Claimed) >= Limit)
    BY <1>4, <2>2 DEF Count, Goto, TypeOK, Deciding, Active, Queued
  <2> QED
    BY <2>1, <2>2
<1>5. CASE LockCandidate(w)
  <2>1. PICK r \in seen[w] :
          /\ holder[r] \in {NoWorker, w}
          /\ \/ /\ r \in Queued
                /\ holder' = [holder EXCEPT ![r] = w]
                /\ choice' = [choice EXCEPT ![w] = r]
                /\ pc' = [pc EXCEPT ![w] = "write"]
                /\ seen' = seen
             \/ /\ seen' = [seen EXCEPT ![w] = @ \ {r}]
                /\ UNCHANGED <<holder, choice, pc>>
    BY <1>5 DEF LockCandidate, Goto
  <2>2. /\ r \in Rows /\ row' = row /\ tried' = tried /\ guard' = guard
        /\ Active' = Active /\ Queued' = Queued /\ pc[w] = "choose"
    BY <1>5 DEF LockCandidate, TypeOK, Active, Queued
  <2>3. CASE choice' = choice /\ pc' = pc /\ holder' = holder /\ seen' = [seen EXCEPT ![w] = @ \ {r}]
    BY <2>2, <2>3 DEF TypeOK
  <2>4. ASSUME r \in Queued,
               holder' = [holder EXCEPT ![r] = w], choice' = [choice EXCEPT ![w] = r],
               pc' = [pc EXCEPT ![w] = "write"], seen' = seen
        PROVE  TypeOK'
    <3>1. \A x \in Rows : holder[x] \in Workers => holder'[x] = holder[x]
      BY <2>1, <2>2, <2>4 DEF TypeOK
    <3>2. \A v \in Workers : v # w => choice'[v] = choice[v] /\ pc'[v] = pc[v]
      BY <2>4 DEF TypeOK
    <3>3. choice'[w] = r /\ holder'[r] = w /\ pc'[w] = "write"
      BY <2>2, <2>4 DEF TypeOK
    <3>4. \A v \in Workers : pc'[v] \in Deciding => guard'[v] \in Active' /\ holder'[guard'[v]] = v
      <4>1. \A v \in Workers : pc[v] \in Deciding => guard[v] \in Active /\ holder[guard[v]] = v
        BY DEF TypeOK
      <4>2. pc[w] \in Deciding
        BY <2>2 DEF Deciding
      <4> QED
        BY <2>2, <3>1, <3>2, <4>1, <4>2 DEF Active
    <3>5. \A v \in Workers : pc'[v] = "write" => choice'[v] \in Queued' /\ holder'[choice'[v]] = v
      BY <2>2, <2>4, <3>1, <3>2, <3>3 DEF TypeOK, Queued
    <3>6. /\ holder' \in [Rows -> Workers \cup {NoWorker}]
          /\ choice' \in [Workers -> Rows \cup {NoRow}]
          /\ pc' \in [Workers -> Deciding \cup {"idle", "lock"}]
      BY <2>2, <2>4 DEF TypeOK, Deciding
    <3> QED
      BY <2>2, <2>4, <3>4, <3>5, <3>6 DEF TypeOK
  <2> QED
    BY <2>1, <2>3, <2>4
<1>6. CASE Commit(w)
  <2>1. /\ choice[w] \in Rows
        /\ row' \in [Rows -> {"none", "inserted", "queued", "claimed", "closed"}]
        /\ tried' \subseteq Rows
        /\ EndTransaction(w)
    <3>1. /\ choice[w] \in Rows /\ tried \subseteq Rows
          /\ row \in [Rows -> {"none", "inserted", "queued", "claimed", "closed"}]
      BY <1>6 DEF Commit, TypeOK, Queued
    <3> QED
      BY <1>6, <3>1 DEF Commit
  <2>2. \A v \in Workers : pc'[v] \in Deciding => v # w /\ pc[v] \in Deciding
    <3>1. /\ pc \in [Workers -> Deciding \cup {"idle", "lock"}]
          /\ pc' = [pc EXCEPT ![w] = "idle"]
      BY <2>1, EndEffect DEF TypeOK
    <3> QED
      BY <3>1 DEF Deciding
  <2>3. \A v \in Workers : pc'[v] \notin Deciding
    BY <1>6, <2>2 DEF OneDecides, Commit, Deciding
  <2> QED
    BY <2>1, <2>3, EndEffect DEF TypeOK, Deciding
<1> QED
  BY <1>1, <1>2, <1>3, <1>4, <1>5, <1>6

-----------------------------------------------------------------------------
\* When inserts commit in order, another transaction never brings up an active
\* row older than one that is committed already.
LEMMA OthersKeepLock ==
  ASSUME CommitsInOrder, LockInv, NEW r \in Rows,
         Insert(r) \/ CommitInsert(r) \/ Close(r) \/ Requeue(r)
  PROVE  LockInv'
<1>1. TypeOK'
  BY OthersType DEF LockInv
<1>2. PICK s \in {"inserted", "queued", "closed"} :
        /\ row' = [row EXCEPT ![r] = s]
        /\ holder' = holder /\ pc' = pc /\ seen' = seen /\ guard' = guard /\ choice' = choice
        /\ s = "inserted" => row[r] = "none" /\ \A x \in Rows : x < r => row[x] # "none"
        /\ s = "queued" /\ row[r] # "claimed" =>
             row[r] = "inserted" /\ \A x \in Rows : x < r => row[x] # "inserted"
        /\ s = "queued" => row[r] \in {"inserted", "claimed"}
        /\ s = "closed" => row[r] \in {"queued", "claimed"}
  BY DEF Insert, CommitInsert, Close, Requeue, LockInv, TypeOK, Active, Claimed
<1>3. /\ row \in [Rows -> {"none", "inserted", "queued", "claimed", "closed"}]
      /\ \A x \in Rows : row'[x] = IF x = r THEN s ELSE row[x]
      /\ Rows \subseteq Nat
  BY <1>2 DEF LockInv, TypeOK
<1>4. InOrder'
  BY <1>2, <1>3 DEF LockInv, InOrder
<1>5. \A x \in Active' : x \in Active \/ (x = r /\ row[r] = "inserted")
  BY <1>2, <1>3 DEF Active
<1>6. \A y \in Rows : row[y] \notin {"none", "inserted"} /\ row[r] = "inserted" => ~(r < y)
  BY <1>3 DEF LockInv, InOrder
<1>7. SearchIsComplete'
  <2> SUFFICES ASSUME NEW w \in Workers, pc[w] = "lock", NEW y \in seen[w]
               PROVE  /\ row'[y] \notin {"none", "inserted"}
                      /\ \A x \in Active' : x < y => x \in seen[w]
    BY <1>2 DEF SearchIsComplete
  <2>1. /\ y \in Rows /\ row[y] \notin {"none", "inserted"}
        /\ \A x \in Active : x < y => x \in seen[w]
    BY DEF LockInv, TypeOK, SearchIsComplete
  <2> QED
    BY <2>1, <1>2, <1>3, <1>5, <1>6
<1>8. GuardIsOldest'
  <2> SUFFICES ASSUME NEW w \in Workers, pc[w] \in Deciding, NEW x \in Active'
               PROVE  guard[w] <= x
    BY <1>2 DEF GuardIsOldest
  <2>1. /\ guard[w] \in Rows /\ row[guard[w]] \notin {"none", "inserted"}
        /\ \A y \in Active : guard[w] <= y
    BY DEF LockInv, TypeOK, GuardIsOldest, Active
  <2>2. x \in Nat /\ r \in Nat /\ guard[w] \in Nat
    BY <2>1, <1>3 DEF Active
  <2>3. CASE x \in Active
    BY <2>1, <2>3
  <2>4. CASE x = r /\ row[r] = "inserted"
    BY <2>1, <2>2, <2>4, <1>6
  <2> QED
    BY <2>3, <2>4, <1>5
<1>9. OneDecides' /\ RoomLeft' /\ CapHolds'
  <2>1. /\ Cardinality(Claimed) \in Nat /\ Cardinality(Claimed)' \in Nat
        /\ Cardinality(Claimed)' <= Cardinality(Claimed)
    BY <1>2, ClaimCount DEF LockInv
  <2>2. OneDecides'
    BY <1>2 DEF LockInv, OneDecides
  <2>3. RoomLeft'
    BY <1>2, <2>1 DEF LockInv, RoomLeft
  <2>4. CapHolds'
    BY <2>1 DEF LockInv, CapHolds
  <2> QED
    BY <2>2, <2>3, <2>4
<1> QED
  BY <1>1, <1>4, <1>7, <1>8, <1>9 DEF LockInv

\* A transaction that ends without a write keeps the invariant.
LEMMA EndKeepsLock ==
  ASSUME LockInv, NEW w \in Workers, EndTransaction(w), row' = row, tried' = tried
  PROVE  LockInv'
<1>1. TypeOK /\ TypeOK'
  BY EndType DEF LockInv
<1>2. /\ \A v \in Workers : pc'[v] # "idle" => v # w /\ pc'[v] = pc[v]
      /\ \A v \in Workers : v # w => seen'[v] = seen[v] /\ guard'[v] = guard[v]
  BY <1>1, EndEffect DEF TypeOK
<1>3. Active' = Active /\ Claimed' = Claimed
  BY DEF Active, Claimed
<1>4. InOrder'
  BY DEF LockInv, InOrder
<1>5. SearchIsComplete'
  BY <1>2, <1>3 DEF LockInv, SearchIsComplete
<1>6. GuardIsOldest'
  BY <1>2, <1>3 DEF LockInv, GuardIsOldest, Deciding
<1>7. OneDecides' /\ RoomLeft' /\ CapHolds'
  BY <1>2, <1>3 DEF LockInv, OneDecides, RoomLeft, CapHolds, Deciding
<1> QED
  BY <1>1, <1>4, <1>5, <1>6, <1>7 DEF LockInv

\* The heart of it: a claimant that has locked the oldest active row it saw is
\* alone, because whoever decides holds that very row.
LEMMA LockingIsExclusive ==
  ASSUME LockInv, NEW w \in Workers, pc[w] = "lock", NEW r \in seen[w],
         Oldest(seen[w], r), holder[r] = NoWorker, r \in Active
  PROVE  /\ \A v \in Workers : pc[v] \notin Deciding
         /\ \A x \in Active : r <= x
<1>1. r \in Nat /\ \A x \in Active : x \in Nat
  BY DEF Active
<1>2. ASSUME NEW x \in Active PROVE r <= x
  <2>1. x < r => x \in seen[w]
    BY DEF LockInv, SearchIsComplete
  <2>2. x \in seen[w] => r <= x
    BY DEF Oldest
  <2>3. r \in Nat /\ x \in Nat
    BY <1>1
  <2>4. x < r \/ r <= x
    BY <2>3
  <2> QED
    BY <2>1, <2>2, <2>4
<1>3. ASSUME NEW v \in Workers, pc[v] \in Deciding PROVE FALSE
  <2>1. guard[v] \in Active /\ holder[guard[v]] = v /\ guard[v] <= r
    BY <1>3 DEF LockInv, TypeOK, GuardIsOldest
  <2>2. r <= guard[v] /\ guard[v] \in Nat
    BY <2>1, <1>1, <1>2
  <2>3. guard[v] = r
    BY <2>1, <2>2, <1>1
  <2> QED
    BY <2>1, <2>3
<1> QED
  BY <1>2, <1>3

\* The statements of a claimant keep the invariant.
LEMMA ClaimantKeepsLock ==
  ASSUME LockInv, NEW w \in Workers,
         \/ BeginTransaction(w) \/ LockOldest(w) \/ NothingActive(w) \/ Count(w)
         \/ LockCandidate(w) \/ NoCandidate(w) \/ Commit(w) \/ Rollback(w)
  PROVE  LockInv'
<1>1. TypeOK /\ TypeOK'
  BY ClaimantType DEF LockInv
<1>2. CASE BeginTransaction(w)
  <2>1. /\ seen' = [seen EXCEPT ![w] = Active] /\ pc' = [pc EXCEPT ![w] = "lock"]
        /\ row' = row /\ guard' = guard /\ Active' = Active /\ Claimed' = Claimed
    BY <1>2 DEF BeginTransaction, Goto, Active, Claimed
  <2>2. InOrder' /\ CapHolds'
    BY <2>1 DEF LockInv, InOrder, CapHolds
  <2>3. SearchIsComplete'
    BY <1>1, <2>1 DEF LockInv, SearchIsComplete, TypeOK, Active
  <2>4. \A v \in Workers : pc'[v] # "lock" => pc'[v] = pc[v]
    BY <1>1, <2>1 DEF TypeOK
  <2>5. GuardIsOldest' /\ OneDecides' /\ RoomLeft'
    BY <2>1, <2>4 DEF LockInv, GuardIsOldest, OneDecides, RoomLeft, Deciding
  <2> QED
    BY <1>1, <2>2, <2>3, <2>5 DEF LockInv
<1>3. CASE LockOldest(w)
  <2>1. PICK r \in seen[w] :
          /\ Oldest(seen[w], r)
          /\ holder[r] = NoWorker
          /\ \/ /\ r \in Active
                /\ guard' = [guard EXCEPT ![w] = r]
                /\ Goto(w, "count")
                /\ seen' = seen
             \/ /\ r \notin Active
                /\ seen' = [seen EXCEPT ![w] = @ \ {r}]
                /\ guard' = guard /\ pc' = pc
    BY <1>3 DEF LockOldest
  <2>2. row' = row /\ Active' = Active /\ Claimed' = Claimed /\ pc[w] = "lock"
    BY <1>3 DEF LockOldest, Active, Claimed
  <2>3. InOrder' /\ CapHolds'
    BY <2>2 DEF LockInv, InOrder, CapHolds
  <2>4. SearchIsComplete'
    BY <1>1, <2>1, <2>2 DEF LockInv, SearchIsComplete, TypeOK, Goto
  <2>5. CASE r \in Active
    <3>1. /\ \A v \in Workers : pc[v] \notin Deciding
          /\ \A x \in Active : r <= x
      BY <2>1, <2>2, <2>5, LockingIsExclusive
    <3>2. \A v \in Workers : pc'[v] \in Deciding => v = w /\ pc'[v] = "count" /\ guard'[v] = r
      BY <1>1, <2>1, <2>5, <3>1 DEF TypeOK, Goto
    <3>3. GuardIsOldest' /\ OneDecides' /\ RoomLeft'
      BY <2>2, <3>1, <3>2 DEF GuardIsOldest, OneDecides, RoomLeft, Deciding
    <3> QED
      BY <1>1, <2>3, <2>4, <3>3 DEF LockInv
  <2>6. CASE r \notin Active
    <3>1. pc' = pc /\ guard' = guard
      BY <2>1, <2>6
    <3>2. GuardIsOldest' /\ OneDecides' /\ RoomLeft'
      BY <2>2, <3>1 DEF LockInv, GuardIsOldest, OneDecides, RoomLeft
    <3> QED
      BY <1>1, <2>3, <2>4, <3>2 DEF LockInv
  <2> QED
    BY <2>5, <2>6
<1>4. CASE NothingActive(w) \/ NoCandidate(w) \/ Rollback(w)
  BY <1>4, EndKeepsLock DEF NothingActive, NoCandidate, Rollback
<1>5. CASE Count(w) \/ LockCandidate(w)
  <2>1. CASE Count(w) /\ Cardinality(Claimed) >= Limit
    BY <2>1, EndKeepsLock DEF Count
  <2>2. ASSUME \/ Count(w) /\ ~(Cardinality(Claimed) >= Limit)
               \/ LockCandidate(w)
        PROVE  LockInv'
    <3>1. /\ row' = row /\ guard' = guard /\ Active' = Active /\ Claimed' = Claimed
          /\ pc[w] \in Deciding
          /\ \E label \in Deciding : pc' = [pc EXCEPT ![w] = label]
          /\ \A v \in Workers : v # w => seen'[v] = seen[v]
      BY <1>1, <2>2 DEF Count, LockCandidate, Goto, Active, Claimed, Deciding, TypeOK
    <3>2. Cardinality(Claimed) < Limit
      <4>1. Cardinality(Claimed) \in Nat
        BY FS_Subset, FS_CardinalityType DEF Claimed
      <4>2. CASE LockCandidate(w)
        BY <4>2 DEF LockCandidate, LockInv, RoomLeft
      <4> QED
        BY <2>2, <4>1, <4>2
    <3>3. \A v \in Workers : (pc'[v] \in Deciding <=> pc[v] \in Deciding) /\ (pc'[v] = "lock" <=> pc[v] = "lock")
      BY <1>1, <3>1 DEF TypeOK, Deciding
    <3>4. InOrder' /\ CapHolds' /\ GuardIsOldest' /\ OneDecides' /\ RoomLeft'
      BY <3>1, <3>2, <3>3 DEF LockInv, InOrder, CapHolds, GuardIsOldest, OneDecides, RoomLeft
    <3>5. SearchIsComplete'
      BY <3>1, <3>3 DEF LockInv, SearchIsComplete, Deciding
    <3> QED
      BY <1>1, <3>4, <3>5 DEF LockInv
  <2> QED
    BY <1>5, <2>1, <2>2
<1>6. CASE Commit(w)
  <2>1. PICK s \in {"claimed", "closed"} : row' = [row EXCEPT ![choice[w]] = s]
    BY <1>6 DEF Commit
  <2>2. /\ pc[w] = "write" /\ choice[w] \in Rows /\ row[choice[w]] = "queued"
        /\ EndTransaction(w)
    BY <1>1, <1>6 DEF Commit, TypeOK, Queued
  <2>3. /\ \A v \in Workers : pc'[v] # "idle" => v # w /\ pc'[v] = pc[v]
        /\ \A v \in Workers : v # w => seen'[v] = seen[v]
    BY <1>1, <2>2, EndEffect DEF TypeOK
  <2>4. \A v \in Workers : pc'[v] \notin Deciding
    BY <2>2, <2>3 DEF LockInv, OneDecides, Deciding
  <2>5. \A x \in Rows : row'[x] = IF x = choice[w] THEN s ELSE row[x]
    BY <1>1, <2>1, <2>2 DEF TypeOK
  <2>6. Active' \subseteq Active
    BY <2>2, <2>5 DEF Active
  <2>7. InOrder'
    BY <2>2, <2>5 DEF LockInv, InOrder
  <2>8. SearchIsComplete'
    BY <1>1, <2>2, <2>3, <2>5, <2>6 DEF LockInv, SearchIsComplete, TypeOK
  <2>9. CapHolds'
    <3>1. Cardinality(Claimed) < Limit
      BY <2>2 DEF LockInv, RoomLeft
    <3>2. /\ Cardinality(Claimed) \in Nat /\ Cardinality(Claimed)' \in Nat
          /\ Cardinality(Claimed)' <= Cardinality(Claimed) + 1
      BY <1>1, <2>1, <2>2, ClaimCount
    <3> QED
      BY <3>1, <3>2 DEF CapHolds
  <2>10. GuardIsOldest' /\ OneDecides' /\ RoomLeft'
    BY <2>4 DEF GuardIsOldest, OneDecides, RoomLeft, Deciding
  <2> QED
    BY <1>1, <2>7, <2>8, <2>9, <2>10 DEF LockInv
<1> QED
  BY <1>2, <1>3, <1>4, <1>5, <1>6

\* At first no row is there and nobody searches.
LEMMA LockInit == Init => LockInv
<1> SUFFICES ASSUME Init PROVE LockInv
  OBVIOUS
<1>1. Active = {} /\ Claimed = {}
  BY DEF Init, Active, Claimed
<1>2. Cardinality(Claimed) = 0
  BY <1>1, FS_EmptySet
<1> QED
  BY <1>1, <1>2 DEF Init, LockInv, TypeOK, Deciding, InOrder, SearchIsComplete,
                    GuardIsOldest, OneDecides, RoomLeft, CapHolds

\* Every step keeps the invariant.
LEMMA LockStep == ASSUME CommitsInOrder PROVE LockInv /\ [Next]_vars => LockInv'
<1> SUFFICES ASSUME LockInv, [Next]_vars PROVE LockInv'
  OBVIOUS
<1>1. CASE UNCHANGED vars
  BY <1>1 DEF vars, LockInv, TypeOK, InOrder, SearchIsComplete, GuardIsOldest, OneDecides,
              RoomLeft, CapHolds, Active, Claimed, Queued
<1> QED
  BY <1>1, OthersKeepLock, ClaimantKeepsLock DEF Next

LEMMA LockAlways == ASSUME CommitsInOrder PROVE Spec => []LockInv
  BY LockInit, LockStep, PTL DEF Spec

\* The types hold when inserts commit in order (the locks of a deciding
\* claimant are part of them).
THEOREM ClaimTypeCorrect == ASSUME CommitsInOrder PROVE Spec => []TypeOK
<1>1. LockInv => TypeOK
  BY DEF LockInv
<1> QED
  BY <1>1, LockAlways, PTL

\* Counting and claiming is serialized by the lock of the oldest active row,
\* for any number of claimants, provided inserts commit in the order of their
\* ids: this is what lets PlaybookDispatch take the transaction as one step.
THEOREM CountAndClaimIsSerial == ASSUME CommitsInOrder PROVE Spec => []OneDecides
<1>1. LockInv => OneDecides
  BY DEF LockInv
<1> QED
  BY <1>1, LockAlways, PTL

\* Under the same proviso the claims never exceed the cluster-wide limit.
THEOREM LockedCountKeepsCap == ASSUME CommitsInOrder PROVE Spec => []CapHolds
<1>1. LockInv => CapHolds
  BY DEF LockInv
<1> QED
  BY <1>1, LockAlways, PTL

-----------------------------------------------------------------------------
\* Neither the other transactions nor a claimant that goes on bring up a row
\* that was never claimed and is older than one that is committed.
LEMMA OthersKeepOrder ==
  ASSUME CommitsInOrder, OrderInv, NEW r \in Rows,
         Insert(r) \/ CommitInsert(r) \/ Close(r) \/ Requeue(r)
  PROVE  OrderInv'
<1>0. LockInv /\ LockInv' /\ TypeOK
  BY OthersKeepLock DEF OrderInv, LockInv
<1>1. PICK s \in {"inserted", "queued", "closed"} :
        /\ row' = [row EXCEPT ![r] = s]
        /\ tried' = tried /\ pc' = pc /\ seen' = seen /\ choice' = choice
        /\ s \in {"queued", "closed"} => row[r] \in {"inserted", "queued", "claimed"}
        /\ s = "inserted" => row[r] = "none"
        /\ s = "queued" => row[r] \in {"inserted", "claimed"}
  BY <1>0 DEF Insert, CommitInsert, Close, Requeue, TypeOK, Active, Claimed
<1>2. \A x \in Rows : row'[x] = IF x = r THEN s ELSE row[x]
  BY <1>0, <1>1 DEF TypeOK
<1>3. Claimed' \subseteq tried'
  BY <1>1, <1>2 DEF OrderInv, Claimed
<1>4. ASSUME NEW x \in Fresh' PROVE x \in Fresh \/ (x = r /\ row[r] = "inserted")
  BY <1>1, <1>2 DEF OrderInv, Fresh, Queued, Claimed
<1>5. ASSUME NEW y \in Rows, row[y] \notin {"none", "inserted"}, row[r] = "inserted" PROVE y < r
  BY <1>0, <1>5 DEF LockInv, InOrder
<1>6. CandidatesComplete'
  <2> SUFFICES ASSUME NEW w \in Workers, pc[w] = "choose", NEW y \in seen[w]
               PROVE  /\ row'[y] \notin {"none", "inserted"}
                      /\ \A x \in Fresh' : x < y => x \in seen[w]
    BY <1>1 DEF CandidatesComplete
  <2>1. /\ y \in Rows /\ y \in Nat /\ r \in Nat
        /\ row[y] \notin {"none", "inserted"}
        /\ \A x \in Fresh : x < y => x \in seen[w]
    BY <1>0 DEF OrderInv, CandidatesComplete, TypeOK
  <2>2. row'[y] \notin {"none", "inserted"}
    BY <1>1, <1>2, <2>1
  <2>3. row[r] = "inserted" => ~(r < y)
    BY <1>5, <2>1
  <2> QED
    BY <1>4, <2>1, <2>2, <2>3
<1>7. ChoiceIsNext'
  <2> SUFFICES ASSUME NEW w \in Workers, pc[w] = "write", NEW x \in Fresh'
               PROVE  choice[w] <= x
    BY <1>1 DEF ChoiceIsNext
  <2>1. choice[w] \in Rows /\ row[choice[w]] = "queued" /\ choice[w] \in Nat /\ r \in Nat
    BY <1>0 DEF TypeOK, Queued
  <2>2. CASE x \in Fresh
    BY <2>2 DEF OrderInv, ChoiceIsNext
  <2>3. CASE x = r /\ row[r] = "inserted"
    BY <1>5, <2>1, <2>3
  <2> QED
    BY <1>4, <2>2, <2>3
<1> QED
  BY <1>0, <1>3, <1>6, <1>7 DEF OrderInv

\* The statements of a claimant that do not write a row keep the order.
LEMMA ReadsKeepOrder ==
  ASSUME OrderInv, NEW w \in Workers,
         \/ BeginTransaction(w) \/ LockOldest(w) \/ NothingActive(w) \/ Count(w)
         \/ LockCandidate(w) \/ NoCandidate(w) \/ Rollback(w)
  PROVE  OrderInv'
<1>0. LockInv /\ LockInv' /\ TypeOK /\ TypeOK'
  BY ClaimantKeepsLock DEF OrderInv, LockInv
<1>1. row' = row /\ tried' = tried
  BY DEF BeginTransaction, LockOldest, NothingActive, Count, LockCandidate, NoCandidate, Rollback
<1>2. Claimed' \subseteq tried' /\ Fresh' = Fresh /\ Queued' = Queued
  BY <1>1 DEF OrderInv, Claimed, Fresh, Queued
<1>3. \A v \in Workers : v # w => pc'[v] = pc[v] /\ seen'[v] = seen[v] /\ choice'[v] = choice[v]
  BY <1>0, EndEffect DEF BeginTransaction, LockOldest, NothingActive, Count, LockCandidate,
       NoCandidate, Rollback, Goto, TypeOK
<1>4. ASSUME pc'[w] = "choose", NEW y \in seen'[w]
      PROVE  /\ row[y] \notin {"none", "inserted"}
             /\ \A x \in Fresh : x < y => x \in seen'[w]
  <2>1. CASE Count(w) /\ seen'[w] = Queued
    BY <1>4, <2>1 DEF Fresh, Queued
  <2>2. CASE LockCandidate(w)
    <3>1. PICK r \in seen[w] :
            /\ r \notin Queued
            /\ seen' = [seen EXCEPT ![w] = @ \ {r}]
            /\ pc' = pc
      BY <1>0, <1>4, <2>2 DEF LockCandidate, Goto, TypeOK
    <3>2. pc[w] = "choose" /\ seen'[w] = seen[w] \ {r}
      BY <1>0, <2>2, <3>1 DEF LockCandidate, TypeOK
    <3> QED
      BY <1>4, <3>1, <3>2 DEF OrderInv, CandidatesComplete, Fresh
  <2>3. ASSUME ~LockCandidate(w) PROVE Count(w) /\ seen'[w] = Queued
    <3>1. ~EndTransaction(w)
      BY <1>0, <1>4, EndEffect DEF TypeOK
    <3>2. Count(w)
      BY <1>0, <1>4, <2>3, <3>1 DEF BeginTransaction, LockOldest, NothingActive, NoCandidate,
           Rollback, Goto, TypeOK
    <3> QED
      BY <1>0, <3>1, <3>2 DEF Count, TypeOK
  <2> QED
    BY <2>1, <2>2, <2>3
<1>5. CandidatesComplete'
  BY <1>1, <1>2, <1>3, <1>4 DEF OrderInv, CandidatesComplete
<1>6. ASSUME pc'[w] = "write", NEW x \in Fresh PROVE choice'[w] <= x
  <2>1. LockCandidate(w)
    BY <1>0, <1>6, EndEffect DEF BeginTransaction, LockOldest, NothingActive, Count, NoCandidate,
         Rollback, Goto, TypeOK
  <2>2. PICK r \in seen[w] : Oldest(seen[w], r) /\ choice' = [choice EXCEPT ![w] = r]
    BY <1>0, <1>6, <2>1 DEF LockCandidate, TypeOK
  <2>3. pc[w] = "choose" /\ choice'[w] = r /\ r \in Nat /\ x \in Nat
    BY <1>0, <2>1, <2>2 DEF LockCandidate, TypeOK, Fresh, Queued
  <2>4. x < r => x \in seen[w]
    BY <2>3 DEF OrderInv, CandidatesComplete
  <2>5. x \in seen[w] => r <= x
    BY <2>2 DEF Oldest
  <2>6. x < r \/ r <= x
    BY <2>3
  <2> QED
    BY <2>3, <2>4, <2>5, <2>6
<1>7. ChoiceIsNext'
  BY <1>2, <1>3, <1>6 DEF OrderInv, ChoiceIsNext
<1> QED
  BY <1>0, <1>2, <1>5, <1>7 DEF OrderInv

\* The write keeps it, since nobody else is deciding.
LEMMA CommitKeepsOrder ==
  ASSUME OrderInv, NEW w \in Workers, Commit(w)
  PROVE  OrderInv'
<1>0. LockInv /\ LockInv' /\ TypeOK
  BY ClaimantKeepsLock DEF OrderInv, LockInv
<1>1. \A v \in Workers : pc'[v] \notin Deciding
  <2>1. EndTransaction(w) /\ pc[w] = "write"
    BY DEF Commit
  <2>2. \A v \in Workers : pc'[v] \in Deciding => v # w /\ pc[v] \in Deciding
    BY <1>0, <2>1, EndEffect DEF TypeOK, Deciding
  <2> QED
    BY <1>0, <2>1, <2>2 DEF LockInv, OneDecides, Deciding
<1>2. Claimed' \subseteq tried'
  BY <1>0 DEF OrderInv, Commit, Claimed, TypeOK
<1> QED
  BY <1>0, <1>1, <1>2 DEF OrderInv, CandidatesComplete, ChoiceIsNext, Deciding

\* The order holds at first and is kept by every step.
LEMMA OrderAlways == ASSUME CommitsInOrder PROVE Spec => []OrderInv
<1>1. Init => OrderInv
  BY LockInit DEF Init, OrderInv, CandidatesComplete, ChoiceIsNext, Claimed
<1>2. OrderInv /\ [Next]_vars => OrderInv'
  <2> SUFFICES ASSUME OrderInv, [Next]_vars PROVE OrderInv'
    OBVIOUS
  <2>1. CASE UNCHANGED vars
    <3>1. LockInv'
      BY <2>1, LockStep DEF OrderInv
    <3> QED
      BY <2>1, <3>1 DEF vars, OrderInv, CandidatesComplete, ChoiceIsNext, Claimed, Queued, Fresh
  <2> QED
    BY <2>1, OthersKeepOrder, ReadsKeepOrder, CommitKeepsOrder DEF Next
<1> QED
  BY <1>1, <1>2, PTL DEF Spec

-----------------------------------------------------------------------------
\* The row as AtomicClaim sees it: what is inserted is not there before its commit.
Seen == [r \in Rows |-> IF row[r] = "inserted" THEN "none" ELSE row[r]]

\* The instance counts with its own copy of Cardinality.
LEMMA SameCount == ASSUME NEW S PROVE Atomic!Cardinality(S) = Cardinality(S)
  BY DEF Atomic!Cardinality, Cardinality

\* The claims AtomicClaim counts, and the rows it calls fresh, are those of the
\* transaction.
LEMMA SameClaims == Atomic!Claimed = Claimed /\ Atomic!Fresh = Fresh
  BY DEF Atomic!Claimed, Atomic!Fresh, Claimed, Fresh, Queued

\* How a write to one row looks from there.
LEMMA SeenEffect ==
  ASSUME TypeOK, NEW r \in Rows, NEW s \in {"queued", "claimed", "closed"},
         row' = [row EXCEPT ![r] = s]
  PROVE  Seen' = [Seen EXCEPT ![r] = s]
  BY DEF TypeOK, Seen

\* The step the claim amounts to.
LEMMA ClaimStep ==
  ASSUME NEW r \in Rows, Seen[r] = "queued", \A x \in Atomic!Fresh : r <= x,
         Cardinality(Atomic!Claimed) < Limit,
         Seen' = [Seen EXCEPT ![r] = "claimed"], tried' = tried \cup {r}
  PROVE  Atomic!Claim(r)
<1>1. Atomic!Cardinality(Atomic!Claimed) < Limit
  BY SameCount
<1> QED
  BY <1>1 DEF Atomic!Claim, Seen

\* Statement by statement, the claim is a step of AtomicClaim or none at all: the
\* one that writes is the claim, the others do not show.
LEMMA AtomicStep ==
  ASSUME CommitsInOrder
  PROVE  OrderInv /\ [Next]_vars => [Atomic!Next]_(Atomic!vars)
<1> SUFFICES ASSUME OrderInv, [Next]_vars PROVE [Atomic!Next]_(Atomic!vars)
  OBVIOUS
<1>0. LockInv /\ TypeOK
  BY DEF OrderInv, LockInv
<1> DEFINE Shown == [Atomic!Next]_(Atomic!vars)
<1>1. ASSUME row' = row, tried' = tried PROVE UNCHANGED Atomic!vars
  BY <1>1 DEF Atomic!vars
<1>2. ASSUME NEW r \in Rows, Insert(r) PROVE UNCHANGED Atomic!vars
  <2>1. Seen' = Seen
    BY <1>0, <1>2 DEF Insert, Seen, TypeOK
  <2> QED
    BY <1>2, <2>1 DEF Atomic!vars, Seen, Insert
<1>3. ASSUME NEW r \in Rows, CommitInsert(r) PROVE Atomic!Arrive(r)
  <2>1. row[r] = "inserted" /\ \A x \in Rows : x < r => row[x] \notin {"none", "inserted"}
    BY <1>0, <1>3 DEF CommitInsert, LockInv, InOrder
  <2>2. Seen[r] = "none" /\ \A x \in Rows : x < r => Seen[x] # "none"
    BY <2>1 DEF Seen
  <2>3. Seen' = [Seen EXCEPT ![r] = "queued"] /\ tried' = tried
    BY <1>0, <1>3, SeenEffect DEF CommitInsert
  <2> QED
    BY <2>2, <2>3 DEF Atomic!Arrive, Seen
<1>4. ASSUME NEW r \in Rows, Close(r) PROVE Atomic!Close(r)
  <2>1. Seen[r] \in {"queued", "claimed"}
    BY <1>4 DEF Close, Active, Seen
  <2>2. Seen' = [Seen EXCEPT ![r] = "closed"] /\ tried' = tried
    BY <1>0, <1>4, SeenEffect DEF Close
  <2> QED
    BY <2>1, <2>2 DEF Atomic!Close, Seen
<1>5. ASSUME NEW r \in Rows, Requeue(r) PROVE Atomic!Requeue(r)
  <2>1. Seen[r] = "claimed"
    BY <1>5 DEF Requeue, Claimed, Seen
  <2>2. Seen' = [Seen EXCEPT ![r] = "queued"] /\ tried' = tried
    BY <1>0, <1>5, SeenEffect DEF Requeue
  <2> QED
    BY <2>1, <2>2 DEF Atomic!Requeue, Seen
<1>6. ASSUME NEW w \in Workers, Commit(w)
      PROVE  \E r \in Rows : Atomic!Claim(r) \/ Atomic!Close(r)
  <2>1. pc[w] = "write" /\ choice[w] \in Rows /\ row[choice[w]] = "queued"
    BY <1>0, <1>6 DEF Commit, TypeOK, Queued
  <2>2. PICK r \in Rows : r = choice[w]
    BY <2>1
  <2>3. Seen[r] = "queued"
    BY <2>1, <2>2 DEF Seen
  <2>4. CASE row' = [row EXCEPT ![r] = "claimed"] /\ tried' = tried \cup {r}
    <3>1. Seen' = [Seen EXCEPT ![r] = "claimed"]
      BY <1>0, <2>4, SeenEffect
    <3>2. \A x \in Atomic!Fresh : r <= x
      BY <2>1, <2>2, SameClaims DEF OrderInv, ChoiceIsNext
    <3>3. Cardinality(Atomic!Claimed) < Limit
      BY <1>0, <2>1, SameClaims DEF LockInv, RoomLeft
    <3> QED
      BY <2>3, <2>4, <3>1, <3>2, <3>3, ClaimStep
  <2>5. CASE row' = [row EXCEPT ![r] = "closed"] /\ tried' = tried
    <3>1. Seen' = [Seen EXCEPT ![r] = "closed"]
      BY <1>0, <2>5, SeenEffect
    <3>2. Atomic!Close(r)
      BY <2>3, <2>5, <3>1 DEF Atomic!Close, Seen
    <3> QED
      BY <3>2
  <2> QED
    BY <1>6, <2>2, <2>4, <2>5 DEF Commit
<1>7. ASSUME NEW r \in Rows,
             Atomic!Arrive(r) \/ Atomic!Claim(r) \/ Atomic!Requeue(r) \/ Atomic!Close(r)
      PROVE  Shown
  BY <1>7 DEF Atomic!Next
<1>8. ASSUME NEW w \in Workers,
             \/ BeginTransaction(w) \/ LockOldest(w) \/ NothingActive(w) \/ Count(w)
             \/ LockCandidate(w) \/ NoCandidate(w) \/ Rollback(w)
      PROVE  UNCHANGED Atomic!vars
  BY <1>1, <1>8 DEF BeginTransaction, LockOldest, NothingActive, Count, LockCandidate, NoCandidate, Rollback
<1>9. ASSUME UNCHANGED vars PROVE UNCHANGED Atomic!vars
  BY <1>1, <1>9 DEF vars
<1>10. ASSUME UNCHANGED Atomic!vars PROVE Shown
  BY <1>10
<1> HIDE DEF Shown
<1>11. ASSUME NEW r \in Rows, Insert(r) \/ CommitInsert(r) \/ Close(r) \/ Requeue(r) PROVE Shown
  BY <1>2, <1>3, <1>4, <1>5, <1>7, <1>10, <1>11
<1>12. ASSUME NEW w \in Workers, Commit(w) PROVE Shown
  BY <1>6, <1>7, <1>12
<1>13. ASSUME NEW w \in Workers,
              \/ BeginTransaction(w) \/ LockOldest(w) \/ NothingActive(w) \/ Count(w)
              \/ LockCandidate(w) \/ NoCandidate(w) \/ Rollback(w)
       PROVE  Shown
  BY <1>8, <1>10, <1>13
<1>14. ASSUME UNCHANGED vars PROVE Shown
  BY <1>9, <1>10, <1>14
<1>15. ASSUME Next PROVE Shown
  <2>1. CASE \E r \in Rows : Insert(r) \/ CommitInsert(r) \/ Close(r) \/ Requeue(r)
    BY <1>11, <2>1
  <2>2. CASE \E w \in Workers :
               \/ BeginTransaction(w) \/ LockOldest(w) \/ NothingActive(w) \/ Count(w)
               \/ LockCandidate(w) \/ NoCandidate(w) \/ Commit(w) \/ Rollback(w)
    BY <1>12, <1>13, <2>2
  <2>3. \/ \E r \in Rows : Insert(r) \/ CommitInsert(r) \/ Close(r) \/ Requeue(r)
        \/ \E w \in Workers :
               \/ BeginTransaction(w) \/ LockOldest(w) \/ NothingActive(w) \/ Count(w)
               \/ LockCandidate(w) \/ NoCandidate(w) \/ Commit(w) \/ Rollback(w)
    BY <1>15 DEF Next
  <2> QED
    BY <2>1, <2>2, <2>3
<1> QED
  BY <1>14, <1>15 DEF Shown

\* The transaction of claim_next_playbook_dispatch implements the claim in one
\* step, for any number of rows and claimants, any limit, crash and interleaving
\* of statements, provided inserts commit in the order of their ids: no claim
\* goes beyond the limit, and no row that was never claimed is overtaken.
THEOREM ClaimIsAtomic == ASSUME CommitsInOrder PROVE Spec => ClaimsAtomically
<1>1. Init => Atomic!Init
  BY DEF Init, Atomic!Init
<1> QED
  BY <1>1, AtomicStep, OrderAlways, PTL DEF Spec, ClaimsAtomically, Atomic!Spec

=============================================================================
