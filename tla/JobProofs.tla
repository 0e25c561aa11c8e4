----------------------------- MODULE JobProofs ------------------------------
(* Safety of the durable job queue for every set of workers, keys and      *)
(* bounds; that the queue implements the ledger; and the scheduler over    *)
(* it, for every set of schedules and installations.                       *)
EXTENDS JobScheduler, JobQueueLedger, TLAPS

-----------------------------------------------------------------------------
(* The inductive invariant.                                                *)

\* Rows are inserted at the end.
RowsBeyond == \A j \in JobIds : j > created => rows[j] = NoRow

\* A claim is of a row that was inserted, and no newer than the row.
ClaimsKnown ==
    \A w \in Workers :
        /\ worker[w].job \in 0..created
        /\ worker[w].job # 0 /\ rows[worker[w].job].status # "absent"
           => worker[w].fence <= rows[worker[w].job].fence

\* Two claims of one job have different fences.
ClaimsDistinct ==
    \A v, w \in Workers :
        v # w /\ worker[v].job # 0 /\ worker[v].job = worker[w].job
        => worker[v].fence # worker[w].fence

\* A current claim remembers what the row says.
ClaimsCurrent ==
    \A w \in Workers : Owns(w) =>
        /\ worker[w].attempts = rows[worker[w].job].attempts
        /\ worker[w].kind = rows[worker[w].job].kind

\* The dedupe index admits one unfinished row of a key.
OneOpenPerKey ==
    \A i, j \in JobIds :
        /\ i # j
        /\ rows[i].status \in Unfinished
        /\ rows[j].status \in Unfinished
        /\ rows[i].key = rows[j].key
        => rows[i].key = NoKey

QueueInv ==
    /\ TypeOK
    /\ RowsBeyond
    /\ ClaimsKnown
    /\ ClaimsDistinct
    /\ ClaimsCurrent
    /\ OneOpenPerKey
    /\ AttemptsBounded

-----------------------------------------------------------------------------
(* What the row operators do.                                              *)

USE DEF JobIds, Kinds, Statuses, Finished, Unfinished, NoLease

\* Every way to write a row yields a row.
LEMMA RowsTyped ==
    ASSUME NEW r \in Rows, NEW key \in Keys \cup {NoKey}, NEW kind \in Kinds,
           NEW delay \in Nat, NEW status \in Finished, clock \in Nat
    PROVE  /\ NoRow \in Rows
           /\ Queued(kind, key) \in Rows
           /\ Claimed(r) \in Rows
           /\ Abandoned(r) \in Rows
           /\ Settled(r, status) \in Rows
           /\ Requeued(r, delay) \in Rows
           /\ r.attempts > 0 => Deferred(r) \in Rows
           /\ [r EXCEPT !.lease = clock + DeclaredLease] \in Rows
           /\ MaxAttempts(r) \in Nat \ {0}
<1>1. NoRow \in Rows /\ Queued(kind, key) \in Rows
  BY DEF Rows, NoRow, Queued
<1>2. /\ r.fence + 1 \in Nat /\ r.attempts + 1 \in Nat
      /\ clock + Lease \in Nat /\ clock + DeclaredLease \in Nat /\ clock + delay \in Nat
      /\ clock + Deferral \in Nat
  BY JobsAssumption DEF Rows
<1>3. Claimed(r) \in Rows
  <2>1. \A fence, attempts, lease \in Nat :
          [r EXCEPT !.status = "running", !.fence = fence,
                    !.attempts = attempts, !.lease = lease] \in Rows
    BY DEF Rows
  <2> QED BY <1>2, <2>1 DEF Claimed
<1>4. Abandoned(r) \in Rows
  <2>1. \A fence \in Nat : [r EXCEPT !.status = "failed", !.fence = fence,
                                     !.lease = 0, !.key = NoKey] \in Rows
    BY DEF Rows
  <2> QED BY <1>2, <2>1 DEF Abandoned
<1>5. Settled(r, status) \in Rows
  BY DEF Rows, Settled
<1>6. Requeued(r, delay) \in Rows /\ Requeued(r, Deferral) \in Rows
  <2>1. \A available \in Nat : [r EXCEPT !.status = "pending", !.lease = 0,
                                         !.available = available] \in Rows
    BY DEF Rows
  <2> QED BY <1>2, <2>1 DEF Requeued
<1>7. r.attempts > 0 => Deferred(r) \in Rows
  <2> SUFFICES ASSUME r.attempts > 0 PROVE Deferred(r) \in Rows
    OBVIOUS
  <2>1. /\ Requeued(r, Deferral).attempts = r.attempts
        /\ Requeued(r, Deferral).fence = r.fence
    BY DEF Rows, Requeued
  <2>2. r.attempts - 1 \in Nat
    BY DEF Rows
  <2>3. \A q \in Rows, fence, attempts \in Nat :
          [q EXCEPT !.attempts = attempts, !.fence = fence] \in Rows
    BY DEF Rows
  <2> QED BY <1>2, <1>6, <2>1, <2>2, <2>3, Zenon DEF Deferred
<1>8. [r EXCEPT !.lease = clock + DeclaredLease] \in Rows
  BY <1>2 DEF Rows
<1>9. MaxAttempts(r) \in Nat \ {0}
  BY JobsAssumption DEF MaxAttempts
<1> QED BY <1>1, <1>3, <1>4, <1>5, <1>6, <1>7, <1>8, <1>9

\* What each way to write a row changes of what the invariant reads.
LEMMA RowFields ==
    ASSUME NEW r \in Rows, NEW delay \in Nat, NEW status \in Finished, clock \in Nat
    PROVE  /\ LET c == Claimed(r) IN
                /\ c.status = "running" /\ c.kind = r.kind /\ c.key = r.key
                /\ c.attempts = r.attempts + 1 /\ c.fence = r.fence + 1
           /\ LET c == Abandoned(r) IN
                /\ c.status = "failed" /\ c.fence = r.fence + 1
           /\ LET c == Settled(r, status) IN
                /\ c.status = status /\ c.fence = r.fence
           /\ LET c == Requeued(r, delay) IN
                /\ c.status = "pending" /\ c.kind = r.kind /\ c.key = r.key
                /\ c.attempts = r.attempts /\ c.fence = r.fence
           /\ LET c == Deferred(r) IN
                /\ c.status = "pending" /\ c.kind = r.kind /\ c.key = r.key
                /\ c.attempts = r.attempts - 1 /\ c.fence = r.fence + 1
           /\ LET c == [r EXCEPT !.lease = clock + DeclaredLease] IN
                /\ c.status = r.status /\ c.kind = r.kind /\ c.key = r.key
                /\ c.attempts = r.attempts /\ c.fence = r.fence
<1>1. LET c == Claimed(r) IN
        /\ c.status = "running" /\ c.kind = r.kind /\ c.key = r.key
        /\ c.attempts = r.attempts + 1 /\ c.fence = r.fence + 1
  BY DEF Rows, Claimed
<1>2. LET c == Abandoned(r) IN c.status = "failed" /\ c.fence = r.fence + 1
  BY DEF Rows, Abandoned
<1>3. LET c == Settled(r, status) IN c.status = status /\ c.fence = r.fence
  BY DEF Rows, Settled
<1>4. \A d \in Nat : LET c == Requeued(r, d) IN
        /\ c \in Rows
        /\ c.status = "pending" /\ c.kind = r.kind /\ c.key = r.key
        /\ c.attempts = r.attempts /\ c.fence = r.fence
  <2> SUFFICES ASSUME NEW d \in Nat
               PROVE  LET c == Requeued(r, d) IN
                        /\ c \in Rows
                        /\ c.status = "pending" /\ c.kind = r.kind /\ c.key = r.key
                        /\ c.attempts = r.attempts /\ c.fence = r.fence
    OBVIOUS
  <2>1. Requeued(r, d) \in Rows
    BY RowsTyped DEF Keys
  <2>2. LET c == Requeued(r, d) IN
          /\ c.status = "pending" /\ c.kind = r.kind /\ c.key = r.key
          /\ c.attempts = r.attempts /\ c.fence = r.fence
    BY DEF Rows, Requeued
  <2> QED BY <2>1, <2>2
<1>5. LET c == Deferred(r) IN
        /\ c.status = "pending" /\ c.kind = r.kind /\ c.key = r.key
        /\ c.attempts = r.attempts - 1 /\ c.fence = r.fence + 1
  <2> DEFINE q == Requeued(r, Deferral)
  <2>1. /\ q \in Rows
        /\ q.status = "pending" /\ q.kind = r.kind /\ q.key = r.key
        /\ q.attempts = r.attempts /\ q.fence = r.fence
    BY <1>4, JobsAssumption
  <2>2. Deferred(r) = [q EXCEPT !.attempts = @ - 1, !.fence = @ + 1]
    BY DEF Deferred
  <2> HIDE DEF q
  <2> QED BY <2>1, <2>2 DEF Rows
<1>6. LET c == [r EXCEPT !.lease = clock + DeclaredLease] IN
        /\ c.status = r.status /\ c.kind = r.kind /\ c.key = r.key
        /\ c.attempts = r.attempts /\ c.fence = r.fence
  BY DEF Rows
<1> QED BY <1>1, <1>2, <1>3, <1>4, <1>5, <1>6

\* The backoff is a delay.
LEMMA BackoffTyped ==
    ASSUME NEW attempt \in Nat
    PROVE  BackoffFor(attempt) \in 0..BackoffCap
  BY JobsAssumption DEF BackoffFor

\* The claims that own their row.
LEMMA OwnersRow ==
    ASSUME QueueInv, NEW w \in Workers, Owns(w)
    PROVE  /\ worker[w].job \in JobIds
           /\ worker[w].job # 0
           /\ rows[worker[w].job] \in Rows
           /\ rows[worker[w].job].status = "running"
           /\ worker[w].fence = rows[worker[w].job].fence
           /\ worker[w].attempts = rows[worker[w].job].attempts
           /\ worker[w].kind = rows[worker[w].job].kind
           /\ rows[worker[w].job].attempts \in 1..MaxAttempts(rows[worker[w].job])
  BY JobsAssumption DEF QueueInv, TypeOK, Owns, ClaimsCurrent, AttemptsBounded

\* The queue starts empty.
LEMMA InitInv == Init => QueueInv
  BY JobsAssumption DEF Init, QueueInv, TypeOK, Rows, WorkerStates, NoRow, NoClaim,
     RowsBeyond, ClaimsKnown, ClaimsDistinct, ClaimsCurrent, Owns, OneOpenPerKey,
     AttemptsBounded

-----------------------------------------------------------------------------
(* Every step but an insertion moves rows and at most one claim.           *)

\* A row is closed, or stays open under its key with an attempt left to run
\* or running; while its fence stands, so does the run it belongs to.
RowMoves(j) ==
    LET r == rows[j]
        q == rows'[j]
    IN  /\ q.status # "absent" => r.status # "absent" /\ r.fence <= q.fence
        /\ q.status \in Unfinished => r.status \in Unfinished /\ q.key = r.key
        /\ q.status = "running" /\ q.fence = r.fence
           => r.status = "running" /\ q.attempts = r.attempts /\ q.kind = r.kind
        /\ q.status = "pending" => q.attempts < MaxAttempts(q)
        /\ q.status = "running" => q.attempts \in 1..MaxAttempts(q)

SameClaim(w) ==
    /\ worker'[w].job = worker[w].job
    /\ worker'[w].kind = worker[w].kind
    /\ worker'[w].fence = worker[w].fence
    /\ worker'[w].attempts = worker[w].attempts

\* A new claim raises the fence of its row.
NewClaim(w) ==
    LET j == worker'[w].job IN
    /\ j \in JobIds /\ j <= created
    /\ rows[j].status # "absent"
    /\ rows'[j].fence = rows[j].fence + 1
    /\ worker'[w].fence = rows'[j].fence
    /\ worker'[w].attempts = rows'[j].attempts
    /\ worker'[w].kind = rows'[j].kind

LEMMA MovePreserves ==
    ASSUME QueueInv, NEW w \in Workers,
           clock' \in Nat, created' = created,
           rows' \in [JobIds -> Rows], worker' \in [Workers -> WorkerStates],
           \A j \in JobIds : rows'[j] = rows[j] \/ (j <= created /\ RowMoves(j)),
           \A v \in Workers \ {w} : SameClaim(v),
           SameClaim(w) \/ worker'[w].job = 0 \/ NewClaim(w)
    PROVE  QueueInv'
<1> USE JobsAssumption
<1>0. /\ created \in 0..MaxJobs
      /\ rows \in [JobIds -> Rows]
      /\ worker \in [Workers -> WorkerStates]
  BY DEF QueueInv, TypeOK
<1>1. \A j \in JobIds :
        /\ rows[j].fence \in Nat /\ rows'[j].fence \in Nat
        /\ rows[j].attempts \in Nat /\ rows'[j].attempts \in Nat
        /\ rows[j].key \in Keys \cup {NoKey}
  BY <1>0 DEF Rows
<1>2. \A v \in Workers :
        /\ worker[v].job \in Nat /\ worker'[v].job \in Nat
        /\ worker[v].fence \in Nat /\ worker'[v].fence \in Nat
  BY <1>0 DEF WorkerStates
<1>3. \A j \in JobIds : RowMoves(j)
  <2> SUFFICES ASSUME NEW j \in JobIds, rows'[j] = rows[j] PROVE RowMoves(j)
    OBVIOUS
  <2> QED BY <1>1 DEF RowMoves, QueueInv, AttemptsBounded
<1>4. TypeOK'
  BY <1>0 DEF TypeOK
<1>5. RowsBeyond'
  BY <1>0 DEF QueueInv, RowsBeyond
<1>6. ClaimsKnown'
  <2> SUFFICES ASSUME NEW v \in Workers
               PROVE  /\ worker'[v].job \in 0..created
                      /\ worker'[v].job # 0 /\ rows'[worker'[v].job].status # "absent"
                         => worker'[v].fence <= rows'[worker'[v].job].fence
    BY DEF ClaimsKnown
  <2>1. CASE SameClaim(v)
    <3>1. worker[v].job \in 0..created
      BY DEF QueueInv, ClaimsKnown
    <3>2. ASSUME worker[v].job # 0, rows'[worker[v].job].status # "absent"
          PROVE  worker[v].fence <= rows'[worker[v].job].fence
      <4>1. worker[v].job \in JobIds
        BY <1>0, <3>1, <3>2
      <4>2. /\ rows[worker[v].job].status # "absent"
            /\ rows[worker[v].job].fence <= rows'[worker[v].job].fence
        BY <1>3, <3>2, <4>1 DEF RowMoves
      <4>3. worker[v].fence <= rows[worker[v].job].fence
        BY <3>2, <4>2 DEF QueueInv, ClaimsKnown
      <4> QED BY <1>1, <1>2, <4>1, <4>2, <4>3
    <3> QED BY <2>1, <3>1, <3>2 DEF SameClaim
  <2>2. CASE worker'[v].job = 0
    BY <1>0, <2>2
  <2>3. CASE NewClaim(v)
    BY <1>0, <1>1, <1>2, <2>3 DEF NewClaim
  <2> QED BY <2>1, <2>2, <2>3
<1>7. ClaimsDistinct'
  <2> SUFFICES ASSUME NEW u \in Workers, NEW v \in Workers, u # v,
                      worker'[u].job # 0, worker'[u].job = worker'[v].job
               PROVE  worker'[u].fence # worker'[v].fence
    BY DEF ClaimsDistinct
  <2>1. CASE SameClaim(u) /\ SameClaim(v)
    BY <2>1, ZenonT(30) DEF SameClaim, QueueInv, ClaimsDistinct
  <2>2. ASSUME NEW n \in Workers, NEW o \in Workers, NewClaim(n), SameClaim(o),
               worker'[n].job = worker'[o].job
        PROVE  worker'[o].fence < worker'[n].fence
    <3>1. worker[o].fence <= rows[worker'[n].job].fence
      BY <2>2 DEF NewClaim, SameClaim, QueueInv, ClaimsKnown
    <3> QED BY <1>1, <1>2, <2>2, <3>1 DEF NewClaim, SameClaim
  <2> QED BY <1>2, <2>1, <2>2
<1>8. ClaimsCurrent'
  <2> SUFFICES ASSUME NEW v \in Workers, Owns(v)'
               PROVE  /\ worker'[v].attempts = rows'[worker'[v].job].attempts
                      /\ worker'[v].kind = rows'[worker'[v].job].kind
    BY DEF ClaimsCurrent
  <2> DEFINE j == worker'[v].job
  <2>1. j \in JobIds /\ rows'[j].status = "running" /\ rows'[j].fence = worker'[v].fence
    BY DEF Owns
  <2>2. CASE SameClaim(v)
    <3>1. worker[v].job = j /\ j # 0
      BY <2>1, <2>2 DEF SameClaim
    <3>2. rows[j].status # "absent" /\ rows[j].fence <= rows'[j].fence
      BY <1>3, <2>1 DEF RowMoves
    <3>3. worker[v].fence <= rows[j].fence
      BY <3>1, <3>2 DEF QueueInv, ClaimsKnown
    <3>4. rows'[j].fence = rows[j].fence
      BY <1>1, <1>2, <2>1, <2>2, <3>2, <3>3 DEF SameClaim
    <3>5. /\ rows[j].status = "running"
          /\ rows'[j].attempts = rows[j].attempts /\ rows'[j].kind = rows[j].kind
      BY <1>3, <2>1, <3>4 DEF RowMoves
    <3>6. Owns(v)
      BY <2>1, <2>2, <3>1, <3>4, <3>5 DEF Owns, SameClaim
    <3> QED BY <2>2, <3>1, <3>5, <3>6 DEF QueueInv, ClaimsCurrent, SameClaim
  <2>3. CASE j = 0
    BY <2>1, <2>3
  <2>4. CASE NewClaim(v)
    BY <2>4 DEF NewClaim
  <2> QED BY <2>2, <2>3, <2>4
<1>9. OneOpenPerKey'
  <2> SUFFICES ASSUME NEW i \in JobIds, NEW j \in JobIds, i # j,
                      rows'[i].status \in Unfinished, rows'[j].status \in Unfinished,
                      rows'[i].key = rows'[j].key
               PROVE  rows'[i].key = NoKey
    BY DEF OneOpenPerKey
  <2>1. /\ rows[i].status \in Unfinished /\ rows'[i].key = rows[i].key
        /\ rows[j].status \in Unfinished /\ rows'[j].key = rows[j].key
    BY <1>3 DEF RowMoves
  <2> QED BY <2>1 DEF QueueInv, OneOpenPerKey
<1>10. AttemptsBounded'
  <2>1. \A j \in JobIds : MaxAttempts(rows[j])' = MaxAttempts(rows'[j])
    BY DEF MaxAttempts
  <2> QED BY <1>3, <2>1 DEF RowMoves, AttemptsBounded
<1> QED BY <1>4, <1>5, <1>6, <1>7, <1>8, <1>9, <1>10 DEF QueueInv

-----------------------------------------------------------------------------
(* The actions.                                                            *)

LEMMA EnqueuePreserves ==
    ASSUME QueueInv, NEW kind \in Kinds, NEW key \in Keys \cup {NoKey}, Enqueue(kind, key)
    PROVE  QueueInv'
<1> USE JobsAssumption
<1> DEFINE n == created + 1
<1>0. /\ clock \in Nat
      /\ created \in 0..MaxJobs
      /\ rows \in [JobIds -> Rows]
      /\ worker \in [Workers -> WorkerStates]
      /\ n \in JobIds /\ created' = n /\ worker' = worker /\ clock' = clock
      /\ rows' = [rows EXCEPT ![n] = Queued(kind, key)]
      /\ ~InFlight(key)
  BY DEF QueueInv, TypeOK, Enqueue
<1>1. /\ Queued(kind, key) \in Rows
      /\ Queued(kind, key).status = "pending"
      /\ Queued(kind, key).key = key
      /\ Queued(kind, key).attempts = 0
  <2>1. Queued(kind, key) \in Rows
    BY <1>0 DEF Rows, NoRow, Queued
  <2> QED BY <2>1 DEF Queued, NoRow
<1>2. rows[n].status = "absent"
  BY <1>0 DEF QueueInv, RowsBeyond, NoRow
<1>3. \A j \in JobIds : rows'[j] = IF j = n THEN Queued(kind, key) ELSE rows[j]
  BY <1>0
<1>4. \A w \in Workers : worker[w].job \in 0..created /\ worker[w].job # n
  BY <1>0 DEF QueueInv, ClaimsKnown
<1>5. \A w \in Workers : worker[w].job # 0 => rows'[worker[w].job] = rows[worker[w].job]
  BY <1>0, <1>3, <1>4
<1> HIDE DEF n
<1>6. TypeOK'
  BY <1>0, <1>1 DEF TypeOK
<1>7. RowsBeyond'
  BY <1>0, <1>3 DEF QueueInv, RowsBeyond, n
<1>8. ClaimsKnown'
  BY <1>0, <1>4, <1>5 DEF QueueInv, ClaimsKnown, n
<1>9. ClaimsDistinct'
  BY <1>0 DEF QueueInv, ClaimsDistinct
<1>10. ClaimsCurrent'
  BY <1>0, <1>4, <1>5 DEF QueueInv, ClaimsCurrent, Owns
<1>11. OneOpenPerKey'
  BY <1>0, <1>1, <1>2, <1>3 DEF QueueInv, OneOpenPerKey, InFlight
<1>12. AttemptsBounded'
  BY <1>0, <1>1, <1>3 DEF QueueInv, AttemptsBounded, MaxAttempts
<1> QED BY <1>6, <1>7, <1>8, <1>9, <1>10, <1>11, <1>12 DEF QueueInv

\* The rows a claim touches: the one taken, and the spent ones it retires.
LEMMA ClaimRows ==
    ASSUME QueueInv, NEW j \in JobIds
    PROVE  /\ Spent(rows[j]) => /\ Abandoned(rows[j]) \in Rows
                                /\ rows'[j] = Abandoned(rows[j]) => RowMoves(j)
                                /\ j <= created
           /\ j \in Takeable => /\ Claimed(rows[j]) \in Rows
                                /\ rows'[j] = Claimed(rows[j]) => RowMoves(j)
                                /\ j <= created
<1> USE JobsAssumption
<1>0. /\ rows[j] \in Rows /\ clock \in Nat /\ created \in Nat
      /\ rows[j].fence \in Nat /\ rows[j].attempts \in Nat
  BY DEF QueueInv, TypeOK, Rows
<1>1. ASSUME Spent(rows[j]) \/ j \in Takeable
      PROVE  /\ rows[j].status \in Unfinished
             /\ j <= created
  BY <1>0, <1>1 DEF Spent, Takeable, Claimable, Lapsed, QueueInv, RowsBeyond, NoRow
<1>2. ASSUME j \in Takeable
      PROVE  rows[j].attempts < MaxAttempts(rows[j])
  BY <1>0, <1>2 DEF Takeable, Spent, Claimable, Exhausted, QueueInv, AttemptsBounded, MaxAttempts
<1>3. /\ Abandoned(rows[j]) \in Rows /\ Claimed(rows[j]) \in Rows
      /\ MaxAttempts(rows[j]) \in Nat
  <2> NoKey \in Keys \cup {NoKey} /\ "operation" \in Kinds /\ "failed" \in Finished /\ 0 \in Nat
    OBVIOUS
  <2> QED BY <1>0, RowsTyped
<1>4. /\ Abandoned(rows[j]).status = "failed"
      /\ Abandoned(rows[j]).fence = rows[j].fence + 1
      /\ Claimed(rows[j]).status = "running"
      /\ Claimed(rows[j]).key = rows[j].key
      /\ Claimed(rows[j]).kind = rows[j].kind
      /\ Claimed(rows[j]).fence = rows[j].fence + 1
      /\ Claimed(rows[j]).attempts = rows[j].attempts + 1
  <2> "failed" \in Finished /\ 0 \in Nat
    OBVIOUS
  <2> QED BY <1>0, RowFields
<1>5. MaxAttempts(Claimed(rows[j])) = MaxAttempts(rows[j])
  BY <1>4 DEF MaxAttempts
<1> QED BY <1>0, <1>1, <1>2, <1>3, <1>4, <1>5 DEF RowMoves

LEMMA ClaimPreserves ==
    ASSUME QueueInv, NEW w \in Workers, Claim(w)
    PROVE  QueueInv'
<1> USE JobsAssumption
<1>0. /\ clock \in Nat /\ clock' = clock /\ created' = created
      /\ rows \in [JobIds -> Rows]
      /\ worker \in [Workers -> WorkerStates]
  BY DEF QueueInv, TypeOK, Claim
<1>1. PICK j \in JobIds :
        /\ Oldest(j)
        /\ rows' = AfterClaim(j)
        /\ worker' = [worker EXCEPT ![w] =
               [pc |-> IF rows[j].kind = "scheduled" THEN "holding" ELSE "running",
                job |-> j,
                kind |-> rows[j].kind,
                fence |-> Claimed(rows[j]).fence,
                attempts |-> Claimed(rows[j]).attempts]]
  BY DEF Claim
<1>2. j \in Takeable
  BY <1>1 DEF Oldest
<1>3. \A i \in JobIds :
        \/ rows'[i] = rows[i]
        \/ Spent(rows[i]) /\ rows'[i] = Abandoned(rows[i])
        \/ i \in Takeable /\ rows'[i] = Claimed(rows[i])
  BY <1>1, <1>2 DEF AfterClaim
<1>4. \A i \in JobIds : rows'[i] = rows[i] \/ (i <= created /\ RowMoves(i))
  BY <1>3, ClaimRows
<1>5. rows' \in [JobIds -> Rows]
  <2>1. \A i \in JobIds : rows'[i] \in Rows
    BY <1>0, <1>3, ClaimRows
  <2> QED BY <1>1, <2>1 DEF AfterClaim
<1>6. /\ rows'[j] = Claimed(rows[j]) /\ rows[j] \in Rows /\ j <= created
      /\ Claimed(rows[j]) \in Rows
  BY <1>0, <1>1, <1>2, ClaimRows DEF AfterClaim
<1>7. /\ Claimed(rows[j]).fence = rows[j].fence + 1
      /\ Claimed(rows[j]).kind = rows[j].kind
      /\ Claimed(rows[j]).fence \in Nat
      /\ Claimed(rows[j]).attempts \in Nat
      /\ rows[j].kind \in Kinds
  <2> "failed" \in Finished /\ 0 \in Nat
    OBVIOUS
  <2>1. Claimed(rows[j]).fence = rows[j].fence + 1 /\ Claimed(rows[j]).kind = rows[j].kind
    BY <1>0, <1>6, RowFields
  <2> QED BY <1>6, <2>1 DEF Rows
<1>8. worker' \in [Workers -> WorkerStates]
  BY <1>0, <1>1, <1>7 DEF WorkerStates
<1>9. NewClaim(w)
  <2>1. rows[j].status # "absent"
    BY <1>2 DEF Takeable, Claimable, Lapsed
  <2> QED BY <1>0, <1>1, <1>6, <1>7, <2>1 DEF NewClaim
<1>10. \A v \in Workers \ {w} : SameClaim(v)
  BY <1>0, <1>1 DEF SameClaim
<1> HIDE DEF QueueInv
<1> QED BY <1>0, <1>4, <1>5, <1>8, <1>9, <1>10, MovePreserves

LEMMA RetireOnlyPreserves ==
    ASSUME QueueInv, NEW w \in Workers, RetireOnly(w)
    PROVE  QueueInv'
<1> USE JobsAssumption
<1>0. /\ clock \in Nat /\ clock' = clock /\ created' = created /\ worker' = worker
      /\ rows \in [JobIds -> Rows] /\ rows' = AfterRetiring
      /\ worker \in [Workers -> WorkerStates]
  BY DEF QueueInv, TypeOK, RetireOnly
<1>1. \A i \in JobIds :
        rows'[i] = rows[i] \/ (Spent(rows[i]) /\ rows'[i] = Abandoned(rows[i]))
  BY <1>0 DEF AfterRetiring
<1>2. \A i \in JobIds : rows'[i] = rows[i] \/ (i <= created /\ RowMoves(i))
  BY <1>1, ClaimRows
<1>3. rows' \in [JobIds -> Rows]
  <2>1. \A i \in JobIds : rows'[i] \in Rows
    BY <1>0, <1>1, ClaimRows
  <2> QED BY <1>0, <2>1 DEF AfterRetiring
<1>4. \A v \in Workers : SameClaim(v)
  BY <1>0 DEF SameClaim
<1> QED BY <1>0, <1>2, <1>3, <1>4, MovePreserves

\* A worker that owns its row writes it; one that does not changes nothing.
LEMMA ReportPreserves ==
    ASSUME QueueInv, NEW w \in Workers, NEW new,
           NEW pc \in {"running", "pruning"},
           clock' = clock, created' = created,
           worker' = [worker EXCEPT ![w].pc = pc],
           rows' = Recorded(w, new) \/ rows' = rows,
           LET r == rows[worker[w].job] IN
           rows' # rows =>
             /\ new \in Rows
             /\ new.status # "absent" /\ r.fence <= new.fence
             /\ new.status \in Unfinished => new.key = r.key
             /\ new.status = "running" =>
                  /\ new.kind = r.kind
                  /\ new.attempts = r.attempts
             /\ new.status = "pending" => new.attempts < MaxAttempts(new)
    PROVE  QueueInv'
<1> USE JobsAssumption
<1>0. /\ clock \in Nat /\ created \in 0..MaxJobs
      /\ rows \in [JobIds -> Rows]
      /\ worker \in [Workers -> WorkerStates]
  BY DEF QueueInv, TypeOK
<1>1. worker' \in [Workers -> WorkerStates]
  BY <1>0, ZenonT(30) DEF WorkerStates
<1>2. \A v \in Workers : SameClaim(v)
  BY <1>0 DEF SameClaim, WorkerStates
<1>3. CASE rows' = rows
  <2> HIDE DEF QueueInv
  <2> QED BY <1>0, <1>1, <1>2, <1>3, MovePreserves
<1>4. CASE rows' # rows
  <2> DEFINE k == worker[w].job
             r == rows[k]
  <2>1. Owns(w) /\ rows' = [rows EXCEPT ![k] = new]
    BY <1>4 DEF Recorded
  <2>2. /\ k \in JobIds /\ r \in Rows /\ r.status = "running"
        /\ r.attempts \in 1..MaxAttempts(r)
    BY <2>1, OwnersRow
  <2>3. k <= created
    BY <1>0, <2>2 DEF QueueInv, ClaimsKnown
  <2>4. rows' \in [JobIds -> Rows]
    BY <1>0, <1>4, <2>1, <2>2
  <2>5. rows'[k] = new
    BY <1>0, <2>1, <2>2
  <2>6. new.status = "running" => MaxAttempts(new) = MaxAttempts(r)
    BY <1>4 DEF MaxAttempts
  <2>7. RowMoves(k)
    BY <1>4, <2>2, <2>5, <2>6 DEF RowMoves
  <2>8. \A i \in JobIds : rows'[i] = rows[i] \/ (i <= created /\ RowMoves(i))
    BY <1>0, <2>1, <2>3, <2>7
  <2> HIDE DEF QueueInv, k, r
  <2> QED BY <1>0, <1>1, <1>2, <2>4, <2>8, MovePreserves
<1> QED BY <1>3, <1>4

LEMMA HoldPreserves ==
    ASSUME QueueInv, NEW w \in Workers, NEW declared \in BOOLEAN, Hold(w, declared)
    PROVE  QueueInv'
<1> DEFINE r == rows[worker[w].job]
           new == [r EXCEPT !.lease = clock + DeclaredLease]
<1>1. /\ clock' = clock /\ created' = created
      /\ worker' = [worker EXCEPT ![w].pc = "running"]
      /\ rows' = Recorded(w, new) \/ rows' = rows
  BY DEF Hold
<1>2. ASSUME rows' # rows
      PROVE  /\ new \in Rows /\ new.status = "running" /\ new.fence = r.fence
             /\ new.key = r.key /\ new.kind = r.kind /\ new.attempts = r.attempts
             /\ r.fence \in Nat
  <2>1. Owns(w)
    BY <1>1, <1>2 DEF Recorded
  <2>2. /\ r \in Rows /\ r.status = "running" /\ clock \in Nat
        /\ NoKey \in Keys \cup {NoKey} /\ "operation" \in Kinds
        /\ "failed" \in Finished /\ 0 \in Nat
    BY <2>1, OwnersRow DEF QueueInv, TypeOK
  <2>3. r.fence \in Nat
    BY <2>2 DEF Rows
  <2> HIDE DEF r
  <2> QED BY <2>2, <2>3, RowsTyped, RowFields
<1> HIDE DEF r, new, QueueInv
<1>3. new.status = "running" => rows[worker[w].job].fence <= new.fence \/ rows' = rows
  BY <1>2 DEF r
<1> QED BY <1>1, <1>2, <1>3, ReportPreserves DEF r

\* A report that finishes the job, or gives it back with an attempt left.
LEMMA OutcomePreserves ==
    ASSUME QueueInv, NEW w \in Workers, NEW new,
           Report(w, Recorded(w, new)) \/ Report(w, rows),
           Owns(w) =>
             \/ \E status \in Finished : new = Settled(Held(w), status)
             \/ /\ Held(w).attempts < MaxAttempts(Held(w))
                /\ \E delay \in Nat : new = Requeued(Held(w), delay)
             \/ new = Deferred(Held(w)) /\ Held(w).attempts > 0
    PROVE  QueueInv'
<1> DEFINE r == rows[worker[w].job]
<1>1. /\ clock' = clock /\ created' = created
      /\ worker' = [worker EXCEPT ![w].pc = "pruning"]
      /\ rows' = Recorded(w, new) \/ rows' = rows
  BY DEF Report
<1>2. ASSUME rows' # rows
      PROVE  /\ new \in Rows /\ new.status \in {"pending", "succeeded", "failed"}
             /\ r.fence <= new.fence
             /\ new.status \in Unfinished => new.key = r.key
             /\ new.status = "pending" => new.attempts < MaxAttempts(new)
  <2>1. Owns(w)
    BY <1>1, <1>2 DEF Recorded
  <2>2. /\ r \in Rows /\ clock \in Nat /\ r.attempts \in 1..MaxAttempts(r)
        /\ NoKey \in Keys \cup {NoKey} /\ "operation" \in Kinds
        /\ "failed" \in Finished /\ 0 \in Nat
    BY <2>1, OwnersRow DEF QueueInv, TypeOK
  <2>3. r.fence \in Nat /\ r.attempts \in Nat /\ MaxAttempts(r) \in Nat
    BY <2>2, JobsAssumption DEF Rows, MaxAttempts
  <2>4. Held(w) = r
    BY DEF Held
  <2> HIDE DEF r
  <2>5. CASE \E status \in Finished : new = Settled(r, status)
    <3>1. PICK status \in Finished : new = Settled(r, status)
      BY <2>5
    <3>2. Settled(r, status) \in Rows
      BY <2>2, RowsTyped
    <3>3. Settled(r, status).status = status /\ Settled(r, status).fence = r.fence
      BY <2>2, RowFields
    <3> QED BY <2>3, <3>1, <3>2, <3>3
  <2>6. CASE r.attempts < MaxAttempts(r) /\ \E delay \in Nat : new = Requeued(r, delay)
    <3>1. PICK delay \in Nat : new = Requeued(r, delay)
      BY <2>6
    <3>2. Requeued(r, delay) \in Rows
      BY <2>2, RowsTyped
    <3>3. LET c == Requeued(r, delay) IN
            /\ c.status = "pending" /\ c.kind = r.kind /\ c.key = r.key
            /\ c.attempts = r.attempts /\ c.fence = r.fence
      BY <2>2, RowFields
    <3>4. MaxAttempts(new) = MaxAttempts(r)
      BY <3>1, <3>3 DEF MaxAttempts
    <3> QED BY <2>3, <2>6, <3>1, <3>2, <3>3, <3>4
  <2>7. CASE new = Deferred(r) /\ r.attempts > 0
    <3>1. /\ new \in Rows /\ new.status = "pending" /\ new.kind = r.kind
          /\ new.key = r.key /\ new.attempts = r.attempts - 1 /\ new.fence = r.fence + 1
      BY <2>2, <2>7, RowsTyped, RowFields
    <3>2. MaxAttempts(new) = MaxAttempts(r)
      BY <3>1 DEF MaxAttempts
    <3> QED BY <2>2, <2>3, <3>1, <3>2
  <2> QED BY <2>1, <2>4, <2>5, <2>6, <2>7
<1> HIDE DEF r, QueueInv
<1> QED BY <1>1, <1>2, ReportPreserves DEF r

LEMMA CompletePreserves ==
    ASSUME QueueInv, NEW w \in Workers, Complete(w)
    PROVE  QueueInv'
<1>1. Report(w, Recorded(w, Settled(Held(w), "succeeded")))
  BY DEF Complete
<1> QED BY <1>1, OutcomePreserves

LEMMA FailForGoodPreserves ==
    ASSUME QueueInv, NEW w \in Workers, FailForGood(w)
    PROVE  QueueInv'
<1>1. Report(w, Recorded(w, Settled(Held(w), "failed")))
  BY DEF FailForGood
<1> QED BY <1>1, OutcomePreserves

\* `exhausted` is asked of the claim, which an owner's row agrees with.
LEMMA FailOrRetryPreserves ==
    ASSUME QueueInv, NEW w \in Workers, FailOrRetry(w)
    PROVE  QueueInv'
<1> DEFINE new == IF Exhausted(worker[w])
                  THEN Settled(Held(w), "failed")
                  ELSE Requeued(Held(w), BackoffFor(worker[w].attempts))
<1>1. Report(w, Recorded(w, new))
  BY DEF FailOrRetry
<1>2. BackoffFor(worker[w].attempts) \in Nat
  <2>1. worker[w].attempts \in Nat
    BY DEF QueueInv, TypeOK, WorkerStates
  <2>2. BackoffFor(worker[w].attempts) \in 0..BackoffCap
    BY <2>1, BackoffTyped
  <2> QED BY <2>2, JobsAssumption
<1>3. ASSUME Owns(w), ~Exhausted(worker[w])
      PROVE  Held(w).attempts < MaxAttempts(Held(w))
  <2>1. /\ worker[w].attempts = Held(w).attempts
        /\ worker[w].kind = Held(w).kind
        /\ Held(w).attempts \in 1..MaxAttempts(Held(w))
    BY <1>3, OwnersRow DEF Held
  <2>2. MaxAttempts(worker[w]) = MaxAttempts(Held(w)) /\ MaxAttempts(Held(w)) \in Nat
    BY <2>1, JobsAssumption DEF MaxAttempts
  <2>3. ~(worker[w].attempts >= MaxAttempts(worker[w]))
    BY <1>3 DEF Exhausted
  <2> QED BY <2>1, <2>2, <2>3
<1>4. Owns(w) =>
        \/ new = Settled(Held(w), "failed")
        \/ /\ Held(w).attempts < MaxAttempts(Held(w))
           /\ \E delay \in Nat : new = Requeued(Held(w), delay)
  BY <1>2, <1>3
<1> HIDE DEF new
<1> QED BY <1>1, <1>4, OutcomePreserves

LEMMA DeferPreserves ==
    ASSUME QueueInv, NEW w \in Workers, Defer(w)
    PROVE  QueueInv'
<1>1. CASE Owns(w) /\ Held(w).attempts > 0
  <2>1. Report(w, Recorded(w, Deferred(Held(w))))
    BY <1>1 DEF Defer
  <2> QED BY <1>1, <2>1, OutcomePreserves
<1>2. CASE ~(Owns(w) /\ Held(w).attempts > 0)
  <2>1. Report(w, rows)
    BY <1>2 DEF Defer
  <2>2. Report(w, rows) \/ Report(w, Recorded(w, Settled(Held(w), "failed")))
    BY <2>1
  <2> QED BY <2>2, OutcomePreserves
<1> QED BY <1>1, <1>2

LEMMA PrunePreserves ==
    ASSUME QueueInv, NEW w \in Workers, Prune(w)
    PROVE  QueueInv'
<1> USE JobsAssumption
<1>0. /\ clock \in Nat /\ clock' = clock /\ created' = created /\ created \in Nat
      /\ rows \in [JobIds -> Rows]
      /\ rows' = [j \in JobIds |-> IF Prunable(j) THEN NoRow ELSE rows[j]]
      /\ worker \in [Workers -> WorkerStates]
      /\ worker' = [worker EXCEPT ![w] = NoClaim]
  BY DEF QueueInv, TypeOK, Prune
<1>1. NoRow \in Rows /\ NoRow.status = "absent" /\ NoClaim \in WorkerStates /\ NoClaim.job = 0
  BY DEF NoRow, Rows, NoClaim, WorkerStates
<1>2. rows' \in [JobIds -> Rows] /\ worker' \in [Workers -> WorkerStates]
  BY <1>0, <1>1
<1>3. ASSUME NEW j \in JobIds
      PROVE  rows'[j] = rows[j] \/ (j <= created /\ RowMoves(j))
  <2>1. CASE Prunable(j)
    <3>1. rows'[j].status = "absent"
      BY <1>0, <1>1, <2>1
    <3>2. j <= created
      BY <1>0, <1>1, <2>1 DEF Prunable, QueueInv, RowsBeyond
    <3> QED BY <3>1, <3>2 DEF RowMoves
  <2>2. CASE ~Prunable(j)
    BY <1>0, <2>2
  <2> QED BY <2>1, <2>2
<1>4. worker'[w].job = 0 /\ \A v \in Workers \ {w} : SameClaim(v)
  BY <1>0, <1>1 DEF SameClaim
<1> QED BY <1>0, <1>2, <1>3, <1>4, MovePreserves

LEMMA LosePreserves ==
    ASSUME QueueInv, NEW w \in Workers, Lose(w)
    PROVE  QueueInv'
<1>0. /\ clock \in Nat /\ clock' = clock /\ created' = created
      /\ rows \in [JobIds -> Rows] /\ rows' = rows
      /\ worker \in [Workers -> WorkerStates]
      /\ worker' = [worker EXCEPT ![w] = NoClaim]
  BY DEF QueueInv, TypeOK, Lose
<1>1. NoClaim \in WorkerStates /\ NoClaim.job = 0
  BY JobsAssumption DEF NoClaim, WorkerStates
<1>2. worker' \in [Workers -> WorkerStates]
  BY <1>0, <1>1
<1>3. worker'[w].job = 0 /\ \A v \in Workers \ {w} : SameClaim(v)
  BY <1>0, <1>1 DEF SameClaim
<1> QED BY <1>0, <1>2, <1>3, MovePreserves

\* What the invariant reads does not include the clock, its type aside.
LEMMA IdlePreserves ==
    ASSUME QueueInv, UNCHANGED <<created, rows, worker>>, clock' \in Nat
    PROVE  QueueInv'
<1>1. TypeOK'
  BY DEF QueueInv, TypeOK
<1>2. RowsBeyond' /\ ClaimsKnown' /\ ClaimsDistinct' /\ OneOpenPerKey'
  BY DEF QueueInv, RowsBeyond, ClaimsKnown, ClaimsDistinct, OneOpenPerKey
<1>3. ClaimsCurrent'
  BY DEF QueueInv, ClaimsCurrent, Owns
<1>4. AttemptsBounded'
  BY DEF QueueInv, AttemptsBounded, MaxAttempts
<1> QED BY <1>1, <1>2, <1>3, <1>4 DEF QueueInv

-----------------------------------------------------------------------------
(* The theorems.                                                           *)

LEMMA NextPreserves == QueueInv /\ [Next]_vars => QueueInv'
<1> SUFFICES ASSUME QueueInv, [Next]_vars PROVE QueueInv'
  OBVIOUS
<1>0. clock \in Nat
  BY DEF QueueInv, TypeOK
<1> HIDE DEF QueueInv
<1>1. CASE \E kind \in Kinds, key \in Keys \cup {NoKey} : Enqueue(kind, key)
  BY <1>1, EnqueuePreserves
<1>2. ASSUME NEW w \in Workers, WorkerStep(w)
      PROVE  QueueInv'
  <2>1. CASE Claim(w)
    BY <2>1, ClaimPreserves
  <2>2. CASE RetireOnly(w)
    BY <2>2, RetireOnlyPreserves
  <2>3. CASE \E declared \in BOOLEAN : Hold(w, declared)
    BY <2>3, HoldPreserves
  <2>4. CASE Complete(w)
    BY <2>4, CompletePreserves
  <2>5. CASE FailForGood(w)
    BY <2>5, FailForGoodPreserves
  <2>6. CASE FailOrRetry(w)
    BY <2>6, FailOrRetryPreserves
  <2>7. CASE Defer(w)
    BY <2>7, DeferPreserves
  <2>8. CASE Prune(w)
    BY <2>8, PrunePreserves
  <2> QED BY <1>2, <2>1, <2>2, <2>3, <2>4, <2>5, <2>6, <2>7, <2>8 DEF WorkerStep
<1>3. CASE \E w \in Workers : Lose(w)
  BY <1>3, LosePreserves
<1>4. CASE Tick
  <2>1. UNCHANGED <<created, rows, worker>> /\ clock' \in Nat
    BY <1>0, <1>4 DEF Tick
  <2> QED BY <2>1, IdlePreserves
<1>5. CASE UNCHANGED vars
  <2>1. UNCHANGED <<created, rows, worker>> /\ clock' \in Nat
    BY <1>0, <1>5 DEF vars
  <2> QED BY <2>1, IdlePreserves
<1> QED BY <1>1, <1>2, <1>3, <1>4, <1>5 DEF Next

\* The invariant of the queue holds whatever workers crash, stall or report
\* late, for any number of workers, jobs, keys and attempts.
THEOREM QueueSafe == Spec => []QueueInv
  BY InitInv, NextPreserves, PTL DEF Spec

\* The variables of the queue have their types.
THEOREM QueueTyped == Spec => []TypeOK
<1>1. QueueInv => TypeOK
  BY DEF QueueInv
<1> QED BY <1>1, QueueSafe, PTL

\* No two workers own one job, or two jobs of one single-flight key.
THEOREM QueueExclusive == Spec => []ExclusiveRuns
<1>1. QueueInv => ExclusiveRuns
  <2> SUFFICES ASSUME QueueInv, NEW v \in Workers, NEW w \in Workers,
                      v # w, Owns(v), Owns(w)
               PROVE  /\ worker[v].job # worker[w].job
                      /\ Held(v).key = NoKey \/ Held(v).key # Held(w).key
    BY DEF ExclusiveRuns
  <2>1. /\ worker[v].job \in JobIds /\ worker[v].job # 0
        /\ rows[worker[v].job].status = "running"
        /\ worker[v].fence = rows[worker[v].job].fence
    BY OwnersRow
  <2>2. /\ worker[w].job \in JobIds
        /\ rows[worker[w].job].status = "running"
        /\ worker[w].fence = rows[worker[w].job].fence
    BY OwnersRow
  <2>3. worker[v].job # worker[w].job
    BY <2>1, <2>2 DEF QueueInv, ClaimsDistinct
  <2> QED BY <2>1, <2>2, <2>3 DEF QueueInv, OneOpenPerKey, Held
<1> QED BY <1>1, QueueSafe, PTL

\* A waiting job has an attempt left and a running one has not overspent.
THEOREM QueueAttempts == Spec => []AttemptsBounded
<1>1. QueueInv => AttemptsBounded
  BY DEF QueueInv
<1> QED BY <1>1, QueueSafe, PTL

\* An owner's remembered attempts are the row's.
THEOREM QueueSnapshots == Spec => []SnapshotCurrent
<1>1. QueueInv => SnapshotCurrent
  BY DEF QueueInv, ClaimsCurrent, SnapshotCurrent, Held
<1> QED BY <1>1, QueueSafe, PTL

\* What one step does to the row of a job: it is inserted, lapses to another
\* claim, is written by the worker that owns it, or is pruned.
LEMMA StepRow ==
    ASSUME QueueInv, [Next]_vars, NEW j \in JobIds, rows'[j] # rows[j]
    PROVE  \/ rows[j].status = "absent"
           \/ rows[j].status = "pending" /\ rows'[j].status # "absent"
           \/ Lapsed(rows[j]) /\ rows'[j].status # "absent"
           \/ \E w \in Workers : /\ Owns(w) /\ worker[w].job = j /\ worker'[w] # worker[w]
                                 /\ rows'[j].status # "absent"
           \/ rows[j].status \in Finished /\ rows'[j] = NoRow
<1>0. /\ rows \in [JobIds -> Rows] /\ created \in 0..MaxJobs /\ clock \in Nat
      /\ worker \in [Workers -> WorkerStates] /\ rows[j] \in Rows
  BY DEF QueueInv, TypeOK
<1> HIDE DEF QueueInv
<1>1. ASSUME NEW kind \in Kinds, NEW key \in Keys \cup {NoKey}, Enqueue(kind, key)
      PROVE  rows[j].status = "absent"
  <2>1. j = created + 1
    BY <1>0, <1>1 DEF Enqueue
  <2> QED BY <1>0, <2>1 DEF QueueInv, RowsBeyond, NoRow
<1>2. ASSUME Spent(rows[j]), rows'[j] = Abandoned(rows[j])
      PROVE  Lapsed(rows[j]) /\ rows'[j].status # "absent"
  BY <1>0, <1>2 DEF Spent, Abandoned, Rows
<1>3. ASSUME NEW w \in Workers, Claim(w)
      PROVE  /\ rows[j].status = "pending" \/ Lapsed(rows[j])
             /\ rows'[j].status # "absent"
  <2>1. PICK i \in JobIds : Oldest(i) /\ rows' = AfterClaim(i)
    BY <1>3 DEF Claim
  <2>2. CASE j = i
    <3>1. rows'[j] = Claimed(rows[j])
      BY <2>1, <2>2 DEF AfterClaim
    <3>2. rows'[j].status = "running"
      BY <1>0, <3>1 DEF Claimed, Rows
    <3> QED BY <2>1, <2>2, <3>2 DEF Oldest, Takeable, Claimable
  <2>3. CASE j # i
    BY <1>2, <2>1, <2>3 DEF AfterClaim
  <2> QED BY <2>2, <2>3
<1>4. ASSUME NEW w \in Workers, RetireOnly(w)
      PROVE  Lapsed(rows[j]) /\ rows'[j].status # "absent"
  BY <1>2, <1>4 DEF RetireOnly, AfterRetiring
<1>5. ASSUME NEW w \in Workers, NEW new, rows' = Recorded(w, new)
      PROVE  Owns(w) /\ worker[w].job = j /\ rows'[j] = new
  BY <1>0, <1>5 DEF Recorded, Owns
<1>6. ASSUME NEW w \in Workers, NEW declared \in BOOLEAN, Hold(w, declared)
      PROVE  /\ Owns(w) /\ worker[w].job = j /\ worker'[w] # worker[w]
             /\ rows'[j].status # "absent"
  <2>1. rows' = Recorded(w, [rows[worker[w].job] EXCEPT !.lease = clock + DeclaredLease])
    BY <1>6 DEF Hold
  <2>2. /\ Owns(w) /\ worker[w].job = j
        /\ rows'[j] = [rows[j] EXCEPT !.lease = clock + DeclaredLease]
    BY <1>5, <2>1
  <2>3. rows'[j].status = "running"
    BY <1>0, <2>2 DEF Owns, Rows
  <2>4. worker'[w].pc = "running" /\ worker[w].pc = "holding"
    BY <1>0, <1>6 DEF Hold, WorkerStates
  <2> QED BY <2>2, <2>3, <2>4
<1>7. ASSUME NEW w \in Workers, NEW new, Report(w, Recorded(w, new)),
             Owns(w) => new.status # "absent"
      PROVE  /\ Owns(w) /\ worker[w].job = j /\ worker'[w] # worker[w]
             /\ rows'[j].status # "absent"
  <2>1. Owns(w) /\ worker[w].job = j /\ rows'[j] = new
    BY <1>5, <1>7 DEF Report
  <2>2. worker'[w].pc = "pruning" /\ worker[w].pc = "running"
    BY <1>0, <1>7 DEF Report, WorkerStates
  <2> QED BY <1>7, <2>1, <2>2
<1>8. ASSUME NEW w \in Workers, Owns(w)
      PROVE  /\ \A status \in Finished : Settled(Held(w), status).status # "absent"
             /\ \A delay \in Nat : Requeued(Held(w), delay).status # "absent"
             /\ Deferred(Held(w)).status # "absent"
  <2>1. Held(w) \in Rows
    BY <1>8, OwnersRow DEF Held
  <2> QED BY <1>0, <2>1, RowFields
<1>9. ASSUME NEW w \in Workers, Prune(w)
      PROVE  rows[j].status \in Finished /\ rows'[j] = NoRow
  BY <1>9 DEF Prune, Prunable
<1>10. ASSUME NEW w \in Workers, FailOrRetry(w)
       PROVE  /\ Owns(w) /\ worker[w].job = j /\ worker'[w] # worker[w]
              /\ rows'[j].status # "absent"
  <2> DEFINE new == IF Exhausted(worker[w])
                    THEN Settled(Held(w), "failed")
                    ELSE Requeued(Held(w), BackoffFor(worker[w].attempts))
  <2>1. worker[w].attempts \in Nat
    BY <1>0 DEF WorkerStates
  <2>2. BackoffFor(worker[w].attempts) \in Nat
    BY <2>1, BackoffTyped, JobsAssumption
  <2>3. Owns(w) => new.status # "absent"
    BY <1>8, <2>2
  <2>4. Report(w, Recorded(w, new))
    BY <1>10 DEF FailOrRetry
  <2> HIDE DEF new
  <2> QED BY <1>7, <2>3, <2>4
<1>11. ASSUME NEW w \in Workers, Defer(w)
       PROVE  /\ Owns(w) /\ worker[w].job = j /\ worker'[w] # worker[w]
              /\ rows'[j].status # "absent"
  <2>1. Report(w, Recorded(w, Deferred(Held(w))))
    BY <1>11 DEF Defer, Report
  <2> QED BY <1>7, <1>8, <2>1
<1>12. ASSUME NEW w \in Workers, Complete(w) \/ FailForGood(w)
       PROVE  /\ Owns(w) /\ worker[w].job = j /\ worker'[w] # worker[w]
              /\ rows'[j].status # "absent"
  <2>1. PICK status \in Finished : Report(w, Recorded(w, Settled(Held(w), status)))
    BY <1>12 DEF Complete, FailForGood
  <2> QED BY <1>7, <1>8, <2>1
<1> QED BY <1>1, <1>3, <1>4, <1>6, <1>9, <1>10, <1>11, <1>12
        DEF Next, WorkerStep, Lose, Tick, vars

\* While a lease runs, only the worker it was given to changes the job.
THEOREM QueueLeases == Spec => LeaseUndisturbed
<1> DEFINE Undisturbed ==
      \A j \in JobIds :
        rows[j].status = "running" /\ rows[j].lease > clock /\ rows'[j] # rows[j]
        => \E w \in Workers : Owns(w) /\ worker[w].job = j /\ worker'[w] # worker[w]
<1>1. QueueInv /\ [Next]_vars => Undisturbed
  <2> SUFFICES ASSUME QueueInv, [Next]_vars, NEW j \in JobIds,
                      rows[j].status = "running", rows[j].lease > clock, rows'[j] # rows[j]
               PROVE  \E w \in Workers : Owns(w) /\ worker[w].job = j /\ worker'[w] # worker[w]
    OBVIOUS
  <2>1. rows[j].lease \in Nat /\ clock \in Nat
    BY DEF QueueInv, TypeOK, Rows
  <2>2. ~Lapsed(rows[j])
    BY <2>1 DEF Lapsed
  <2> QED BY <2>2, StepRow
<1>2. QueueInv /\ [Next]_vars => [Undisturbed]_vars
  BY <1>1
<1> QED BY <1>2, QueueSafe, PTL DEF Spec, LeaseUndisturbed

\* A finished job keeps its outcome until it is pruned; an unfinished one is
\* never pruned.
THEOREM QueueOutcomes == Spec => OutcomesStand
<1> DEFINE Stand ==
      \A j \in JobIds :
         /\ rows[j].status \in Finished => rows'[j] \in {rows[j], NoRow}
         /\ rows[j].status \in Unfinished => rows'[j].status # "absent"
<1>1. QueueInv /\ [Next]_vars => Stand
  <2> SUFFICES ASSUME QueueInv, [Next]_vars, NEW j \in JobIds, rows'[j] # rows[j]
               PROVE  /\ rows[j].status \in Finished => rows'[j] = NoRow
                      /\ rows[j].status \in Unfinished => rows'[j].status # "absent"
    OBVIOUS
  <2> QED BY StepRow DEF Lapsed, Owns
<1>2. QueueInv /\ [Next]_vars => [Stand]_vars
  BY <1>1
<1> QED BY <1>2, QueueSafe, PTL DEF Spec, OutcomesStand

-----------------------------------------------------------------------------
(* The queue implements the ledger, for any attempts, leases and delays.   *)


-----------------------------------------------------------------------------
(* Reading the ledger off the table.                                       *)

Holds(w, j) == Owns(w) /\ worker[w].job = j

\* A worker that has not taken a job yet, or is done with it, owns none.
Unburdened == \A w \in Workers : worker[w].pc \in {"idle", "pruning"} => ~Owns(w)

LedgerInv == QueueInv /\ Unburdened

OwnerRead(j) ==
    IF \E w \in Workers : Holds(w, j)
    THEN OwnerOf(j) \in Workers /\ \A w \in Workers : Holds(w, j) <=> w = OwnerOf(j)
    ELSE OwnerOf(j) = NoWorker

EntryRead(j) ==
    /\ rows[j].status = "pending" =>
         Entry(j) = [state |-> "waiting", holder |-> NoWorker, key |-> rows[j].key,
                     tries |-> rows[j].attempts, limit |-> MaxAttempts(rows[j])]
    /\ rows[j].status = "running" =>
         Entry(j) = [state |-> "held", holder |-> OwnerOf(j), key |-> rows[j].key,
                     tries |-> rows[j].attempts, limit |-> MaxAttempts(rows[j])]
    /\ rows[j].status \in Finished => Entry(j) = Closed(rows[j].status)
    /\ rows[j].status = "absent" => Entry(j) = Closed(IF j <= created THEN "forgotten" ELSE "none")

Read == \A j \in JobIds : OwnerRead(j) /\ EntryRead(j)

LEMMA LedgerRead == QueueInv => Read
<1> SUFFICES ASSUME QueueInv, NEW j \in JobIds PROVE OwnerRead(j) /\ EntryRead(j)
    BY DEF Read
<1>1. EntryRead(j)
  BY DEF EntryRead, Entry
<1>2. CASE \E w \in Workers : Holds(w, j)
  <2>1. OwnerOf(j) = CHOOSE w \in Workers : Owns(w) /\ worker[w].job = j
    BY <1>2 DEF OwnerOf, Holds
  <2>2. OwnerOf(j) \in Workers /\ Holds(OwnerOf(j), j)
    BY <1>2, <2>1 DEF Holds
  <2>3. ASSUME NEW v \in Workers, NEW w \in Workers, Holds(v, j), Holds(w, j)
        PROVE  v = w
    BY <2>3 DEF QueueInv, ClaimsDistinct, Holds, Owns
  <2> QED BY <1>1, <1>2, <2>2, <2>3 DEF OwnerRead
<1>3. CASE ~ \E w \in Workers : Holds(w, j)
  BY <1>1, <1>3 DEF OwnerRead, OwnerOf, Holds
<1> QED BY <1>2, <1>3

LEMMA LedgerReadNext == QueueInv' => Read'
  BY LedgerRead, PTL

\* A row that keeps what the ledger reads of it, with its owner, keeps its entry.
SameRow(j) ==
    /\ rows'[j].status = rows[j].status
    /\ rows'[j].status # "absent" =>
         /\ rows'[j].key = rows[j].key /\ rows'[j].kind = rows[j].kind
         /\ rows'[j].attempts = rows[j].attempts
SameOwner(j) == \A v \in Workers : Holds(v, j)' <=> Holds(v, j)

LEMMA EntryStays ==
    ASSUME QueueInv, QueueInv', NEW j \in JobIds, SameRow(j), SameOwner(j),
           rows[j].status = "absent" => (j <= created' <=> j <= created)
    PROVE  Entry(j)' = Entry(j)
<1>1. /\ OwnerRead(j) /\ EntryRead(j) /\ OwnerRead(j)' /\ EntryRead(j)'
  BY LedgerRead, LedgerReadNext DEF Read
<1>2. OwnerOf(j)' = OwnerOf(j)
  BY <1>1 DEF OwnerRead, SameOwner
<1>3. rows[j].status \in Statuses
  BY DEF QueueInv, TypeOK, Rows
<1>4. CASE rows[j].status \in {"pending", "running"}
  <2>1. MaxAttempts(rows'[j]) = MaxAttempts(rows[j])
    BY <1>4 DEF SameRow, MaxAttempts
  <2>2. MaxAttempts(rows[j])' = MaxAttempts(rows[j])
    BY <2>1 DEF MaxAttempts
  <2> QED BY <1>1, <1>2, <1>4, <2>2 DEF EntryRead, SameRow
<1>5. CASE rows[j].status \in Finished
  BY <1>1, <1>5 DEF EntryRead, SameRow, Closed
<1>6. CASE rows[j].status = "absent"
  BY <1>1, <1>6 DEF EntryRead, SameRow, Closed
<1> QED BY <1>3, <1>4, <1>5, <1>6

\* The whole table does.
LEMMA LedgerStays ==
    ASSUME QueueInv, QueueInv', created' = created,
           \A j \in JobIds : SameRow(j) /\ SameOwner(j)
    PROVE  UNCHANGED [j \in JobIds |-> Entry(j)]
<1>1. \A j \in JobIds : Entry(j)' = Entry(j)
  BY EntryStays
<1> QED BY <1>1

\* Whoever owns nothing, and has not come to own anything, is unburdened still.
LEMMA BurdenStays ==
    ASSUME Unburdened, NEW w \in Workers,
           \A v \in Workers \ {w} : worker'[v].pc = worker[v].pc,
           \A v \in Workers, j \in JobIds : Holds(v, j)' => Holds(v, j) \/ v = w,
           worker'[w].pc \in {"idle", "pruning"} => \A j \in JobIds : ~Holds(w, j)'
    PROVE  Unburdened'
<1> SUFFICES ASSUME NEW v \in Workers, worker'[v].pc \in {"idle", "pruning"}, Owns(v)'
             PROVE  FALSE
    BY DEF Unburdened
<1>1. PICK j \in JobIds : Holds(v, j)'
  BY DEF Owns, Holds
<1>2. CASE v = w
  BY <1>1, <1>2
<1>3. CASE v # w
  BY <1>1, <1>3 DEF Unburdened, Holds
<1> QED BY <1>2, <1>3

Entries == [state : {"waiting", "held"}, holder : Workers \cup {NoWorker},
            key : Keys \cup {NoKey}, tries : Nat, limit : Nat]

\* The entry of an open job is one a worker may take or give back.
LEMMA EntryTyped ==
    ASSUME QueueInv, NEW j \in JobIds, rows[j].status \in Unfinished
    PROVE  Entry(j) \in Entries
<1>1. OwnerRead(j) /\ EntryRead(j)
  BY LedgerRead DEF Read
<1>2. OwnerOf(j) \in Workers \cup {NoWorker}
  BY <1>1 DEF OwnerRead
<1>3. /\ rows[j].key \in Keys \cup {NoKey} /\ rows[j].attempts \in Nat
      /\ MaxAttempts(rows[j]) \in Nat
  BY JobsAssumption DEF QueueInv, TypeOK, Rows, MaxAttempts
<1> QED BY <1>1, <1>2, <1>3 DEF EntryRead, Entries

\* What taking a job makes of its entry.
LEMMA TakenEntry ==
    ASSUME NEW e \in Entries, NEW w \in Workers
    PROVE  [e EXCEPT !.state = "held", !.holder = w, !.tries = @ + 1] =
              [state |-> "held", holder |-> w, key |-> e.key, tries |-> e.tries + 1,
               limit |-> e.limit]
<1> DEFINE p == [e EXCEPT !.state = "held"]
           o == [p EXCEPT !.holder = w]
           q == [o EXCEPT !.tries = @ + 1]
           r == [state |-> "held", holder |-> w, key |-> e.key, tries |-> e.tries + 1,
                 limit |-> e.limit]
<1>1. p \in Entries /\ p.state = "held" /\ p.holder = e.holder /\ p.key = e.key
      /\ p.tries = e.tries /\ p.limit = e.limit
  BY DEF Entries
<1>2. o \in Entries /\ o.state = "held" /\ o.holder = w /\ o.key = e.key
      /\ o.tries = e.tries /\ o.limit = e.limit
  <2> HIDE DEF p
  <2> QED BY <1>1 DEF Entries
<1>3. q \in Entries /\ q.state = "held" /\ q.holder = w /\ q.key = e.key
      /\ q.tries = e.tries + 1 /\ q.limit = e.limit
  <2> HIDE DEF o
  <2> QED BY <1>2 DEF Entries
<1>4. r \in Entries /\ r.state = "held" /\ r.holder = w /\ r.key = e.key
      /\ r.tries = e.tries + 1 /\ r.limit = e.limit
  BY DEF Entries
<1>5. q = r
  <2> HIDE DEF q, r
  <2> QED BY <1>3, <1>4 DEF Entries
<1> QED BY <1>5

\* A spent row may be given up.
LEMMA SpentEntry ==
    ASSUME QueueInv, NEW j \in JobIds, Spent(rows[j])
    PROVE  Entry(j).state = "held" /\ Entry(j).tries = Entry(j).limit
<1>1. EntryRead(j)
  BY LedgerRead DEF Read
<1>2. rows[j].status = "running" /\ rows[j].attempts >= MaxAttempts(rows[j])
  BY DEF Spent, Lapsed, Exhausted
<1>3. rows[j].attempts \in 1..MaxAttempts(rows[j]) /\ MaxAttempts(rows[j]) \in Nat
  BY <1>2, JobsAssumption DEF QueueInv, AttemptsBounded, MaxAttempts
<1>4. rows[j].attempts = MaxAttempts(rows[j])
  BY <1>2, <1>3
<1> QED BY <1>1, <1>2, <1>4 DEF EntryRead

-----------------------------------------------------------------------------
(* The actions.                                                            *)

LEMMA EnqueueMaps ==
    ASSUME LedgerInv, NEW kind \in Kinds, NEW key \in Keys \cup {NoKey}, Enqueue(kind, key)
    PROVE  LedgerInv' /\ Ledger!Next
<1>1. QueueInv'
  BY EnqueuePreserves DEF LedgerInv
<1>0. PICK n : n = created + 1
  OBVIOUS
<1>2. /\ rows \in [JobIds -> Rows] /\ created \in Nat /\ n \in JobIds /\ created' = n
      /\ worker' = worker /\ rows' = [rows EXCEPT ![n] = Queued(kind, key)]
      /\ rows[n] = NoRow /\ NoRow.status = "absent"
  BY <1>0, JobsAssumption DEF LedgerInv, QueueInv, TypeOK, Enqueue, RowsBeyond, NoRow
<1>3. /\ Queued(kind, key).status = "pending" /\ Queued(kind, key).key = key
      /\ Queued(kind, key).attempts = 0 /\ Queued(kind, key).kind = kind
  BY DEF Queued, NoRow
<1>4. \A v \in Workers, j \in JobIds : Holds(v, j)' <=> Holds(v, j)
  BY <1>2, <1>3 DEF Holds, Owns
<1>5. Unburdened'
  BY <1>2, <1>4 DEF LedgerInv, Unburdened, Holds, Owns
<1>6. ASSUME NEW j \in JobIds, j # n PROVE Entry(j)' = Entry(j)
  <2>1. SameRow(j) /\ SameOwner(j) /\ (j <= created' <=> j <= created)
    BY <1>0, <1>2, <1>4, <1>6 DEF SameRow, SameOwner
  <2> QED BY <1>1, <2>1, EntryStays DEF LedgerInv
<1>7. Entry(n) = Closed("none")
  BY <1>0, <1>2, LedgerRead DEF LedgerInv, Read, EntryRead
<1>8. Entry(n)' = [state |-> "waiting", holder |-> NoWorker, key |-> key, tries |-> 0,
                   limit |-> MaxAttempts(Queued(kind, key))]
  <2>1. EntryRead(n)'
    BY <1>1, <1>2, LedgerReadNext DEF Read
  <2>2. rows'[n] = Queued(kind, key)
    BY <1>2
  <2> QED BY <1>3, <2>1, <2>2 DEF EntryRead, MaxAttempts
<1>9. MaxAttempts(Queued(kind, key)) \in {1, DeploymentAttempts}
  BY DEF MaxAttempts
<1>10. key = NoKey \/ \A i \in JobIds : ~ (Entry(i).state \in {"waiting", "held"} /\ Entry(i).key = key)
  <2>1. ASSUME NEW i \in JobIds, key # NoKey, Entry(i).state \in {"waiting", "held"}, Entry(i).key = key
        PROVE  FALSE
    <3>1. EntryRead(i) /\ rows[i].status \in Statuses
      BY LedgerRead DEF LedgerInv, Read, QueueInv, TypeOK, Rows
    <3>2. ~ (rows[i].status \in Unfinished /\ rows[i].key = key)
      BY <2>1 DEF Enqueue, InFlight
    <3>3. rows[i].status \notin {"pending", "running"}
      BY <2>1, <3>1, <3>2 DEF EntryRead
    <3> QED BY <2>1, <3>1, <3>3 DEF EntryRead, Closed
  <2> QED BY <2>1
<1>11. Ledger!Publish(n, key, MaxAttempts(Queued(kind, key)))
  <2>1. [j \in JobIds |-> Entry(j)]' =
           [[j \in JobIds |-> Entry(j)] EXCEPT ![n] =
               [state |-> "waiting", holder |-> NoWorker, key |-> key, tries |-> 0,
                limit |-> MaxAttempts(Queued(kind, key))]]
    BY <1>2, <1>6, <1>8
  <2> QED BY <1>2, <1>7, <1>10, <2>1 DEF Ledger!Publish, Ledger!Open, Closed
<1> QED BY <1>1, <1>2, <1>5, <1>9, <1>11 DEF LedgerInv, Ledger!Next

LEMMA ClaimMaps ==
    ASSUME LedgerInv, NEW w \in Workers, Claim(w)
    PROVE  LedgerInv' /\ Ledger!Next
<1>1. QueueInv'
  BY ClaimPreserves DEF LedgerInv
<1>2. PICK i \in JobIds :
        /\ Oldest(i)
        /\ rows' = AfterClaim(i)
        /\ worker' = [worker EXCEPT ![w] =
               [pc |-> IF rows[i].kind = "scheduled" THEN "holding" ELSE "running",
                job |-> i,
                kind |-> rows[i].kind,
                fence |-> Claimed(rows[i]).fence,
                attempts |-> Claimed(rows[i]).attempts]]
  BY DEF Claim
<1>3. /\ rows \in [JobIds -> Rows] /\ worker \in [Workers -> WorkerStates]
      /\ clock \in Nat /\ created' = created /\ worker[w].pc = "idle"
  BY DEF LedgerInv, QueueInv, TypeOK, Claim
<1>4. PICK abandoned \in SUBSET JobIds :
        \A j \in JobIds : j \in abandoned <=> j # i /\ Spent(rows[j]) /\ Before(j, i)
  <2> WITNESS {j \in JobIds : j # i /\ Spent(rows[j]) /\ Before(j, i)} \in SUBSET JobIds
  <2> QED OBVIOUS
<1>5. /\ rows'[i] = Claimed(rows[i])
      /\ \A j \in abandoned : rows'[j] = Abandoned(rows[j])
      /\ \A j \in JobIds \ abandoned : j # i => rows'[j] = rows[j]
  BY <1>2, <1>4 DEF AfterClaim
<1>6. /\ rows'[i].status = "running" /\ rows'[i].key = rows[i].key
      /\ rows'[i].kind = rows[i].kind /\ rows'[i].attempts = rows[i].attempts + 1
      /\ rows'[i].fence = rows[i].fence + 1 /\ rows[i].fence \in Nat /\ rows[i].attempts \in Nat
  <2>1. rows[i] \in Rows
    BY <1>3
  <2> QED BY <1>3, <1>5, <2>1, RowFields DEF Rows
<1>7. \A j \in abandoned : rows'[j].status = "failed"
  <2> SUFFICES ASSUME NEW j \in abandoned PROVE rows'[j].status = "failed"
      OBVIOUS
  <2>1. rows[j] \in Rows
    BY <1>3
  <2> QED BY <1>3, <1>5, <2>1, RowFields
<1>8. /\ worker'[w].job = i /\ worker'[w].fence = rows'[i].fence
      /\ worker'[w].pc \in {"holding", "running"}
      /\ \A v \in Workers \ {w} : worker'[v] = worker[v]
  BY <1>2, <1>3, <1>5
<1>9. \A j \in JobIds : ~ Holds(w, j)
  BY <1>3 DEF LedgerInv, Unburdened, Holds
<1>10. rows[i].status \in Unfinished /\ ~ Spent(rows[i])
  BY <1>2 DEF Oldest, Takeable, Claimable, Lapsed
<1>11. ASSUME NEW v \in Workers, NEW j \in JobIds
       PROVE  Holds(v, j)' <=> IF j = i THEN v = w ELSE Holds(v, j) /\ j \notin abandoned
  <2>1. CASE v = w
    BY <1>6, <1>8, <1>9, <2>1 DEF Holds, Owns
  <2>2. CASE v # w /\ j = i
    <3>1. worker[v].job = i => worker[v].fence <= rows[i].fence
      BY <1>10, <2>2, JobsAssumption DEF LedgerInv, QueueInv, ClaimsKnown
    <3>2. worker[v].fence \in Nat
      BY <1>3 DEF WorkerStates
    <3>3. worker'[v] = worker[v]
      BY <1>8, <2>2
    <3>4. ~ Holds(v, j)'
      BY <1>6, <2>2, <3>1, <3>2, <3>3 DEF Holds, Owns
    <3> QED BY <2>2, <3>4
  <2>3. CASE v # w /\ j # i
    <3>1. worker'[v] = worker[v]
      BY <1>8, <2>3
    <3>2. CASE j \in abandoned
      BY <1>7, <2>3, <3>2 DEF Holds, Owns
    <3>3. CASE j \notin abandoned
      <4>1. rows'[j] = rows[j]
        BY <1>5, <2>3, <3>3
      <4> QED BY <2>3, <3>1, <3>3, <4>1 DEF Holds, Owns
    <3> QED BY <3>2, <3>3
  <2> QED BY <2>1, <2>2, <2>3
<1>12. Unburdened'
  <2>1. \A v \in Workers, j \in JobIds : Holds(v, j)' => Holds(v, j) \/ v = w
    BY <1>11
  <2> QED BY <1>8, <2>1, BurdenStays DEF LedgerInv
<1>13. /\ \A j \in JobIds : OwnerRead(j) /\ EntryRead(j)
       /\ \A j \in JobIds : OwnerRead(j)' /\ EntryRead(j)'
  BY <1>1, LedgerRead, LedgerReadNext DEF LedgerInv, Read
<1>14. ASSUME NEW j \in JobIds, j # i, j \notin abandoned PROVE Entry(j)' = Entry(j)
  <2>1. SameRow(j) /\ SameOwner(j)
    BY <1>5, <1>11, <1>14 DEF SameRow, SameOwner
  <2> QED BY <1>1, <1>3, <2>1, EntryStays DEF LedgerInv
<1>15. ASSUME NEW j \in abandoned
       PROVE  Entry(j)' = Closed("failed") /\ Entry(j).state = "held" /\ Entry(j).tries = Entry(j).limit
  <2>1. Entry(j)' = Closed("failed")
    BY <1>7, <1>13 DEF EntryRead, Closed
  <2>2. Spent(rows[j])
    BY <1>4
  <2> QED BY <2>1, <2>2, SpentEntry DEF LedgerInv
<1>16. /\ Entry(i).state \in {"waiting", "held"} /\ Entry(i).key = rows[i].key
       /\ Entry(i).tries = rows[i].attempts /\ Entry(i).limit = MaxAttempts(rows[i])
  BY <1>10, <1>13 DEF EntryRead
<1>17. rows[i].attempts < MaxAttempts(rows[i])
  <2>1. CASE rows[i].status = "pending"
    BY <2>1 DEF LedgerInv, QueueInv, AttemptsBounded
  <2>2. CASE rows[i].status = "running"
    <3>1. Lapsed(rows[i])
      BY <1>2, <2>2 DEF Oldest, Takeable, Claimable
    <3>2. ~ (rows[i].attempts >= MaxAttempts(rows[i])) /\ MaxAttempts(rows[i]) \in Nat
      BY <1>10, <3>1, JobsAssumption DEF Spent, Exhausted, MaxAttempts
    <3> QED BY <1>6, <3>2
  <2> QED BY <1>10, <2>1, <2>2
<1>18. Entry(i)' = [Entry(i) EXCEPT !.state = "held", !.holder = w, !.tries = @ + 1]
  <2>1. OwnerOf(i)' = w
    BY <1>11, <1>13 DEF OwnerRead
  <2>2. MaxAttempts(rows[i])' = MaxAttempts(rows[i])
    BY <1>6 DEF MaxAttempts
  <2>3. Entry(i)' = [state |-> "held", holder |-> w, key |-> rows[i].key,
                     tries |-> rows[i].attempts + 1, limit |-> MaxAttempts(rows[i])]
    BY <1>6, <1>13, <2>1, <2>2 DEF EntryRead
  <2>4. Entry(i) \in Entries
    BY <1>10, EntryTyped DEF LedgerInv
  <2>5. [Entry(i) EXCEPT !.state = "held", !.holder = w, !.tries = @ + 1] =
           [state |-> "held", holder |-> w, key |-> Entry(i).key,
            tries |-> Entry(i).tries + 1, limit |-> Entry(i).limit]
    BY <2>4, TakenEntry
  <2>6. /\ Entry(i).key = rows[i].key /\ Entry(i).tries = rows[i].attempts
        /\ Entry(i).limit = MaxAttempts(rows[i])
    BY <1>16
  <2> QED BY <2>3, <2>5, <2>6, Zenon
<1>19. Ledger!Take(w, i, abandoned)
  <2>1. [j \in JobIds |-> Entry(j)]' =
          [j \in JobIds |-> IF j = i THEN [Entry(j) EXCEPT !.state = "held", !.holder = w, !.tries = @ + 1]
                            ELSE IF j \in abandoned THEN Closed("failed")
                            ELSE Entry(j)]
    <3>1. ASSUME NEW j \in JobIds
          PROVE  Entry(j)' = IF j = i THEN [Entry(j) EXCEPT !.state = "held", !.holder = w, !.tries = @ + 1]
                             ELSE IF j \in abandoned THEN Closed("failed") ELSE Entry(j)
      BY <1>14, <1>15, <1>18
    <3> QED BY <3>1, Zenon
  <2> QED BY <1>15, <1>16, <1>17, <2>1
          DEF Ledger!Take, Ledger!Taken, Ledger!Open, Ledger!Abandonable, Ledger!Closed, Closed
<1> QED BY <1>1, <1>12, <1>19 DEF LedgerInv, Ledger!Next

LEMMA RetireOnlyMaps ==
    ASSUME LedgerInv, NEW w \in Workers, RetireOnly(w)
    PROVE  LedgerInv' /\ Ledger!Next
<1>1. QueueInv'
  BY RetireOnlyPreserves DEF LedgerInv
<1>2. /\ rows \in [JobIds -> Rows] /\ clock \in Nat
      /\ created' = created /\ worker' = worker /\ rows' = AfterRetiring
  BY DEF LedgerInv, QueueInv, TypeOK, RetireOnly
<1>3. PICK abandoned \in SUBSET JobIds : \A j \in JobIds : j \in abandoned <=> Spent(rows[j])
  <2> WITNESS {j \in JobIds : Spent(rows[j])} \in SUBSET JobIds
  <2> QED OBVIOUS
<1>4. /\ \A j \in abandoned : rows'[j] = Abandoned(rows[j])
      /\ \A j \in JobIds \ abandoned : rows'[j] = rows[j]
  BY <1>2, <1>3 DEF AfterRetiring
<1>5. \A j \in abandoned : rows'[j].status = "failed"
  <2> SUFFICES ASSUME NEW j \in abandoned PROVE rows'[j].status = "failed"
      OBVIOUS
  <2>1. rows[j] \in Rows
    BY <1>2
  <2> QED BY <1>2, <1>4, <2>1, RowFields
<1>6. \A v \in Workers, j \in JobIds : Holds(v, j)' <=> Holds(v, j) /\ j \notin abandoned
  BY <1>2, <1>4, <1>5 DEF Holds, Owns
<1>7. Unburdened'
  BY <1>2, <1>6 DEF LedgerInv, Unburdened, Holds, Owns
<1>8. /\ \A j \in JobIds : OwnerRead(j) /\ EntryRead(j)
      /\ \A j \in JobIds : OwnerRead(j)' /\ EntryRead(j)'
  BY <1>1, LedgerRead, LedgerReadNext DEF LedgerInv, Read
<1>9. ASSUME NEW j \in JobIds, j \notin abandoned PROVE Entry(j)' = Entry(j)
  <2>1. SameRow(j) /\ SameOwner(j)
    BY <1>4, <1>6, <1>9 DEF SameRow, SameOwner
  <2> QED BY <1>1, <1>2, <2>1, EntryStays DEF LedgerInv
<1>10. ASSUME NEW j \in abandoned
       PROVE  Entry(j)' = Closed("failed") /\ Entry(j).state = "held" /\ Entry(j).tries = Entry(j).limit
  <2>1. Entry(j)' = Closed("failed")
    BY <1>5, <1>8 DEF EntryRead, Closed
  <2>2. Spent(rows[j])
    BY <1>3
  <2> QED BY <1>8, <2>1, <2>2, SpentEntry DEF LedgerInv
<1>11. Ledger!Abandon(abandoned)
  <2>1. [j \in JobIds |-> Entry(j)]' =
          [j \in JobIds |-> IF j \in abandoned THEN Closed("failed") ELSE Entry(j)]
    <3>1. ASSUME NEW j \in JobIds
          PROVE  Entry(j)' = IF j \in abandoned THEN Closed("failed") ELSE Entry(j)
      BY <1>9, <1>10
    <3> QED BY <3>1, Zenon
  <2> QED BY <1>10, <2>1 DEF Ledger!Abandon, Ledger!Abandonable, Ledger!Closed, Closed
<1> QED BY <1>1, <1>7, <1>11 DEF LedgerInv, Ledger!Next

\* A report that records nothing, and a hold, are not seen in the ledger.
LEMMA UnseenMaps ==
    ASSUME LedgerInv, QueueInv', NEW w \in Workers, created' = created,
           \A j \in JobIds : SameRow(j) /\ rows'[j].fence = rows[j].fence,
           \A v \in Workers \ {w} : worker'[v] = worker[v],
           worker'[w].job = worker[w].job, worker'[w].fence = worker[w].fence,
           worker'[w].pc \in {"idle", "pruning"} => ~Owns(w)
    PROVE  LedgerInv' /\ UNCHANGED [j \in JobIds |-> Entry(j)]
<1>1. \A v \in Workers, j \in JobIds : Holds(v, j)' <=> Holds(v, j)
  BY DEF Holds, Owns, SameRow
<1>2. Unburdened'
  <2>1. worker'[w].pc \in {"idle", "pruning"} => \A j \in JobIds : ~Holds(w, j)'
    BY <1>1 DEF Holds
  <2> QED BY <1>1, <2>1, BurdenStays DEF LedgerInv
<1>3. UNCHANGED [j \in JobIds |-> Entry(j)]
  BY <1>1, LedgerStays DEF LedgerInv, SameOwner
<1> QED BY <1>2, <1>3 DEF LedgerInv

LEMMA HoldMaps ==
    ASSUME LedgerInv, NEW w \in Workers, NEW declared \in BOOLEAN, Hold(w, declared)
    PROVE  LedgerInv' /\ UNCHANGED [j \in JobIds |-> Entry(j)]
<1>1. QueueInv'
  BY HoldPreserves DEF LedgerInv
<1>2. /\ rows \in [JobIds -> Rows] /\ worker \in [Workers -> WorkerStates]
      /\ created' = created /\ worker' = [worker EXCEPT ![w].pc = "running"]
  BY DEF LedgerInv, QueueInv, TypeOK, Hold
<1>3. ASSUME NEW j \in JobIds PROVE SameRow(j) /\ rows'[j].fence = rows[j].fence
  <2>1. rows[j] \in Rows
    BY <1>2
  <2>2. rows'[j] = rows[j] \/ rows'[j] = [rows[j] EXCEPT !.lease = clock + DeclaredLease]
    BY <1>2 DEF Hold, Recorded, Owns
  <2>3. CASE rows'[j] = [rows[j] EXCEPT !.lease = clock + DeclaredLease]
    BY <2>1, <2>3 DEF Rows, SameRow
  <2> QED BY <2>2, <2>3 DEF SameRow
<1>4. /\ \A v \in Workers \ {w} : worker'[v] = worker[v]
      /\ worker'[w].job = worker[w].job /\ worker'[w].fence = worker[w].fence
      /\ worker'[w].pc = "running"
  BY <1>2 DEF WorkerStates
<1> QED BY <1>1, <1>2, <1>3, <1>4, UnseenMaps

\* A job given back, entry by entry of the chained update.
LEMMA HandedBackTable ==
    ASSUME NEW f, NEW j \in JobIds, DOMAIN f = JobIds, f = [k \in JobIds |-> f[k]],
           f[j] \in Entries, NEW t \in Nat
    PROVE  [f EXCEPT ![j].state = "waiting", ![j].holder = NoWorker, ![j].tries = t] =
           [f EXCEPT ![j] = [state |-> "waiting", holder |-> NoWorker, key |-> f[j].key,
                             tries |-> t, limit |-> f[j].limit]]
<1> DEFINE e1 == [f[j] EXCEPT !.state = "waiting"]
           e2 == [e1 EXCEPT !.holder = NoWorker]
           e3 == [e2 EXCEPT !.tries = t]
           r  == [state |-> "waiting", holder |-> NoWorker, key |-> f[j].key,
                  tries |-> t, limit |-> f[j].limit]
           f1 == [f EXCEPT ![j] = e1]
           f2 == [f EXCEPT ![j] = e2]
           f3 == [f EXCEPT ![j] = e3]
<1>1. e1 \in Entries /\ e1.state = "waiting" /\ e1.key = f[j].key /\ e1.limit = f[j].limit
  BY DEF Entries
<1>2. e2 \in Entries /\ e2.state = "waiting" /\ e2.holder = NoWorker
      /\ e2.key = f[j].key /\ e2.limit = f[j].limit
  <2> HIDE DEF e1
  <2> QED BY <1>1 DEF Entries
<1>3. e3 \in Entries /\ e3.state = "waiting" /\ e3.holder = NoWorker
      /\ e3.key = f[j].key /\ e3.limit = f[j].limit /\ e3.tries = t
  <2> HIDE DEF e2
  <2> QED BY <1>2 DEF Entries
<1>4. r \in Entries /\ r.state = "waiting" /\ r.holder = NoWorker
      /\ r.key = f[j].key /\ r.limit = f[j].limit /\ r.tries = t
  BY DEF Entries
<1>5. e3 = r
  <2> HIDE DEF e3, r
  <2> QED BY <1>3, <1>4 DEF Entries
<1>6. /\ f1 = [f EXCEPT ![j].state = "waiting"] /\ f1[j] = e1
      /\ f2 = [f1 EXCEPT ![j].holder = NoWorker] /\ f2[j] = e2
      /\ f3 = [f2 EXCEPT ![j].tries = t]
  <2>1. f1 = [f EXCEPT ![j].state = "waiting"] /\ f1[j] = e1
    BY Zenon
  <2>2. f2 = [f1 EXCEPT ![j].holder = NoWorker] /\ f2[j] = e2
    <3> HIDE DEF e1
    <3>1. f1[j] = e1 /\ f2[j] = e2
      BY Zenon
    <3>2. f2 = [f1 EXCEPT ![j] = e2]
      <4> HIDE DEF e2
      <4> QED OBVIOUS
    <3> QED BY <3>1, <3>2, Zenon
  <2>3. f3 = [f2 EXCEPT ![j].tries = t]
    <3> HIDE DEF e2
    <3>1. f2[j] = e2
      BY Zenon
    <3>2. f3 = [f2 EXCEPT ![j] = e3]
      <4> HIDE DEF e3
      <4> QED OBVIOUS
    <3> QED BY <3>1, <3>2, Zenon
  <2> QED BY <2>1, <2>2, <2>3
<1>7. f3 = [f EXCEPT ![j] = r]
  BY <1>5, Zenon
<1> QED BY <1>6, <1>7, Zenon

\* What an owner records of its job, and what a report without a claim does not.
LEMMA OutcomeMaps ==
    ASSUME LedgerInv, QueueInv', NEW w \in Workers, NEW new, Report(w, Recorded(w, new)),
           Owns(w) =>
             \/ \E status \in Finished : new = Settled(Held(w), status)
             \/ /\ Held(w).attempts < MaxAttempts(Held(w))
                /\ \E delay \in Nat : new = Requeued(Held(w), delay)
             \/ Held(w).attempts > 0 /\ new = Deferred(Held(w))
    PROVE  LedgerInv' /\ (Ledger!Next \/ UNCHANGED [j \in JobIds |-> Entry(j)])
<1>1. /\ rows \in [JobIds -> Rows] /\ worker \in [Workers -> WorkerStates] /\ clock \in Nat
      /\ created' = created /\ worker' = [worker EXCEPT ![w].pc = "pruning"]
      /\ rows' = Recorded(w, new)
  BY DEF LedgerInv, QueueInv, TypeOK, Report
<1>2. /\ \A v \in Workers \ {w} : worker'[v] = worker[v]
      /\ worker'[w].job = worker[w].job /\ worker'[w].fence = worker[w].fence
      /\ worker'[w].pc = "pruning"
  BY <1>1 DEF WorkerStates
<1>3. CASE ~ Owns(w)
  <2>1. rows' = rows
    BY <1>1, <1>3 DEF Recorded
  <2>2. \A j \in JobIds : SameRow(j) /\ rows'[j].fence = rows[j].fence
    BY <2>1 DEF SameRow
  <2> QED BY <1>1, <1>2, <1>3, <2>2, UnseenMaps
<1>4. CASE Owns(w)
  <2>1. PICK j \in JobIds : j = worker[w].job
    BY <1>4 DEF Owns
  <2>2. /\ Held(w) = rows[j] /\ rows[j] \in Rows /\ rows[j].status = "running"
        /\ Holds(w, j)
        /\ rows' = [rows EXCEPT ![j] = new]
    BY <1>1, <1>4, <2>1 DEF Held, Owns, Recorded, Holds
  <2>3. rows'[j] = new /\ \A k \in JobIds \ {j} : rows'[k] = rows[k]
    BY <1>1, <2>2
  <2>4. new.status \in {"pending", "succeeded", "failed"}
    BY <1>1, <1>4, <2>2, RowFields
  <2>5. \A v \in Workers, k \in JobIds : Holds(v, k)' <=> Holds(v, k) /\ k # j
    BY <1>2, <2>3, <2>4 DEF Holds, Owns
  <2>6. Unburdened'
    <3>1. \A k \in JobIds : ~ Holds(w, k)'
      BY <2>1, <2>5 DEF Holds
    <3> QED BY <1>2, <2>5, <3>1, BurdenStays DEF LedgerInv
  <2>7. OwnerRead(j) /\ EntryRead(j) /\ EntryRead(j)'
    BY LedgerRead, LedgerReadNext DEF LedgerInv, Read
  <2>8. Entry(j).holder = w
    BY <2>2, <2>7 DEF OwnerRead, EntryRead
  <2>9. ASSUME NEW k \in JobIds, k # j PROVE Entry(k)' = Entry(k)
    <3>1. SameRow(k) /\ SameOwner(k)
      BY <2>3, <2>5, <2>9 DEF SameRow, SameOwner
    <3> QED BY <1>1, <3>1, EntryStays DEF LedgerInv
  <2>10. ASSUME NEW e, Entry(j)' = e
         PROVE  [k \in JobIds |-> Entry(k)]' = [[k \in JobIds |-> Entry(k)] EXCEPT ![j] = e]
    BY <2>9, <2>10
  <2>11. CASE \E status \in Finished : new = Settled(rows[j], status)
    <3>1. PICK status \in Finished : new = Settled(rows[j], status)
      BY <2>11
    <3>2. rows'[j].status = status
      BY <1>1, <2>2, <2>3, <3>1, RowFields
    <3>3. Entry(j)' = Closed(status)
      BY <2>7, <3>2 DEF EntryRead
    <3>4. [k \in JobIds |-> Entry(k)]' = [[k \in JobIds |-> Entry(k)] EXCEPT ![j] = Closed(status)]
      BY <2>10, <3>3
    <3>5. Ledger!Settle(w, j, status)
      BY <2>8, <3>4 DEF Ledger!Settle, Ledger!Closed, Closed
    <3> QED BY <2>6, <3>5 DEF LedgerInv, Ledger!Next
  <2>12. CASE /\ new.status = "pending" /\ new.key = rows[j].key /\ new.kind = rows[j].kind
              /\ \/ new.attempts = rows[j].attempts /\ rows[j].attempts < MaxAttempts(rows[j])
                 \/ new.attempts = rows[j].attempts - 1 /\ rows[j].attempts > 0
    <3>1. rows[j].attempts \in Nat /\ new.attempts \in Nat
      BY <2>2, <2>12 DEF Rows
    <3>2. /\ Entry(j).key = rows[j].key /\ Entry(j).limit = MaxAttempts(rows[j])
          /\ Entry(j).tries = rows[j].attempts
      BY <2>2, <2>7 DEF EntryRead
    <3>3. MaxAttempts(rows[j])' = MaxAttempts(rows[j])
      BY <2>3, <2>12 DEF MaxAttempts
    <3>4. Entry(j)' = [state |-> "waiting", holder |-> NoWorker, key |-> Entry(j).key,
                       tries |-> new.attempts, limit |-> Entry(j).limit]
      BY <2>3, <2>7, <2>12, <3>2, <3>3 DEF EntryRead
    <3>5. Entry(j) \in Entries
      BY <2>2, EntryTyped DEF LedgerInv
    <3> DEFINE f == [k \in JobIds |-> Entry(k)]
    <3>6. f' = [f EXCEPT ![j].state = "waiting", ![j].holder = NoWorker, ![j].tries = new.attempts]
      <4>1. /\ f[j] = Entry(j) /\ DOMAIN f = JobIds /\ f = [k \in JobIds |-> f[k]]
        OBVIOUS
      <4>2. f' = [f EXCEPT ![j] = [state |-> "waiting", holder |-> NoWorker, key |-> f[j].key,
                                   tries |-> new.attempts, limit |-> f[j].limit]]
        BY <2>10, <3>4, <4>1
      <4>3. f[j] \in Entries
        BY <3>5, <4>1
      <4> HIDE DEF f
      <4>4. [f EXCEPT ![j].state = "waiting", ![j].holder = NoWorker, ![j].tries = new.attempts] =
              [f EXCEPT ![j] = [state |-> "waiting", holder |-> NoWorker, key |-> f[j].key,
                                tries |-> new.attempts, limit |-> f[j].limit]]
        BY <3>1, <4>1, <4>3, HandedBackTable, Zenon
      <4> QED BY <4>2, <4>4, Zenon
    <3>7. PICK spent \in BOOLEAN : /\ new.attempts = IF spent THEN Entry(j).tries ELSE Entry(j).tries - 1
                                   /\ spent => Entry(j).tries < Entry(j).limit
      BY <2>12, <3>2
    <3>8. Ledger!HandBack(w, j, spent)
      BY <2>8, <3>6, <3>7, Zenon DEF Ledger!HandBack
    <3> QED BY <2>6, <3>8 DEF LedgerInv, Ledger!Next
  <2> QED BY <1>1, <1>4, <2>2, <2>11, <2>12, RowFields
<1> QED BY <1>3, <1>4

LEMMA ReportsMap ==
    ASSUME LedgerInv, NEW w \in Workers,
           Complete(w) \/ FailForGood(w) \/ FailOrRetry(w) \/ Defer(w)
    PROVE  LedgerInv' /\ (Ledger!Next \/ UNCHANGED [j \in JobIds |-> Entry(j)])
<1>1. QueueInv'
  BY CompletePreserves, FailForGoodPreserves, FailOrRetryPreserves, DeferPreserves DEF LedgerInv
<1>2. CASE Complete(w)
  BY <1>1, <1>2, OutcomeMaps DEF Complete
<1>3. CASE FailForGood(w)
  BY <1>1, <1>3, OutcomeMaps DEF FailForGood
<1>4. CASE FailOrRetry(w)
  <2> DEFINE new == IF Exhausted(worker[w])
                    THEN Settled(Held(w), "failed")
                    ELSE Requeued(Held(w), BackoffFor(worker[w].attempts))
  <2>1. Report(w, Recorded(w, new))
    BY <1>4 DEF FailOrRetry
  <2>2. worker[w].attempts \in Nat
    BY DEF LedgerInv, QueueInv, TypeOK, WorkerStates
  <2>3. BackoffFor(worker[w].attempts) \in Nat
    <3>1. BackoffFor(worker[w].attempts) \in 0..BackoffCap
      BY <2>2, BackoffTyped
    <3> QED BY <3>1, JobsAssumption
  <2>4. ASSUME Owns(w), ~Exhausted(worker[w])
        PROVE  Held(w).attempts < MaxAttempts(Held(w))
    <3>1. /\ worker[w].attempts = Held(w).attempts /\ worker[w].kind = Held(w).kind
      BY <2>4, OwnersRow DEF LedgerInv, Held
    <3>2. MaxAttempts(worker[w]) = MaxAttempts(Held(w)) /\ MaxAttempts(Held(w)) \in Nat
      BY <3>1, JobsAssumption DEF MaxAttempts
    <3> QED BY <2>2, <2>4, <3>1, <3>2 DEF Exhausted
  <2>5. Owns(w) => \/ new = Settled(Held(w), "failed")
                   \/ /\ Held(w).attempts < MaxAttempts(Held(w))
                      /\ \E delay \in Nat : new = Requeued(Held(w), delay)
    BY <2>3, <2>4
  <2> HIDE DEF new
  <2> QED BY <1>1, <2>1, <2>5, OutcomeMaps
<1>5. CASE Defer(w)
  <2>1. Owns(w) => Held(w).attempts > 0
    BY OwnersRow, JobsAssumption DEF LedgerInv, Held, MaxAttempts
  <2>2. CASE Owns(w)
    <3>1. Report(w, Recorded(w, Deferred(Held(w))))
      BY <1>5, <2>1, <2>2 DEF Defer
    <3> QED BY <1>1, <2>1, <3>1, OutcomeMaps
  <2>3. CASE ~Owns(w)
    <3>1. Report(w, Recorded(w, Settled(Held(w), "failed")))
      BY <1>5, <2>3 DEF Defer, Recorded
    <3> QED BY <1>1, <2>3, <3>1, OutcomeMaps
  <2> QED BY <2>2, <2>3
<1> QED BY <1>2, <1>3, <1>4, <1>5

LEMMA PruneMaps ==
    ASSUME LedgerInv, NEW w \in Workers, Prune(w)
    PROVE  LedgerInv' /\ Ledger!Next
<1>1. QueueInv'
  BY PrunePreserves DEF LedgerInv
<1>2. /\ rows \in [JobIds -> Rows] /\ worker \in [Workers -> WorkerStates] /\ created \in Nat
      /\ created' = created /\ worker' = [worker EXCEPT ![w] = NoClaim]
      /\ rows' = [j \in JobIds |-> IF Prunable(j) THEN NoRow ELSE rows[j]]
      /\ worker[w].pc = "pruning"
  BY DEF LedgerInv, QueueInv, TypeOK, Prune
<1>3. PICK forgotten \in SUBSET JobIds : \A j \in JobIds : j \in forgotten <=> Prunable(j)
  <2> WITNESS {j \in JobIds : Prunable(j)} \in SUBSET JobIds
  <2> QED OBVIOUS
<1>4. /\ \A j \in forgotten : rows'[j].status = "absent" /\ rows[j].status \in Finished
      /\ \A j \in JobIds \ forgotten : rows'[j] = rows[j]
  BY <1>2, <1>3 DEF Prunable, NoRow
<1>5. worker'[w].job = 0 /\ \A v \in Workers \ {w} : worker'[v] = worker[v]
  BY <1>2 DEF NoClaim
<1>6. \A v \in Workers, j \in JobIds : Holds(v, j)' <=> Holds(v, j)
  <2> SUFFICES ASSUME NEW v \in Workers, NEW j \in JobIds PROVE Holds(v, j)' <=> Holds(v, j)
      OBVIOUS
  <2>1. CASE v = w
    BY <1>2, <1>5, <2>1 DEF Holds, Owns, LedgerInv, Unburdened
  <2>2. CASE v # w
    BY <1>4, <1>5, <2>2 DEF Holds, Owns
  <2> QED BY <2>1, <2>2
<1>7. Unburdened'
  <2>1. \A j \in JobIds : ~Holds(w, j)'
    BY <1>5 DEF Holds
  <2> QED BY <1>5, <1>6, <2>1, BurdenStays DEF LedgerInv
<1>8. /\ \A j \in JobIds : EntryRead(j)
      /\ \A j \in JobIds : EntryRead(j)'
  BY <1>1, LedgerRead, LedgerReadNext DEF LedgerInv, Read
<1>9. ASSUME NEW j \in JobIds, j \notin forgotten PROVE Entry(j)' = Entry(j)
  <2>1. SameRow(j) /\ SameOwner(j)
    BY <1>4, <1>6, <1>9 DEF SameRow, SameOwner
  <2> QED BY <1>1, <1>2, <2>1, EntryStays DEF LedgerInv
<1>10. ASSUME NEW j \in forgotten
       PROVE  Entry(j)' = Closed("forgotten") /\ Entry(j).state \in {"succeeded", "failed"}
  <2>1. j <= created
    <3>1. ASSUME j > created PROVE FALSE
      BY <1>4, <3>1 DEF LedgerInv, QueueInv, RowsBeyond, NoRow
    <3> QED BY <1>2, <3>1
  <2>2. Entry(j)' = Closed("forgotten")
    BY <1>2, <1>4, <1>8, <2>1 DEF EntryRead, Closed
  <2>3. Entry(j).state = rows[j].status
    BY <1>4, <1>8 DEF EntryRead, Closed
  <2> QED BY <1>4, <2>2, <2>3
<1>11. Ledger!Forget(forgotten)
  <2>1. [j \in JobIds |-> Entry(j)]' =
          [j \in JobIds |-> IF j \in forgotten THEN Closed("forgotten") ELSE Entry(j)]
    <3>1. ASSUME NEW j \in JobIds
          PROVE  Entry(j)' = IF j \in forgotten THEN Closed("forgotten") ELSE Entry(j)
      BY <1>9, <1>10
    <3> QED BY <3>1, Zenon
  <2> QED BY <1>10, <2>1 DEF Ledger!Forget, Ledger!Closed, Closed
<1> QED BY <1>1, <1>7, <1>11 DEF LedgerInv, Ledger!Next

\* What a worker held when it died has no holder.
LEMMA LoseMaps ==
    ASSUME LedgerInv, NEW w \in Workers, Lose(w)
    PROVE  LedgerInv' /\ Ledger!Next
<1>1. QueueInv'
  BY LosePreserves DEF LedgerInv
<1>2. /\ worker \in [Workers -> WorkerStates] /\ created' = created /\ rows' = rows
      /\ worker' = [worker EXCEPT ![w] = NoClaim]
  BY DEF LedgerInv, QueueInv, TypeOK, Lose
<1>3. worker'[w].job = 0 /\ \A v \in Workers \ {w} : worker'[v] = worker[v]
  BY <1>2 DEF NoClaim
<1>4. \A v \in Workers, j \in JobIds : Holds(v, j)' <=> Holds(v, j) /\ v # w
  BY <1>2, <1>3 DEF Holds, Owns
<1>5. Unburdened'
  BY <1>3, <1>4, BurdenStays DEF LedgerInv
<1>6. /\ \A j \in JobIds : OwnerRead(j) /\ EntryRead(j)
      /\ \A j \in JobIds : OwnerRead(j)' /\ EntryRead(j)'
  BY <1>1, LedgerRead, LedgerReadNext DEF LedgerInv, Read
<1>7. ASSUME NEW j \in JobIds, ~ Holds(w, j)
      PROVE  Entry(j)' = Entry(j) /\ Entry(j).holder # w
  <2>1. SameRow(j) /\ SameOwner(j)
    BY <1>2, <1>4, <1>7 DEF SameRow, SameOwner
  <2>2. OwnerOf(j) # w
    BY <1>6, <1>7, NoWorkerAssumption DEF OwnerRead
  <2>3. rows[j].status \in Statuses
    BY DEF LedgerInv, QueueInv, TypeOK, Rows
  <2>4. Entry(j).holder \in {OwnerOf(j), NoWorker}
    BY <1>6, <2>3 DEF EntryRead, Closed
  <2> QED BY <1>1, <1>2, <2>1, <2>2, <2>4, EntryStays, NoWorkerAssumption DEF LedgerInv
<1>8. ASSUME NEW j \in JobIds, Holds(w, j)
      PROVE  Entry(j)' = [Entry(j) EXCEPT !.holder = NoWorker] /\ Entry(j).holder = w
  <2>1. rows[j].status = "running"
    BY <1>8 DEF Holds, Owns
  <2>2. OwnerOf(j) = w /\ \A v \in Workers : Holds(v, j) <=> v = w
    BY <1>6, <1>8 DEF OwnerRead
  <2>3. OwnerOf(j)' = NoWorker
    BY <1>4, <1>6, <2>2 DEF OwnerRead
  <2>4. MaxAttempts(rows[j])' = MaxAttempts(rows[j])
    BY <1>2 DEF MaxAttempts
  <2>5. Entry(j)' = [state |-> "held", holder |-> NoWorker, key |-> rows[j].key,
                     tries |-> rows[j].attempts, limit |-> MaxAttempts(rows[j])]
    BY <1>2, <1>6, <2>1, <2>3, <2>4 DEF EntryRead
  <2>6. Entry(j) = [state |-> "held", holder |-> w, key |-> rows[j].key,
                    tries |-> rows[j].attempts, limit |-> MaxAttempts(rows[j])]
    BY <1>6, <2>1, <2>2 DEF EntryRead
  <2> QED BY <2>5, <2>6
<1>9. Ledger!Orphan(w)
  <2>1. [j \in JobIds |-> Entry(j)]' =
          [j \in JobIds |-> IF [k \in JobIds |-> Entry(k)][j].holder = w
                            THEN [[k \in JobIds |-> Entry(k)][j] EXCEPT !.holder = NoWorker]
                            ELSE [k \in JobIds |-> Entry(k)][j]]
    <3>1. ASSUME NEW j \in JobIds
          PROVE  Entry(j)' = IF Entry(j).holder = w THEN [Entry(j) EXCEPT !.holder = NoWorker]
                             ELSE Entry(j)
      BY <1>7, <1>8
    <3>2. \A j \in JobIds : [k \in JobIds |-> Entry(k)][j] = Entry(j)
      OBVIOUS
    <3> QED BY <3>1, <3>2, Zenon
  <2> QED BY <2>1, Zenon DEF Ledger!Orphan
<1> QED BY <1>1, <1>5, <1>9 DEF LedgerInv, Ledger!Next

LEMMA StillMaps ==
    ASSUME LedgerInv, UNCHANGED <<created, rows, worker>>, clock' \in Nat
    PROVE  LedgerInv' /\ UNCHANGED [j \in JobIds |-> Entry(j)]
<1>1. QueueInv'
  BY IdlePreserves DEF LedgerInv
<1>2. \A v \in Workers, j \in JobIds : Holds(v, j)' <=> Holds(v, j)
  BY DEF Holds, Owns
<1>3. Unburdened'
  BY <1>2 DEF LedgerInv, Unburdened, Owns
<1>4. UNCHANGED [j \in JobIds |-> Entry(j)]
  BY <1>1, <1>2, LedgerStays DEF LedgerInv, SameRow, SameOwner
<1> QED BY <1>1, <1>3, <1>4 DEF LedgerInv

-----------------------------------------------------------------------------
(* The refinement.                                                         *)

LEMMA InitMaps == Init => LedgerInv /\ Ledger!Init
<1> SUFFICES ASSUME Init PROVE LedgerInv /\ Ledger!Init
    OBVIOUS
<1>1. QueueInv
  BY InitInv
<1>2. Unburdened
  BY DEF Init, Unburdened, Owns, NoClaim
<1>3. ASSUME NEW j \in JobIds PROVE Entry(j) = Closed("none")
  BY JobsAssumption DEF Init, Entry, NoRow
<1> QED BY <1>1, <1>2, <1>3 DEF LedgerInv, Ledger!Init, Ledger!Closed, Closed

LEMMA StepMaps ==
    LedgerInv /\ [Next]_vars => LedgerInv' /\ [Ledger!Next]_[j \in JobIds |-> Entry(j)]
<1> SUFFICES ASSUME LedgerInv, [Next]_vars
             PROVE  LedgerInv' /\ (Ledger!Next \/ UNCHANGED [j \in JobIds |-> Entry(j)])
    OBVIOUS
<1>0. clock \in Nat
  BY DEF LedgerInv, QueueInv, TypeOK
<1> HIDE DEF LedgerInv
<1>1. CASE \E kind \in Kinds, key \in Keys \cup {NoKey} : Enqueue(kind, key)
  BY <1>1, EnqueueMaps
<1>2. ASSUME NEW w \in Workers, WorkerStep(w)
      PROVE  LedgerInv' /\ (Ledger!Next \/ UNCHANGED [j \in JobIds |-> Entry(j)])
  <2>1. CASE Claim(w)
    BY <2>1, ClaimMaps
  <2>2. CASE RetireOnly(w)
    BY <2>2, RetireOnlyMaps
  <2>3. CASE \E declared \in BOOLEAN : Hold(w, declared)
    BY <2>3, HoldMaps
  <2>4. CASE Complete(w) \/ FailForGood(w) \/ FailOrRetry(w) \/ Defer(w)
    BY <2>4, ReportsMap
  <2>5. CASE Prune(w)
    BY <2>5, PruneMaps
  <2> QED BY <1>2, <2>1, <2>2, <2>3, <2>4, <2>5 DEF WorkerStep
<1>3. CASE \E w \in Workers : Lose(w)
  BY <1>3, LoseMaps
<1>4. CASE Tick \/ UNCHANGED vars
  <2>1. UNCHANGED <<created, rows, worker>> /\ clock' \in Nat
    BY <1>0, <1>4 DEF Tick, vars
  <2> QED BY <2>1, StillMaps
<1> QED BY <1>1, <1>2, <1>3, <1>4 DEF Next

\* The queue keeps the ledger's promise, for any number of workers and jobs: a
\* job has one holder, only the holder reports on it, outcomes are final, and a
\* job is given up only when its last permitted run was lost.
THEOREM QueueImplementsLedger == Spec => ImplementsLedger
  BY InitMaps, StepMaps, PTL DEF Spec, ImplementsLedger, Ledger!Spec

-----------------------------------------------------------------------------
(* The scheduler over the queue, any interval, jitter and number of losses. *)

-----------------------------------------------------------------------------
(* The inductive invariant.                                                *)

LoopStates == [at : {"scanning", "firing", "claiming", "working"}, moment : Nat,
               due : SUBSET [name : ScheduledKeys, slot : Nat]]

TablesTyped ==
    /\ schedule \in [ScheduledKeys -> Nat]
    /\ loop \in [Workers -> LoopStates]
    /\ losses \in 0..MaxLosses

\* A worker publishes slots that had come at the moment it read them, and that
\* moment has passed.
SnapshotsPast ==
    \A w \in Workers :
        /\ loop[w].moment <= clock
        /\ \A due \in loop[w].due : due.slot \in 1..loop[w].moment

SchedulerInv == QueueInv /\ TablesTyped /\ SnapshotsPast

LEMMA InvTyped == SchedulerInv => SchedulerTypeOK
<1> SUFFICES ASSUME SchedulerInv PROVE SchedulerTypeOK
    OBVIOUS
<1>1. TypeOK /\ clock \in Nat
  BY DEF SchedulerInv, QueueInv, TypeOK
<1>2. ASSUME NEW w \in Workers
      PROVE  /\ loop[w].at \in {"scanning", "firing", "claiming", "working"}
             /\ loop[w].moment \in 0..clock
             /\ loop[w].due \subseteq [name : ScheduledKeys, slot : 1..clock]
  <2>1. loop[w] \in LoopStates
    BY <1>2 DEF SchedulerInv, TablesTyped
  <2>2. /\ loop[w].at \in {"scanning", "firing", "claiming", "working"}
        /\ loop[w].moment \in Nat
        /\ loop[w].due \subseteq [name : ScheduledKeys, slot : Nat]
    BY <2>1 DEF LoopStates
  <2>3. loop[w].moment <= clock /\ \A due \in loop[w].due : due.slot \in 1..loop[w].moment
    BY <1>2 DEF SchedulerInv, SnapshotsPast
  <2>4. ASSUME NEW due \in loop[w].due PROVE due \in [name : ScheduledKeys, slot : 1..clock]
    <3>1. due \in [name : ScheduledKeys, slot : Nat]
      BY <2>2, <2>4
    <3>2. due.slot \in 1..clock
      BY <1>1, <2>2, <2>3, <2>4
    <3> QED BY <3>1, <3>2
  <2> QED BY <1>1, <2>2, <2>3, <2>4
<1> QED BY <1>1, <1>2 DEF SchedulerTypeOK, SchedulerInv, TablesTyped

-----------------------------------------------------------------------------
(* The queue under the scheduler.                                          *)

LEMMA ScheduledKeysAreKeys ==
    ASSUME NEW s \in ScheduledKeys
    PROVE  s \in Keys \cup {NoKey} /\ s # NoKey /\ s \in KeysOf("scheduled")
  BY JobsAssumption DEF Keys, KeysOf

\* What a loop does to the queue but publish: it claims, works, or nothing.
QueueTurns ==
    \/ UNCHANGED vars
    \/ \E w \in Workers :
         \/ Claim(w) \/ RetireOnly(w) \/ Lose(w) \/ Prune(w)
         \/ (\E declared \in BOOLEAN : Hold(w, declared)) \/ Complete(w) \/ FailOrRetry(w)

LEMMA TurnIsStep == QueueTurns => [Next]_vars
  BY DEF QueueTurns, Next, WorkerStep

LEMMA TimePreserves ==
    ASSUME QueueInv, Pass
    PROVE  QueueInv'
<1>1. UNCHANGED <<created, rows, worker>> /\ clock' = clock + 1
  BY DEF Pass
<1>2. clock' \in Nat
  BY <1>1 DEF QueueInv, TypeOK
<1> QED BY <1>1, <1>2, IdlePreserves

\* Whatever a step of the queue does to a row, short of inserting it, the row is
\* not open afterwards unless it was, under the same key.
LEMMA NothingOpens ==
    ASSUME QueueInv, QueueTurns, NEW j \in JobIds, rows'[j].status \in Unfinished
    PROVE  rows[j].status \in Unfinished /\ rows'[j].key = rows[j].key
<1>0. /\ rows \in [JobIds -> Rows] /\ clock \in Nat /\ rows[j] \in Rows
      /\ worker \in [Workers -> WorkerStates]
  BY DEF QueueInv, TypeOK
<1> HIDE DEF QueueInv
<1>1. ASSUME NEW w \in Workers, NEW new, rows' = Recorded(w, new),
             Owns(w) => new.status \notin Unfinished \/ new.key = Held(w).key
      PROVE  rows[j].status \in Unfinished /\ rows'[j].key = rows[j].key
  <2>1. CASE Owns(w) /\ worker[w].job = j
    BY <1>0, <1>1, <2>1 DEF Recorded, Owns, Held
  <2>2. CASE ~ (Owns(w) /\ worker[w].job = j)
    BY <1>0, <1>1, <2>2 DEF Recorded
  <2> QED BY <2>1, <2>2
<1>2. Abandoned(rows[j]).status \notin Unfinished
  BY <1>0, RowFields
<1>3. ASSUME NEW w \in Workers, Claim(w)
      PROVE  rows[j].status \in Unfinished /\ rows'[j].key = rows[j].key
  <2>1. PICK i \in JobIds : Oldest(i) /\ rows' = AfterClaim(i)
    BY <1>3 DEF Claim
  <2>2. CASE j = i
    <3>1. rows'[j] = Claimed(rows[j]) /\ Claimed(rows[j]).key = rows[j].key
      BY <1>0, <2>1, <2>2, RowFields DEF AfterClaim
    <3> QED BY <2>1, <2>2, <3>1 DEF Oldest, Takeable, Claimable, Lapsed
  <2>3. CASE j # i
    BY <1>2, <2>1, <2>3 DEF AfterClaim
  <2> QED BY <2>2, <2>3
<1>4. ASSUME NEW w \in Workers, RetireOnly(w)
      PROVE  rows[j].status \in Unfinished /\ rows'[j].key = rows[j].key
  BY <1>2, <1>4 DEF RetireOnly, AfterRetiring
<1>5. ASSUME NEW w \in Workers, Prune(w)
      PROVE  rows[j].status \in Unfinished /\ rows'[j].key = rows[j].key
  BY <1>5 DEF Prune, NoRow
<1>6. ASSUME NEW w \in Workers, NEW declared \in BOOLEAN, Hold(w, declared)
      PROVE  rows[j].status \in Unfinished /\ rows'[j].key = rows[j].key
  <2> DEFINE new == [rows[worker[w].job] EXCEPT !.lease = clock + DeclaredLease]
  <2>1. CASE rows' = rows
    BY <2>1
  <2>2. CASE rows' = Recorded(w, new)
    <3>1. Owns(w) => new.key = Held(w).key
      BY <1>0 DEF Owns, Held, Rows
    <3> HIDE DEF new
    <3> QED BY <1>1, <2>2, <3>1
  <2> QED BY <1>6, <2>1, <2>2 DEF Hold
<1>7. ASSUME NEW w \in Workers, Owns(w)
      PROVE  /\ \A status \in Finished : Settled(Held(w), status).status \notin Unfinished
             /\ \A delay \in Nat : Requeued(Held(w), delay).key = Held(w).key
  <2>1. Held(w) \in Rows
    BY <1>7, OwnersRow DEF Held
  <2> QED BY <1>0, <2>1, RowFields
<1>8. ASSUME NEW w \in Workers, Complete(w)
      PROVE  rows[j].status \in Unfinished /\ rows'[j].key = rows[j].key
  <2>1. rows' = Recorded(w, Settled(Held(w), "succeeded"))
    BY <1>8 DEF Complete, Report
  <2> QED BY <1>1, <1>7, <2>1
<1>9. ASSUME NEW w \in Workers, FailOrRetry(w)
      PROVE  rows[j].status \in Unfinished /\ rows'[j].key = rows[j].key
  <2> DEFINE new == IF Exhausted(worker[w])
                    THEN Settled(Held(w), "failed")
                    ELSE Requeued(Held(w), BackoffFor(worker[w].attempts))
  <2>1. BackoffFor(worker[w].attempts) \in Nat
    <3>1. worker[w].attempts \in Nat
      BY <1>0 DEF WorkerStates
    <3>2. BackoffFor(worker[w].attempts) \in 0..BackoffCap
      BY <3>1, BackoffTyped
    <3> QED BY <3>2, JobsAssumption
  <2>2. Owns(w) => new.status \notin Unfinished \/ new.key = Held(w).key
    BY <1>7, <2>1
  <2>3. rows' = Recorded(w, new)
    BY <1>9 DEF FailOrRetry, Report
  <2> HIDE DEF new
  <2> QED BY <1>1, <2>2, <2>3
<1> QED BY <1>3, <1>4, <1>5, <1>6, <1>8, <1>9 DEF QueueTurns, Lose, vars

\* Hence only a publication puts a schedule's job in flight.
LEMMA NothingTakesOff ==
    ASSUME QueueInv, QueueTurns \/ UNCHANGED rows, NEW s, InFlight(s)'
    PROVE  InFlight(s)
<1>1. s # NoKey
  BY DEF InFlight
<1>2. PICK j \in JobIds : rows'[j].status \in Unfinished /\ rows'[j].key = s
  BY DEF InFlight
<1>3. rows[j].status \in Unfinished /\ rows[j].key = s
  BY <1>2, NothingOpens
<1> QED BY <1>1, <1>3 DEF InFlight

LEMMA PublicationTakesOff ==
    ASSUME QueueInv, NEW s \in ScheduledKeys, Enqueue("scheduled", s)
    PROVE  InFlight(s)'
<1>1. created + 1 \in JobIds
  BY JobsAssumption DEF QueueInv, TypeOK, Enqueue
<1>2. rows'[created + 1] = Queued("scheduled", s)
  BY <1>1 DEF QueueInv, TypeOK, Enqueue
<1>3. Queued("scheduled", s).status = "pending" /\ Queued("scheduled", s).key = s
  BY DEF Queued, NoRow
<1> QED BY <1>1, <1>2, <1>3, ScheduledKeysAreKeys DEF InFlight

LEMMA OnlyItsOwnTakesOff ==
    ASSUME QueueInv, NEW s \in ScheduledKeys, Enqueue("scheduled", s), NEW r, r # s, InFlight(r)'
    PROVE  InFlight(r)
<1>1. PICK j \in JobIds : r # NoKey /\ rows'[j].status \in Unfinished /\ rows'[j].key = r
  BY DEF InFlight
<1>2. Queued("scheduled", s).key = s
  BY DEF Queued, NoRow
<1>3. rows'[j] = rows[j]
  BY <1>1, <1>2 DEF QueueInv, TypeOK, Enqueue
<1> QED BY <1>1, <1>3 DEF InFlight

-----------------------------------------------------------------------------
(* The invariant.                                                          *)

\* The queue's part of every step, and where a publication comes from.
LEMMA QueuePart ==
    ASSUME [SchedulerNext]_everything
    PROVE  \/ QueueTurns
           \/ Pass
           \/ \E w \in Workers : \E due \in loop[w].due : \E spread \in 0..Jitter :
                /\ Fire(w, due, spread)
                /\ Won(due)
                /\ ~InFlight(due.name)
                /\ Enqueue("scheduled", due.name)
<1>1. ASSUME NEW names \in Installations, NEW spread \in 0..Jitter, Register(names, spread)
      PROVE  QueueTurns
  BY <1>1 DEF Register, QueueTurns
<1>2. ASSUME NEW w \in Workers, Scan(w) \/ Fired(w) \/ FireFails(w)
      PROVE  QueueTurns
  BY <1>2 DEF Scan, Fired, FireFails, QueueTurns
<1>3. ASSUME NEW w \in Workers, ClaimOne(w) \/ Work(w) \/ Die(w)
      PROVE  QueueTurns
  BY <1>3 DEF ClaimOne, Work, Die, QueueTurns
<1>4. ASSUME NEW w \in Workers, NEW due \in loop[w].due, NEW spread \in 0..Jitter,
             Fire(w, due, spread)
      PROVE  \/ QueueTurns
             \/ Won(due) /\ ~InFlight(due.name) /\ Enqueue("scheduled", due.name)
  BY <1>4 DEF Fire, QueueTurns
<1>5. UNCHANGED everything => QueueTurns
  BY DEF everything, QueueTurns
<1> QED BY <1>1, <1>2, <1>3, <1>4, <1>5 DEF SchedulerNext, LoopStep

LEMMA DueFields ==
    ASSUME SchedulerInv, NEW w \in Workers, NEW due \in loop[w].due
    PROVE  /\ due.name \in ScheduledKeys /\ due.slot \in Nat
           /\ loop[w].moment \in Nat
           /\ due.slot <= loop[w].moment
<1>1. loop[w] \in LoopStates
  BY DEF SchedulerInv, TablesTyped
<1>2. loop[w].due \subseteq [name : ScheduledKeys, slot : Nat] /\ loop[w].moment \in Nat
  BY <1>1 DEF LoopStates
<1>3. due.slot \in 1..loop[w].moment
  BY DEF SchedulerInv, SnapshotsPast
<1> QED BY <1>2, <1>3

LEMMA QueueKept ==
    ASSUME SchedulerInv, [SchedulerNext]_everything
    PROVE  QueueInv'
<1>1. CASE QueueTurns
  BY <1>1, TurnIsStep, NextPreserves DEF SchedulerInv
<1>2. CASE Pass
  BY <1>2, TimePreserves DEF SchedulerInv
<1>3. ASSUME NEW w \in Workers, NEW due \in loop[w].due, Enqueue("scheduled", due.name)
      PROVE  QueueInv'
  <2>1. due.name \in Keys \cup {NoKey}
    BY <1>3, DueFields, ScheduledKeysAreKeys
  <2> QED BY <1>3, <2>1, EnqueuePreserves DEF SchedulerInv
<1> QED BY <1>1, <1>2, <1>3, QueuePart

\* The clock never goes back.
LEMMA ClockAdvances ==
    ASSUME SchedulerInv, [SchedulerNext]_everything
    PROVE  clock \in Nat /\ clock' \in Nat /\ clock <= clock'
<1>1. clock \in Nat /\ clock' \in Nat
  BY QueueKept DEF SchedulerInv, QueueInv, TypeOK
<1>2. CASE QueueTurns
  <2>1. ASSUME NEW w \in Workers, Complete(w) \/ FailOrRetry(w) PROVE clock' = clock
    BY <2>1 DEF Complete, FailOrRetry, Report
  <2>2. ASSUME NEW w \in Workers, Claim(w) \/ RetireOnly(w) \/ Lose(w) \/ Prune(w)
        PROVE  clock' = clock
    BY <2>2 DEF Claim, RetireOnly, Lose, Prune
  <2>3. ASSUME NEW w \in Workers, NEW declared \in BOOLEAN, Hold(w, declared)
        PROVE  clock' = clock
    BY <2>3 DEF Hold
  <2>4. clock' = clock
    BY <1>2, <2>1, <2>2, <2>3 DEF QueueTurns, vars
  <2> QED BY <1>1, <2>4
<1>3. CASE Pass
  BY <1>1, <1>3 DEF Pass
<1>4. CASE \E w \in Workers : \E due \in loop[w].due : Enqueue("scheduled", due.name)
  BY <1>1, <1>4 DEF Enqueue
<1> QED BY <1>1, <1>2, <1>3, <1>4, QueuePart

\* What a step does to one worker's loop.
LoopMoves(w) ==
    \/ loop'[w].moment = loop[w].moment /\ loop'[w].due \subseteq loop[w].due
    \/ loop'[w].moment = 0 /\ loop'[w].due = {}
    \/ loop'[w].moment = clock /\ \A due \in loop'[w].due : due.slot \in 1..clock

LEMMA TablesKept ==
    ASSUME SchedulerInv, [SchedulerNext]_everything
    PROVE  TablesTyped' /\ \A w \in Workers : LoopMoves(w)
<1> USE SchedulerAssumption
<1>1. /\ schedule \in [ScheduledKeys -> Nat] /\ loop \in [Workers -> LoopStates]
      /\ losses \in 0..MaxLosses /\ clock \in Nat
  BY DEF SchedulerInv, TablesTyped, QueueInv, TypeOK
<1>2. Scanning \in LoopStates /\ [Scanning EXCEPT !.at = "claiming"] \in LoopStates
      /\ Scanning.moment = 0 /\ Scanning.due = {}
      /\ [Scanning EXCEPT !.at = "claiming"].moment = 0
      /\ [Scanning EXCEPT !.at = "claiming"].due = {}
  BY DEF Scanning, LoopStates
<1>3. ASSUME UNCHANGED scheduling
      PROVE  TablesTyped' /\ \A w \in Workers : LoopMoves(w)
  BY <1>1, <1>3 DEF scheduling, TablesTyped, LoopMoves
<1>4. ASSUME NEW w \in Workers, NEW l \in LoopStates, loop' = [loop EXCEPT ![w] = l],
             schedule' \in [ScheduledKeys -> Nat], losses' \in 0..MaxLosses,
             \/ l.moment = loop[w].moment /\ l.due \subseteq loop[w].due
             \/ l.moment = 0 /\ l.due = {}
             \/ l.moment = clock /\ \A due \in l.due : due.slot \in 1..clock
      PROVE  TablesTyped' /\ \A v \in Workers : LoopMoves(v)
  <2>1. loop' \in [Workers -> LoopStates] /\ loop'[w] = l
    BY <1>1, <1>4
  <2>2. ASSUME NEW v \in Workers PROVE LoopMoves(v)
    <3>1. CASE v = w
      BY <1>4, <2>1, <3>1 DEF LoopMoves
    <3>2. CASE v # w
      BY <1>1, <1>4, <3>2 DEF LoopMoves
    <3> QED BY <3>1, <3>2
  <2> QED BY <1>4, <2>1, <2>2 DEF TablesTyped
<1>5. ASSUME NEW names \in Installations, NEW spread \in 0..Jitter, Register(names, spread)
      PROVE  TablesTyped' /\ \A w \in Workers : LoopMoves(w)
  <2>1. NextDue(clock, spread) \in Nat /\ NoSlot \in Nat
    BY <1>1 DEF NextDue, NoSlot
  <2>2. schedule' \in [ScheduledKeys -> Nat]
    BY <1>1, <1>5, <2>1 DEF Register, RegisteredAs
  <2>3. loop' = loop /\ losses' = losses
    BY <1>5 DEF Register
  <2> QED BY <1>1, <2>2, <2>3 DEF TablesTyped, LoopMoves
<1>6. ASSUME NEW w \in Workers, Scan(w)
      PROVE  TablesTyped' /\ \A v \in Workers : LoopMoves(v)
  <2> DEFINE due == {[name |-> s, slot |-> schedule[s]] :
                        s \in {r \in Registered : schedule[r] <= clock}}
             l == [at |-> "firing", moment |-> clock, due |-> due]
  <2>1. ASSUME NEW d \in due
        PROVE  d \in [name : ScheduledKeys, slot : Nat] /\ d.slot \in 1..clock
    <3>1. PICK s \in ScheduledKeys : /\ d = [name |-> s, slot |-> schedule[s]]
                                     /\ schedule[s] # NoSlot /\ schedule[s] <= clock
      BY <2>1 DEF Registered
    <3> QED BY <1>1, <3>1 DEF NoSlot
  <2>2. loop' = [loop EXCEPT ![w] = l] /\ schedule' = schedule /\ losses' = losses
    BY <1>6 DEF Scan
  <2> HIDE DEF due
  <2>3. l \in LoopStates /\ l.moment = clock /\ l.due = due
    BY <1>1, <2>1 DEF LoopStates
  <2> HIDE DEF l
  <2> QED BY <1>1, <1>4, <2>1, <2>2, <2>3
<1>7. ASSUME NEW w \in Workers, NEW due \in loop[w].due, NEW spread \in 0..Jitter,
             Fire(w, due, spread)
      PROVE  TablesTyped' /\ \A v \in Workers : LoopMoves(v)
  <2> DEFINE l == [loop[w] EXCEPT !.due = @ \ {due}]
  <2>1. loop' = [loop EXCEPT ![w] = l] /\ losses' = losses
    BY <1>1, <1>7 DEF Fire
  <2>2. l \in LoopStates /\ l.moment = loop[w].moment /\ l.due \subseteq loop[w].due
    BY <1>1 DEF LoopStates
  <2>3. NextDue(loop[w].moment, spread) \in Nat
    BY <1>7, DueFields DEF NextDue
  <2>4. schedule' \in [ScheduledKeys -> Nat]
    BY <1>1, <1>7, <2>3 DEF Fire
  <2> HIDE DEF l
  <2> QED BY <1>1, <1>4, <2>1, <2>2, <2>4
<1>8. ASSUME NEW w \in Workers, Fired(w)
      PROVE  TablesTyped' /\ \A v \in Workers : LoopMoves(v)
  <2>1. loop' = [loop EXCEPT ![w] = [Scanning EXCEPT !.at = "claiming"]]
        /\ schedule' = schedule /\ losses' = losses
    BY <1>8 DEF Fired
  <2> QED BY <1>1, <1>2, <1>4, <2>1
<1>9. ASSUME NEW w \in Workers, loop' = [loop EXCEPT ![w] = Scanning],
             schedule' = schedule, losses' \in 0..MaxLosses
      PROVE  TablesTyped' /\ \A v \in Workers : LoopMoves(v)
  BY <1>1, <1>2, <1>4, <1>9
<1>10. ASSUME NEW w \in Workers, FireFails(w) \/ Die(w)
       PROVE  TablesTyped' /\ \A v \in Workers : LoopMoves(v)
  <2>1. losses' \in 0..MaxLosses
    BY <1>1, <1>10 DEF FireFails, Die
  <2> QED BY <1>9, <1>10, <2>1 DEF FireFails, Die
<1>11. ASSUME NEW w \in Workers, ClaimOne(w) \/ Work(w)
       PROVE  TablesTyped' /\ \A v \in Workers : LoopMoves(v)
  <2>1. schedule' = schedule /\ losses' = losses
    BY <1>11 DEF ClaimOne, Work
  <2>2. CASE loop' = [loop EXCEPT ![w] = Scanning]
    BY <1>1, <1>9, <2>1, <2>2
  <2>3. CASE loop' = [loop EXCEPT ![w].at = "working"]
    <3> DEFINE l == [loop[w] EXCEPT !.at = "working"]
    <3>1. loop' = [loop EXCEPT ![w] = l]
      BY <1>1, <2>3
    <3>2. l \in LoopStates /\ l.moment = loop[w].moment /\ l.due = loop[w].due
      BY <1>1 DEF LoopStates
    <3> HIDE DEF l
    <3> QED BY <1>1, <1>4, <2>1, <3>1, <3>2
  <2>4. CASE UNCHANGED loop
    BY <1>3, <2>1, <2>4 DEF scheduling
  <2> QED BY <1>11, <2>2, <2>3, <2>4 DEF ClaimOne, Work
<1>12. ASSUME Pass \/ UNCHANGED everything
       PROVE  TablesTyped' /\ \A w \in Workers : LoopMoves(w)
  BY <1>3, <1>12 DEF Pass, everything
<1> QED BY <1>5, <1>6, <1>7, <1>8, <1>10, <1>11, <1>12 DEF SchedulerNext, LoopStep

LEMMA InvStep ==
    ASSUME SchedulerInv, [SchedulerNext]_everything
    PROVE  SchedulerInv'
<1>1. QueueInv' /\ TablesTyped'
  BY QueueKept, TablesKept
<1>2. ASSUME NEW w \in Workers
      PROVE  /\ loop'[w].moment <= clock'
             /\ \A due \in loop'[w].due : due.slot \in 1..loop'[w].moment
  <2>1. /\ clock \in Nat /\ clock' \in Nat /\ clock <= clock'
    BY ClockAdvances
  <2>2. loop[w] \in LoopStates
    BY <1>2 DEF SchedulerInv, TablesTyped
  <2>3. loop[w].moment \in Nat
    BY <2>2 DEF LoopStates
  <2>4. /\ loop[w].moment <= clock
        /\ \A due \in loop[w].due : due.slot \in 1..loop[w].moment
    BY <1>2 DEF SchedulerInv, SnapshotsPast
  <2> QED BY <1>2, <2>1, <2>3, <2>4, TablesKept DEF LoopMoves
<1> QED BY <1>1, <1>2 DEF SchedulerInv, SnapshotsPast

LEMMA InvInit == SchedulerInit => SchedulerInv
<1> SUFFICES ASSUME SchedulerInit PROVE SchedulerInv
    OBVIOUS
<1> USE SchedulerAssumption
<1>1. QueueInv /\ clock = 0
  BY InitInv DEF SchedulerInit, Init
<1>2. Scanning \in LoopStates /\ Scanning.moment = 0 /\ Scanning.due = {}
  BY DEF Scanning, LoopStates
<1>3. /\ schedule = [s \in ScheduledKeys |-> NoSlot] /\ loop = [w \in Workers |-> Scanning]
      /\ losses = 0
  BY DEF SchedulerInit
<1> QED BY <1>1, <1>2, <1>3 DEF SchedulerInv, TablesTyped, SnapshotsPast, NoSlot

-----------------------------------------------------------------------------
(* The theorems.                                                           *)

\* The queue's invariant stands under the scheduler, the tables have their
\* types, and what a worker publishes from was due when it was read.
THEOREM SchedulerSafe == SchedulerSpec => []SchedulerInv
  BY InvInit, InvStep, PTL DEF SchedulerSpec

\* The tables of the queue and of the schedules, and the loops, hold what they
\* may hold; no snapshot names a slot that has not come.
THEOREM SchedulerTypes == SchedulerSpec => []SchedulerTypeOK
  BY SchedulerSafe, InvTyped, PTL

\* Publishing does not weaken the queue: under the scheduler, too, no two
\* workers own one job or two jobs of one schedule.
THEOREM SchedulerQueueSafe == SchedulerSpec => []QueueInv
<1>1. SchedulerInv => QueueInv
  BY DEF SchedulerInv
<1> QED BY <1>1, SchedulerSafe, PTL

\* A slot that moves, moves by the firing of a snapshot that still had it, to
\* an interval after the moment of its scan.
LEMMA SlotMoves ==
    ASSUME SchedulerInv, [SchedulerNext]_everything, NEW s \in ScheduledKeys,
           schedule[s] # NoSlot, schedule'[s] \notin {schedule[s], NoSlot}
    PROVE  \E w \in Workers : \E due \in loop[w].due : \E spread \in 0..Jitter :
              /\ Fire(w, due, spread) /\ Won(due) /\ due.name = s
              /\ schedule'[s] = NextDue(loop[w].moment, spread)
<1>1. schedule \in [ScheduledKeys -> Nat]
  BY DEF SchedulerInv, TablesTyped
<1>2. schedule' # schedule
  OBVIOUS
<1>3. ASSUME NEW names \in Installations, NEW spread \in 0..Jitter, Register(names, spread)
      PROVE  FALSE
  BY <1>3 DEF Register, RegisteredAs
<1>4. PICK w \in Workers : \E due \in loop[w].due, spread \in 0..Jitter : Fire(w, due, spread)
  BY <1>2, <1>3 DEF SchedulerNext, LoopStep, Scan, Fired, ClaimOne, Work, FireFails, Die, Pass,
                    scheduling, everything
<1>5. PICK due \in loop[w].due, spread \in 0..Jitter : Fire(w, due, spread)
  BY <1>4
<1>6. Won(due) /\ schedule' = [schedule EXCEPT ![due.name] = NextDue(loop[w].moment, spread)]
  BY <1>2, <1>5 DEF Fire
<1>7. due.name = s
  BY <1>1, <1>6
<1> QED BY <1>1, <1>5, <1>6, <1>7

\* A slot only ever moves on by at least an interval, whatever workers publish
\* from whatever snapshots.
THEOREM SlotsSpacedHolds == SchedulerSpec => SlotsSpaced
<1> DEFINE Spaced == \A s \in ScheduledKeys :
         schedule[s] # NoSlot /\ schedule'[s] \notin {schedule[s], NoSlot}
         => schedule'[s] >= schedule[s] + Interval
<1>1. SchedulerInv /\ [SchedulerNext]_everything => Spaced
  <2> SUFFICES ASSUME SchedulerInv, [SchedulerNext]_everything, NEW s \in ScheduledKeys,
                      schedule[s] # NoSlot, schedule'[s] \notin {schedule[s], NoSlot}
               PROVE  schedule'[s] >= schedule[s] + Interval
    OBVIOUS
  <2>1. PICK w \in Workers : \E due \in loop[w].due : \E spread \in 0..Jitter :
              /\ Won(due) /\ due.name = s
              /\ schedule'[s] = NextDue(loop[w].moment, spread)
    BY SlotMoves
  <2>2. PICK due \in loop[w].due : \E spread \in 0..Jitter :
              /\ Won(due) /\ due.name = s
              /\ schedule'[s] = NextDue(loop[w].moment, spread)
    BY <2>1
  <2>3. /\ loop[w].moment \in Nat /\ due.slot \in Nat /\ due.slot <= loop[w].moment
        /\ schedule[s] = due.slot
    BY <2>2, DueFields DEF Won
  <2> QED BY <2>2, <2>3, SchedulerAssumption DEF NextDue
<1>2. SchedulerInv /\ [SchedulerNext]_everything => [Spaced]_everything
  BY <1>1
<1> QED BY <1>2, SchedulerSafe, PTL DEF SchedulerSpec, SlotsSpaced

\* A slot moves only with a job of its schedule in flight, and a job is
\* published only with its slot moved.
THEOREM FiringsPublishedHolds == SchedulerSpec => FiringsPublished
<1> DEFINE Published == \A s \in ScheduledKeys :
         /\ schedule[s] # NoSlot /\ schedule'[s] \notin {schedule[s], NoSlot}
            => InFlight(s)'
         /\ ~InFlight(s) /\ InFlight(s)' => schedule'[s] # schedule[s]
<1>1. ASSUME SchedulerInv, [SchedulerNext]_everything, NEW s \in ScheduledKeys,
             schedule[s] # NoSlot, schedule'[s] \notin {schedule[s], NoSlot}
      PROVE  InFlight(s)'
  <2>0. PICK w \in Workers : \E due \in loop[w].due : \E spread \in 0..Jitter :
              Fire(w, due, spread) /\ Won(due) /\ due.name = s
    BY <1>1, SlotMoves
  <2>1. PICK due \in loop[w].due, spread \in 0..Jitter :
              Fire(w, due, spread) /\ Won(due) /\ due.name = s
    BY <2>0
  <2>2. CASE InFlight(s)
    <3>1. UNCHANGED vars
      BY <2>1, <2>2 DEF Fire
    <3> QED BY <2>2, <3>1 DEF InFlight, vars
  <2>3. CASE ~InFlight(s)
    BY <1>1, <2>1, <2>3, PublicationTakesOff DEF Fire, SchedulerInv
  <2> QED BY <2>2, <2>3
<1>2. ASSUME SchedulerInv, [SchedulerNext]_everything, NEW s \in ScheduledKeys,
             ~InFlight(s), InFlight(s)'
      PROVE  schedule'[s] # schedule[s]
  <2>1. CASE QueueTurns
    BY <1>2, <2>1, NothingTakesOff DEF SchedulerInv
  <2>2. CASE Pass
    BY <1>2, <2>2, NothingTakesOff DEF SchedulerInv, Pass
  <2>3. ASSUME NEW w \in Workers, NEW due \in loop[w].due, NEW spread \in 0..Jitter,
               Fire(w, due, spread), Won(due), Enqueue("scheduled", due.name)
        PROVE  schedule'[s] # schedule[s]
    <3>1. due.name \in ScheduledKeys /\ due.slot \in Nat /\ loop[w].moment \in Nat
          /\ due.slot <= loop[w].moment
      BY <1>2, <2>3, DueFields
    <3>2. s = due.name
      BY <1>2, <2>3, <3>1, OnlyItsOwnTakesOff DEF SchedulerInv
    <3>3. schedule'[s] = NextDue(loop[w].moment, spread) /\ schedule[s] = due.slot
      BY <1>2, <2>3, <3>2 DEF Fire, Won, SchedulerInv, TablesTyped
    <3>4. NextDue(loop[w].moment, spread) > due.slot
      BY <3>1, <2>3, SchedulerAssumption DEF NextDue
    <3> QED BY <3>1, <3>3, <3>4
  <2> QED BY <1>2, <2>1, <2>2, <2>3, QueuePart
<1>3. SchedulerInv /\ [SchedulerNext]_everything => [Published]_everything
  BY <1>1, <1>2
<1> QED BY <1>3, SchedulerSafe, PTL DEF SchedulerSpec, FiringsPublished
=============================================================================
