------------------------ MODULE DurableOutboxProofs ------------------------
(***************************************************************************)
(* Theorems about DurableOutbox, for any sets of effects and workers and   *)
(* any bounds.                                                             *)
(***************************************************************************)
EXTENDS DurableOutbox, TLAPS

-----------------------------------------------------------------------------
(* Timestamps                                                              *)

\* _format_time returns a timestamp, written with microseconds.
LEMMA LaterStamp ==
    ASSUME NEW s \in Stamp, NEW n \in Nat
    PROVE  Later(s, n) \in Stamp /\ Later(s, n).fmt = "us"
  BY DEF Later, Stamp

\* A caller's timestamp is a timestamp that does not lie ahead of the clock.
LEMMA CallStamp ==
    ASSUME OutboxAssumption, NEW at \in CallStamps
    PROVE  at \in Stamp /\ at.fmt \in Formats /\ Instant(at) <= clock
  <1>1. at \in [sec : 0..MaxSec, frac : {0, 1}, fmt : Formats]
        /\ (at.fmt = "s" => at.frac = 0) /\ Instant(at) <= clock
    BY DEF CallStamps
  <1>2. at \in [sec : Nat, frac : {0, 1}, fmt : {"us", "s"}]
    <2>1. Formats \subseteq {"us", "s"} /\ 0..MaxSec \subseteq Nat
      BY DEF OutboxAssumption
    <2> QED
      BY <1>1, <2>1
  <1> QED
    BY <1>1, <1>2 DEF Stamp

\* A timestamp denotes an integer instant.
LEMMA StampInstant == \A s \in Stamp : Instant(s) \in Int
  BY DEF Stamp, Instant

\* The constant the code writes for no lease is a timestamp with microseconds.
LEMMA EpochStamp == Epoch \in Stamp /\ Epoch.fmt = "us"
  BY DEF Epoch, Stamp

\* Between timestamps with microseconds the text order is the order of time.
LEMMA TextOrderIsTime ==
    ASSUME NEW s \in Stamp, NEW t \in Stamp, s.fmt = "us", t.fmt = "us", TextLeq(s, t)
    PROVE  Instant(s) <= Instant(t)
  BY DEF Stamp, TextLeq, Rank, Instant

-----------------------------------------------------------------------------
(* Types                                                                   *)

\* A row whose lease is cleared is a row.
LEMMA ClearedRow ==
    ASSUME NEW r \in Row, NEW status \in Statuses
    PROVE  Cleared(r, status) \in Row
  BY EpochStamp DEF Cleared, Row

\* A row that is leased is a row.
LEMMA GrantedRow ==
    ASSUME NEW r \in Row, NEW w \in Workers, NEW x \in Stamp
    PROVE  Granted(r, w, x) \in Row
  <1>1. r.attempts + 1 \in Nat
    BY DEF Row
  <1>2. \A n \in Nat : [r EXCEPT !.status = "LEASED", !.attempts = n,
                                 !.owner = w, !.expires = x] \in Row
    BY DEF Row, Statuses
  <1> QED
    BY <1>1, <1>2 DEF Granted

\* What an event appended to the streams does to their type.
LEMMA LogType ==
    ASSUME TypeOK, rows' \in [Effects -> Row], NEW S, NEW kind,
           \A e \in S : kind[e] \in Kinds, Log(S, kind)
    PROVE  stream' \in [Effects -> Seq(Event)]
  <1> SUFFICES ASSUME NEW e \in Effects, e \in S
               PROVE  Append(stream[e], [kind |-> kind[e], attempt |-> rows'[e].attempts,
                                         max |-> rows'[e].max]) \in Seq(Event)
    BY DEF Log, TypeOK
  <1>1. [kind |-> kind[e], attempt |-> rows'[e].attempts, max |-> rows'[e].max] \in Event
    BY DEF Event, Row
  <1>2. stream[e] \in Seq(Event)
    BY DEF TypeOK
  <1> QED
    BY <1>1, <1>2

\* Every operation writes rows, leases and events of their types.
LEMMA TypeInductive ==
    ASSUME OutboxAssumption, TypeOK, [Next]_vars
    PROVE  TypeOK'
  <1> USE DEF TypeOK
  <1>1. CASE EnqueueStep
    <2>1. PICK e \in Effects, max \in 1..MaxAttempts, at \in CallStamps :
             \E avail \in {at} \cup {Later(at, d) : d \in RetryDelays} : Enqueue(e, max, at, avail)
      BY <1>1 DEF EnqueueStep
    <2>2. PICK avail \in {at} \cup {Later(at, d) : d \in RetryDelays} : Enqueue(e, max, at, avail)
      BY <2>1
    <2>3. avail \in Stamp
      <3>1. at \in Stamp
        BY CallStamp
      <3>2. \A d \in RetryDelays : Later(at, d) \in Stamp
        BY <3>1, LaterStamp DEF OutboxAssumption
      <3> QED
        BY <3>1, <3>2
    <2>4. max \in Nat
      BY DEF OutboxAssumption
    <2>5. rows' \in [Effects -> Row]
      BY <2>2, <2>3, <2>4, EpochStamp DEF Enqueue, Row, NoRow, Statuses
    <2>6. stream' \in [Effects -> Seq(Event)]
      BY <2>2, <2>5, LogType DEF Enqueue, Kinds
    <2> QED
      BY <2>2, <2>5, <2>6 DEF Enqueue
  <1>2. CASE ClaimStep
    <2>1. PICK w \in Workers, at \in CallStamps, n \in LeaseSeconds, S \in SUBSET Effects :
             Claim(w, at, n, S)
      BY <1>2 DEF ClaimStep
    <2>2. Later(at, n) \in Stamp
      BY CallStamp, LaterStamp DEF OutboxAssumption
    <2>3. rows' \in [Effects -> Row]
      <3>1. \A e \in Effects : Granted(rows[e], w, Later(at, n)) \in Row
        BY <2>2, GrantedRow
      <3> QED
        BY <2>1, <3>1 DEF Claim
    <2>4. held' \subseteq Lease
      <3>1. \A e \in Effects : LeaseOf(e, w, Later(at, n)) \in Lease
        BY <2>2 DEF Row, Lease, LeaseOf
      <3> QED
        BY <2>1, <3>1 DEF Claim
    <2>5. stream' \in [Effects -> Seq(Event)]
      BY <2>1, <2>3, LogType DEF Claim, Kinds
    <2> QED
      BY <2>1, <2>3, <2>4, <2>5 DEF Claim
  <1>3. CASE SucceedStep
    <2>1. PICK l \in held, at \in CallStamps : Succeed(l, at)
      BY <1>3 DEF SucceedStep
    <2>2. rows' \in [Effects -> Row]
      BY <2>1, ClearedRow DEF Succeed, Statuses, Lease
    <2>3. stream' \in [Effects -> Seq(Event)]
      BY <2>1, <2>2, LogType DEF Succeed, Kinds
    <2> QED
      BY <2>1, <2>2, <2>3 DEF Succeed
  <1>4. CASE FailStep
    <2>1. PICK l \in held, d \in RetryDelays, at \in CallStamps : Fail(l, d, at)
      BY <1>4 DEF FailStep
    <2>2. Later(at, d) \in Stamp /\ l.effect \in Effects
      BY CallStamp, LaterStamp DEF OutboxAssumption, Lease
    <2>3. Cleared(rows[l.effect], AfterLease(rows[l.effect])) \in Row
      BY <2>2, ClearedRow DEF AfterLease, Statuses
    <2>4. rows' \in [Effects -> Row]
      BY <2>1, <2>2, <2>3 DEF Fail, Row
    <2>5. stream' \in [Effects -> Seq(Event)]
      BY <2>1, <2>4, LogType DEF Fail, Kinds
    <2> QED
      BY <2>1, <2>4, <2>5 DEF Fail
  <1>5. CASE RecoverStep
    <2>1. PICK at \in CallStamps : RecoverExpired(at)
      BY <1>5 DEF RecoverStep
    <2>2. at \in Stamp
      BY CallStamp
    <2>3. \A e \in Effects : Cleared(rows[e], AfterLease(rows[e])) \in Row
      BY ClearedRow DEF AfterLease, Statuses
    <2>4. rows' \in [Effects -> Row]
      BY <2>1, <2>2, <2>3 DEF RecoverExpired, Row
    <2>5. stream' \in [Effects -> Seq(Event)]
      BY <2>1, <2>4, LogType DEF RecoverExpired, Kinds, Expired
    <2> QED
      BY <2>1, <2>4, <2>5 DEF RecoverExpired
  <1>6. CASE ForgetStep
    BY <1>6 DEF ForgetStep, Forget
  <1>7. CASE Tick
    BY <1>7 DEF Tick, OutboxAssumption
  <1>8. CASE UNCHANGED vars
    BY <1>8 DEF vars
  <1> QED
    BY <1>1, <1>2, <1>3, <1>4, <1>5, <1>6, <1>7, <1>8 DEF Next

\* An empty outbox is well typed.
LEMMA TypeInit == OutboxAssumption /\ Init => TypeOK
  BY EpochStamp DEF OutboxAssumption, Init, TypeOK, NoRow, Row, Statuses

\* Every row, event and lease the outbox ever writes is well formed.
THEOREM TypeCorrect == Spec => []TypeOK
  <1>1. Init => TypeOK
    BY OutboxAssumption, TypeInit
  <1>2. TypeOK /\ [Next]_vars => TypeOK'
    BY OutboxAssumption, TypeInductive
  <1> QED
    BY <1>1, <1>2, PTL DEF Spec

-----------------------------------------------------------------------------
(* How an operation changes a row                                          *)

\* Every step leaves a row alone or grants it, settles it, ends its lease
\* unsuccessfully or creates it.
RowStep(e) ==
    \/ rows'[e] = rows[e]
    \/ /\ rows[e].status = "NONE"
       /\ \E max \in 1..MaxAttempts, avail \in Stamp :
             rows'[e] = [NoRow EXCEPT !.status = "PENDING", !.max = max, !.avail = avail]
    \/ /\ rows[e].status = "PENDING"
       /\ \E w \in Workers, x \in Stamp : x.fmt = "us" /\ rows'[e] = Granted(rows[e], w, x)
    \/ /\ rows[e].status = "LEASED"
       /\ rows'[e] = Cleared(rows[e], "SUCCEEDED")
    \/ /\ rows[e].status = "LEASED"
       /\ \E avail \in Stamp :
             rows'[e] = [Cleared(rows[e], AfterLease(rows[e])) EXCEPT !.avail = avail]

\* What any step can do to one row: the six updates of the code or nothing.
LEMMA RowSteps ==
    ASSUME OutboxAssumption, TypeOK, [Next]_vars, NEW e \in Effects
    PROVE  RowStep(e)
  <1> USE DEF TypeOK
  <1>1. CASE EnqueueStep
    <2>1. PICK f \in Effects, max \in 1..MaxAttempts, at \in CallStamps :
             \E avail \in {at} \cup {Later(at, d) : d \in RetryDelays} : Enqueue(f, max, at, avail)
      BY <1>1 DEF EnqueueStep
    <2>2. PICK avail \in {at} \cup {Later(at, d) : d \in RetryDelays} : Enqueue(f, max, at, avail)
      BY <2>1
    <2>3. avail \in Stamp
      <3>1. at \in Stamp
        BY CallStamp
      <3>2. \A d \in RetryDelays : Later(at, d) \in Stamp
        BY <3>1, LaterStamp DEF OutboxAssumption
      <3> QED
        BY <3>1, <3>2
    <2> QED
      BY <2>2, <2>3 DEF Enqueue, RowStep
  <1>2. CASE ClaimStep
    <2>1. PICK w \in Workers, at \in CallStamps, n \in LeaseSeconds, S \in SUBSET Effects :
             Claim(w, at, n, S)
      BY <1>2 DEF ClaimStep
    <2>2. Later(at, n) \in Stamp /\ Later(at, n).fmt = "us"
      BY CallStamp, LaterStamp DEF OutboxAssumption
    <2> QED
      BY <2>1, <2>2 DEF Claim, Claimable, RowStep
  <1>3. CASE SucceedStep
    BY <1>3 DEF SucceedStep, Succeed, LeaseAccepted, RowStep
  <1>4. CASE FailStep
    <2>1. PICK l \in held, d \in RetryDelays, at \in CallStamps : Fail(l, d, at)
      BY <1>4 DEF FailStep
    <2>2. Later(at, d) \in Stamp
      BY CallStamp, LaterStamp DEF OutboxAssumption
    <2> QED
      BY <2>1, <2>2 DEF Fail, LeaseAccepted, RowStep
  <1>5. CASE RecoverStep
    <2>1. PICK at \in CallStamps : RecoverExpired(at)
      BY <1>5 DEF RecoverStep
    <2>2. at \in Stamp
      BY CallStamp
    <2> QED
      BY <2>1, <2>2 DEF RecoverExpired, Expired, RowStep
  <1>6. CASE ForgetStep \/ Tick \/ UNCHANGED vars
    BY <1>6 DEF ForgetStep, Forget, Tick, vars, RowStep
  <1> QED
    BY <1>1, <1>2, <1>3, <1>4, <1>5, <1>6 DEF Next

\* The same, in terms of what the lease queue sees of a row.
QueueRowStep(e) ==
    \/ rows'[e] = rows[e]
    \/ /\ rows[e].status = "NONE"
       /\ rows'[e].status = "PENDING" /\ rows'[e].attempts = 0 /\ rows'[e].max \in 1..MaxAttempts
    \/ /\ rows[e].status = "PENDING" /\ rows'[e].status = "LEASED"
       /\ rows'[e].attempts = rows[e].attempts + 1 /\ rows'[e].max = rows[e].max
    \/ /\ rows[e].status = "LEASED"
       /\ rows'[e].status \in {"SUCCEEDED", AfterLease(rows[e])}
       /\ rows'[e].attempts = rows[e].attempts /\ rows'[e].max = rows[e].max

\* Every such change of a row is a step of the abstract queue.
LEMMA QueueRowSteps ==
    ASSUME OutboxAssumption, TypeOK, [Next]_vars, NEW e \in Effects
    PROVE  QueueRowStep(e)
  <1>1. RowStep(e) /\ rows[e] \in Row
    BY RowSteps DEF TypeOK
  <1>2. ASSUME NEW max, NEW avail, rows[e].status = "NONE", max \in 1..MaxAttempts,
               rows'[e] = [NoRow EXCEPT !.status = "PENDING", !.max = max, !.avail = avail]
        PROVE  QueueRowStep(e)
    BY <1>2 DEF NoRow, QueueRowStep
  <1>3. ASSUME NEW w, NEW x, rows[e].status = "PENDING", rows'[e] = Granted(rows[e], w, x)
        PROVE  QueueRowStep(e)
    BY <1>1, <1>3 DEF Granted, Row, QueueRowStep
  <1>4. ASSUME rows[e].status = "LEASED", rows'[e] = Cleared(rows[e], "SUCCEEDED")
        PROVE  QueueRowStep(e)
    BY <1>1, <1>4 DEF Cleared, Row, QueueRowStep
  <1>5. ASSUME NEW avail, rows[e].status = "LEASED",
               rows'[e] = [Cleared(rows[e], AfterLease(rows[e])) EXCEPT !.avail = avail]
        PROVE  QueueRowStep(e)
    BY <1>1, <1>5 DEF Cleared, Row, QueueRowStep
  <1>6. CASE rows'[e] = rows[e]
    BY <1>6 DEF QueueRowStep
  <1> QED
    BY <1>1, <1>2, <1>3, <1>4, <1>5, <1>6 DEF RowStep

-----------------------------------------------------------------------------
(* The retry budget                                                        *)

\* claim raises attempt_count without a look at max_attempts, and still no
\* effect is leased more often than max_attempts: an effect that is claimable
\* has budget left, because fail and recover_expired end the others.
LEMMA BudgetInductive ==
    ASSUME OutboxAssumption, TypeOK, BudgetRespected, [Next]_vars
    PROVE  BudgetRespected'
  <1> SUFFICES ASSUME NEW e \in Effects
               PROVE  /\ rows'[e].attempts <= rows'[e].max
                      /\ rows'[e].status = "PENDING" => rows'[e].attempts < rows'[e].max
    BY DEF BudgetRespected
  <1>1. rows[e] \in Row
    BY DEF TypeOK
  <1>2. /\ rows[e].attempts \in Nat /\ rows[e].max \in Nat
        /\ rows[e].attempts <= rows[e].max
        /\ rows[e].status = "PENDING" => rows[e].attempts < rows[e].max
    BY <1>1 DEF BudgetRespected, Row
  <1>3. QueueRowStep(e)
    BY QueueRowSteps
  <1> QED
    BY <1>2, <1>3 DEF QueueRowStep, AfterLease, Exhausted, OutboxAssumption

\* No effect is ever delivered more often than its max_attempts.
THEOREM BudgetNeverExceeded == Spec => []BudgetRespected
  <1>1. Init => TypeOK /\ BudgetRespected
    BY OutboxAssumption, TypeInit DEF Init, NoRow, BudgetRespected
  <1>2. TypeOK /\ BudgetRespected /\ [Next]_vars => TypeOK' /\ BudgetRespected'
    BY OutboxAssumption, TypeInductive, BudgetInductive
  <1> QED
    BY <1>1, <1>2, PTL DEF Spec

-----------------------------------------------------------------------------
(* Exclusive leases                                                        *)

\* l is the lease the row of its effect stands for.
Holds(l) == rows[l.effect].status = "LEASED" /\ rows[l.effect].attempts = l.attempt

\* What keeps leases exclusive: the lease a row stands for is the lease its
\* worker was given, and any other lease still in a worker's hands has expired.
Tracked(l) ==
    /\ l.attempt <= rows[l.effect].attempts
    /\ Holds(l) => rows[l.effect].expires = l.expires
    /\ ~Holds(l) => Instant(l.expires) <= clock
RowInv(e) == /\ rows[e].expires.fmt = "us"
             /\ rows[e].status = "NONE" => rows[e].attempts = 0
LeaseInv ==
    /\ \A e \in Effects : RowInv(e)
    /\ \A l \in held : Tracked(l)
    /\ \A l, k \in held : l.effect = k.effect /\ l.attempt = k.attempt => l = k

\* In an empty outbox nobody holds a lease.
LEMMA LeaseInit == Init => LeaseInv
  BY EpochStamp DEF Init, LeaseInv, NoRow, RowInv

\* A row keeps its status, owner and expiry in agreement.
LEMMA RowInvInductive ==
    ASSUME OutboxAssumption, TypeOK, [Next]_vars, NEW e \in Effects, RowInv(e)
    PROVE  RowInv(e)'
  <1>1. RowStep(e)
    BY RowSteps
  <1>2. rows[e] \in Row
    BY DEF TypeOK
  <1> QED
    BY <1>1, <1>2, EpochStamp
    DEF RowStep, RowInv, Cleared, Granted, NoRow, Row, AfterLease, Statuses

\* A lease that nobody touches stays tracked.
LEMMA Untouched ==
    ASSUME NEW l \in held, TypeOK, Tracked(l), rows'[l.effect] = rows[l.effect], clock' = clock
    PROVE  Tracked(l)'
  BY DEF Tracked, Holds

\* Every operation keeps each live lease the one its row records.
LEMMA LeaseInductive ==
    ASSUME OutboxAssumption, Formats = {"us"}, TypeOK, LeaseInv, [Next]_vars
    PROVE  LeaseInv'
  <1> USE DEF TypeOK
  <1>0. \A e \in Effects : RowInv(e)'
    BY RowInvInductive DEF LeaseInv
  <1>1. CASE EnqueueStep
    <2>1. PICK e, max, at, avail :
             e \in Effects /\ max \in 1..MaxAttempts /\ Enqueue(e, max, at, avail)
      BY <1>1 DEF EnqueueStep
    <2>2. rows'[e].attempts = 0 /\ rows'[e].status = "PENDING"
      BY <2>1 DEF Enqueue, NoRow
    <2>3. rows[e].status = "NONE" /\ rows[e].attempts = 0
      BY <2>1 DEF Enqueue, LeaseInv, RowInv
    <2>4. \A f \in Effects : f # e => rows'[f] = rows[f]
      BY <2>1 DEF Enqueue
    <2>5. held' = held /\ clock' = clock
      BY <2>1 DEF Enqueue
    <2>6. ASSUME NEW l \in held PROVE Tracked(l)'
      BY <2>2, <2>3, <2>4, <2>5 DEF LeaseInv, Tracked, Holds, Lease
    <2> QED
      BY <1>0, <2>5, <2>6 DEF LeaseInv
  <1>2. CASE ClaimStep
    <2>1. PICK w \in Workers, at \in CallStamps, n \in LeaseSeconds, S \in SUBSET Effects :
             Claim(w, at, n, S)
      BY <1>2 DEF ClaimStep
    <2> DEFINE x == Later(at, n)
    <2>2. \A e \in S : rows[e].status = "PENDING" /\ rows'[e] = Granted(rows[e], w, x)
      BY <2>1 DEF Claim, Claimable
    <2>3. held' = held \cup {LeaseOf(e, w, x) : e \in S} /\ clock' = clock
      BY <2>1 DEF Claim
    <2>4. \A e \in S : /\ rows'[e].status = "LEASED"
                       /\ rows'[e].attempts = rows[e].attempts + 1
                       /\ rows'[e].expires = x
      <3>1. \A r \in Row : /\ Granted(r, w, x).status = "LEASED"
                           /\ Granted(r, w, x).attempts = r.attempts + 1
                           /\ Granted(r, w, x).expires = x
        BY DEF Granted, Row
      <3> QED
        BY <2>2, <3>1
    <2>5. \A e \in Effects \ S : rows'[e] = rows[e]
      BY <2>1 DEF Claim
    <2>6. ASSUME NEW l \in held PROVE Tracked(l)'
      BY <2>2, <2>3, <2>4, <2>5 DEF LeaseInv, Tracked, Holds, Lease, Row
    <2>7. ASSUME NEW e \in S, NEW l, l = LeaseOf(e, w, x) PROVE Tracked(l)'
      <3>1. l.effect = e /\ l.attempt = rows'[e].attempts /\ l.expires = x
        BY <2>4, <2>7 DEF LeaseOf
      <3>2. l.attempt \in Nat
        BY <2>4, <3>1 DEF Row
      <3> QED
        BY <2>4, <3>1, <3>2 DEF Tracked, Holds
    <2>8. ASSUME NEW l \in held', NEW k \in held', l.effect = k.effect, l.attempt = k.attempt
          PROVE  l = k
      <3>1. \A j \in held : j.effect \in Effects /\ j.attempt <= rows[j.effect].attempts /\ j.attempt \in Nat
        BY DEF LeaseInv, Tracked, Lease
      <3>2. \A e \in S : LeaseOf(e, w, x).effect = e /\ LeaseOf(e, w, x).attempt = rows[e].attempts + 1
        BY DEF LeaseOf
      <3>3. \A e \in Effects : rows[e].attempts \in Nat
        BY DEF Row
      <3>4. CASE l \in held /\ k \in held
        BY <2>8, <3>4 DEF LeaseInv
      <3>5. CASE \E e \in S : l = LeaseOf(e, w, x)
        BY <2>3, <2>8, <3>1, <3>2, <3>3, <3>5
      <3>6. CASE \E e \in S : k = LeaseOf(e, w, x)
        BY <2>3, <2>8, <3>1, <3>2, <3>3, <3>6
      <3> QED
        BY <2>3, <3>4, <3>5, <3>6
    <2>9. \A l \in held' : Tracked(l)'
      BY <2>3, <2>6, <2>7
    <2> QED
      BY <1>0, <2>8, <2>9 DEF LeaseInv
  <1>3. ASSUME NEW l \in held, NEW at, LeaseAccepted(l, at), held' = held \ {l}, clock' = clock,
               \A f \in Effects : f # l.effect => rows'[f] = rows[f],
               rows'[l.effect].attempts = rows[l.effect].attempts,
               rows'[l.effect].status # "LEASED"
        PROVE  LeaseInv'
    <2>1. ASSUME NEW k \in held, k # l PROVE Tracked(k)'
      <3>1. Holds(l) /\ Tracked(k) /\ k.effect \in Effects
        BY <1>3 DEF LeaseAccepted, Holds, LeaseInv, Lease
      <3>2. CASE k.effect # l.effect
        BY <1>3, <3>1, <3>2, Untouched
      <3>3. CASE k.effect = l.effect
        <4>1. ~Holds(k)
          BY <2>1, <3>1, <3>3 DEF LeaseInv, Holds
        <4> QED
          BY <1>3, <3>1, <3>3, <4>1 DEF Tracked, Holds
      <3> QED
        BY <3>2, <3>3
    <2> QED
      BY <1>0, <1>3, <2>1 DEF LeaseInv
  <1>4. CASE SucceedStep
    <2>1. PICK l \in held, at \in CallStamps : Succeed(l, at)
      BY <1>4 DEF SucceedStep
    <2>2. rows'[l.effect] = Cleared(rows[l.effect], "SUCCEEDED")
      BY <2>1 DEF Succeed, Lease
    <2>3. rows'[l.effect].attempts = rows[l.effect].attempts /\ rows'[l.effect].status # "LEASED"
      BY <2>2 DEF Cleared, Row, Lease
    <2> QED
      BY <1>3, <2>1, <2>3 DEF Succeed
  <1>5. CASE FailStep
    <2>1. PICK l \in held, d \in RetryDelays, at \in CallStamps : Fail(l, d, at)
      BY <1>5 DEF FailStep
    <2>2. rows'[l.effect] = [Cleared(rows[l.effect], AfterLease(rows[l.effect]))
                               EXCEPT !.avail = Later(at, d)]
      BY <2>1 DEF Fail, Lease
    <2>3. rows'[l.effect].attempts = rows[l.effect].attempts /\ rows'[l.effect].status # "LEASED"
      BY <2>2 DEF Cleared, Row, Lease, AfterLease
    <2> QED
      BY <1>3, <2>1, <2>3 DEF Fail
  <1>6. CASE RecoverStep
    <2>1. PICK at \in CallStamps : RecoverExpired(at)
      BY <1>6 DEF RecoverStep
    <2>2. held' = held /\ clock' = clock
      BY <2>1 DEF RecoverExpired
    <2>3. \A e \in Effects \ Expired(at) : rows'[e] = rows[e]
      BY <2>1 DEF RecoverExpired
    <2>4. \A e \in Expired(at) : /\ rows'[e].attempts = rows[e].attempts
                                 /\ rows'[e].status # "LEASED"
                                 /\ rows[e].status = "LEASED"
      BY <2>1 DEF RecoverExpired, Expired, Cleared, Row, AfterLease
    <2>5. \A e \in Expired(at) : Instant(rows[e].expires) <= clock
      <3>1. at \in Stamp /\ at.fmt = "us" /\ Instant(at) <= clock
        BY CallStamp
      <3>2. ASSUME NEW e \in Expired(at) PROVE Instant(rows[e].expires) <= Instant(at)
        <4>1. rows[e].expires \in Stamp /\ rows[e].expires.fmt = "us" /\ TextLeq(rows[e].expires, at)
          BY DEF Expired, LeaseInv, RowInv, Row
        <4> QED
          BY <3>1, <4>1, TextOrderIsTime
      <3>3. \A e \in Expired(at) : Instant(rows[e].expires) \in Int
        BY StampInstant DEF Expired, Row
      <3> QED
        BY <3>1, <3>2, <3>3 DEF Stamp, Instant
    <2>6. ASSUME NEW l \in held PROVE Tracked(l)'
      <3>1. Tracked(l) /\ l.effect \in Effects
        BY DEF LeaseInv, Lease
      <3>2. CASE l.effect \notin Expired(at)
        BY <2>2, <2>3, <3>1, <3>2, Untouched
      <3>3. CASE l.effect \in Expired(at)
        BY <2>2, <2>4, <2>5, <3>1, <3>3 DEF Tracked, Holds
      <3> QED
        BY <3>2, <3>3
    <2> QED
      BY <1>0, <2>2, <2>6 DEF LeaseInv
  <1>7. CASE ForgetStep
    BY <1>0, <1>7 DEF ForgetStep, Forget, LeaseInv, Tracked, Holds
  <1>8. CASE Tick
    BY <1>0, <1>8 DEF Tick, LeaseInv, Tracked, Holds, Lease, Stamp, Instant
  <1>9. CASE UNCHANGED vars
    BY <1>0, <1>9 DEF vars, LeaseInv, Tracked, Holds
  <1> QED
    BY <1>1, <1>2, <1>4, <1>5, <1>6, <1>7, <1>8, <1>9 DEF Next

\* Two live leases of one effect are recorded by the same row, so they are one.
LEMMA LeaseInvExclusive == TypeOK /\ LeaseInv => ExclusiveLease
  <1> SUFFICES ASSUME TypeOK, LeaseInv, NEW l \in held, NEW k \in held,
                      l.effect = k.effect, Live(l), Live(k)
               PROVE  l = k
    BY DEF ExclusiveLease
  <1>1. /\ Instant(l.expires) \in Int /\ Instant(k.expires) \in Int /\ clock \in Int
        /\ Tracked(l) /\ Tracked(k)
    BY StampInstant DEF TypeOK, LeaseInv, Lease
  <1>2. Holds(l) /\ Holds(k)
    BY <1>1 DEF Live, Tracked
  <1> QED
    BY <1>2 DEF LeaseInv, Holds

\* When all timestamps are written with microseconds, as utc_now and
\* _format_time write them, no two workers hold unexpired leases on an effect,
\* however late their calls reach the database.
THEOREM LeasesAreExclusive ==
    ASSUME Formats = {"us"}
    PROVE  Spec => []ExclusiveLease
  <1>1. Init => TypeOK /\ LeaseInv
    BY OutboxAssumption, TypeInit, LeaseInit
  <1>2. TypeOK /\ LeaseInv /\ [Next]_vars => TypeOK' /\ LeaseInv'
    BY OutboxAssumption, TypeInductive, LeaseInductive
  <1>3. TypeOK /\ LeaseInv => ExclusiveLease
    BY LeaseInvExclusive
  <1> QED
    BY <1>1, <1>2, <1>3, PTL DEF Spec

-----------------------------------------------------------------------------
(* Fencing                                                                 *)

\* What remains of LeaseInv for any timestamp format: no lease in a worker's
\* hands was granted after the attempt its row counts.
NoFutureLease == \A l \in held : l.attempt <= rows[l.effect].attempts
RowFresh == \A e \in Effects : rows[e].status = "NONE" => rows[e].attempts = 0

\* No lease is ahead of the attempt count of its row, and attempts never go down.
LEMMA FreshInductive ==
    ASSUME OutboxAssumption, TypeOK, RowFresh, NoFutureLease, [Next]_vars
    PROVE  RowFresh' /\ NoFutureLease'
  <1> USE DEF TypeOK
  <1>1. ASSUME NEW e \in Effects
        PROVE  /\ rows'[e].attempts >= rows[e].attempts
               /\ rows'[e].status = "NONE" => rows'[e].attempts = 0
    <2>1. QueueRowStep(e)
      BY QueueRowSteps
    <2>2. rows[e].attempts \in Nat
      BY DEF Row
    <2> QED
      BY <2>1, <2>2 DEF QueueRowStep, RowFresh, AfterLease
  <1>2. \A e \in Effects : rows[e].attempts \in Nat /\ rows'[e].attempts \in Nat
    BY TypeInductive DEF Row
  <1>3. ASSUME NEW l \in held PROVE l.attempt <= rows'[l.effect].attempts
    BY <1>1, <1>2 DEF NoFutureLease, Lease
  <1>4. CASE ClaimStep
    <2>1. PICK w \in Workers, at \in CallStamps, n \in LeaseSeconds, S \in SUBSET Effects :
             Claim(w, at, n, S)
      BY <1>4 DEF ClaimStep
    <2> DEFINE x == Later(at, n)
    <2>2. held' = held \cup {LeaseOf(e, w, x) : e \in S}
      BY <2>1 DEF Claim
    <2>3. \A e \in S : rows'[e].attempts = rows[e].attempts + 1
      <3>1. \A r \in Row : Granted(r, w, x).attempts = r.attempts + 1
        BY DEF Granted, Row
      <3> QED
        BY <2>1, <3>1 DEF Claim
    <2>4. \A e \in S : /\ LeaseOf(e, w, x).effect = e
                       /\ LeaseOf(e, w, x).attempt = rows[e].attempts + 1
      BY DEF LeaseOf
    <2> QED
      BY <1>1, <1>2, <1>3, <2>2, <2>3, <2>4 DEF NoFutureLease, RowFresh
  <1>5. CASE ~ClaimStep
    <2>1. held' \subseteq held
      BY <1>5 DEF Next, EnqueueStep, Enqueue, SucceedStep, Succeed, FailStep, Fail, RecoverStep,
                  RecoverExpired, ForgetStep, Forget, Tick, vars
    <2> QED
      BY <1>1, <1>3, <2>1 DEF NoFutureLease, RowFresh
  <1> QED
    BY <1>4, <1>5

\* Only the latest lease of an effect settles it or schedules its retry,
\* whatever the timestamps look like.
THEOREM SettlementIsFenced == Spec => FencedSettlement
  <1> DEFINE Fenced == \A l \in held \ held' :
                          rows'[l.effect] # rows[l.effect] =>
                             \A k \in held : k.effect = l.effect => k.attempt <= l.attempt
  <1>1. Init => TypeOK /\ RowFresh /\ NoFutureLease
    BY OutboxAssumption, TypeInit DEF Init, NoRow, RowFresh, NoFutureLease
  <1>2. TypeOK /\ RowFresh /\ NoFutureLease /\ [Next]_vars
           => TypeOK' /\ RowFresh' /\ NoFutureLease'
    BY OutboxAssumption, TypeInductive, FreshInductive
  <1>3. TypeOK /\ NoFutureLease /\ [Next]_vars => [Fenced]_vars
    <2> SUFFICES ASSUME TypeOK, NoFutureLease, Next,
                        NEW l \in held \ held', rows'[l.effect] # rows[l.effect],
                        NEW k \in held, k.effect = l.effect
                 PROVE  k.attempt <= l.attempt
      BY Zenon DEF Fenced
    <2>1. \E j \in held : \E at : LeaseAccepted(j, at) /\ held' = held \ {j}
      BY DEF Next, EnqueueStep, Enqueue, ClaimStep, Claim, SucceedStep, Succeed, FailStep, Fail,
             RecoverStep, RecoverExpired, ForgetStep, Forget, Tick
    <2>2. l.attempt = rows[l.effect].attempts
      BY <2>1 DEF LeaseAccepted
    <2> QED
      BY <2>2 DEF NoFutureLease
  <1> QED
    BY <1>1, <1>2, <1>3, PTL DEF Spec, FencedSettlement

-----------------------------------------------------------------------------
(* Refinement                                                              *)

\* Each operation is an operation of the lease queue.
LEMMA QueueStep ==
    ASSUME OutboxAssumption, TypeOK, RowFresh, [Next]_vars
    PROVE  [Queue!Next]_(Queue!qvars)
  <1> USE DEF TypeOK
  <1>1. CASE EnqueueStep
    <2>1. PICK e, max, at, avail :
             e \in Effects /\ max \in 1..MaxAttempts /\ Enqueue(e, max, at, avail)
      BY <1>1 DEF EnqueueStep
    <2>2. e \in Effects /\ max \in 1..MaxAttempts
          /\ rows[e].status = "NONE" /\ rows[e].attempts = 0
      BY <2>1 DEF Enqueue, RowFresh
    <2>3. rows'[e].status = "PENDING" /\ rows'[e].max = max /\ rows'[e].attempts = 0
      BY <2>1 DEF Enqueue, NoRow
    <2>4. \A f \in Effects : f # e => rows'[f] = rows[f]
      BY <2>1 DEF Enqueue
    <2>5. Queue!Enqueue({e}, max)
      BY <2>2, <2>3, <2>4 DEF Queue!Enqueue
    <2> QED
      BY <2>2, <2>5 DEF Queue!Next
  <1>2. CASE ClaimStep
    <2>1. PICK w \in Workers, at \in CallStamps, n \in LeaseSeconds, S \in SUBSET Effects :
             Claim(w, at, n, S)
      BY <1>2 DEF ClaimStep
    <2>2. \A e \in S : rows[e].status = "PENDING"
      BY <2>1 DEF Claim, Claimable
    <2>3. \A r \in Row : LET g == Granted(r, w, Later(at, n))
                         IN  g.status = "LEASED" /\ g.attempts = r.attempts + 1 /\ g.max = r.max
      BY DEF Granted, Row
    <2>4. \A e \in S : /\ rows'[e].status = "LEASED"
                       /\ rows'[e].attempts = rows[e].attempts + 1
                       /\ rows'[e].max = rows[e].max
      BY <2>1, <2>3 DEF Claim
    <2>5. \A e \in Effects \ S : rows'[e] = rows[e]
      BY <2>1 DEF Claim
    <2>6. Queue!Claim(S)
      BY <2>1, <2>2, <2>4, <2>5 DEF Queue!Claim, Claim
    <2> QED
      BY <2>6 DEF Queue!Next
  <1>3. \A e \in Effects, status \in Statuses :
          LET r == Cleared(rows[e], status)
          IN  r.status = status /\ r.attempts = rows[e].attempts /\ r.max = rows[e].max
    BY DEF Cleared, Row
  <1>4. \A e \in Effects, avail \in Stamp :
          LET r == [Cleared(rows[e], AfterLease(rows[e])) EXCEPT !.avail = avail]
          IN  r.status = AfterLease(rows[e]) /\ r.attempts = rows[e].attempts /\ r.max = rows[e].max
    BY DEF Cleared, Row
  <1>5. CASE SucceedStep
    <2>1. PICK l \in held, at \in CallStamps : Succeed(l, at)
      BY <1>5 DEF SucceedStep
    <2>2. l.effect \in Effects /\ rows[l.effect].status = "LEASED"
      BY <2>1 DEF Succeed, LeaseAccepted, Lease
    <2>3. /\ rows'[l.effect].status = "SUCCEEDED"
          /\ rows'[l.effect].attempts = rows[l.effect].attempts
          /\ rows'[l.effect].max = rows[l.effect].max
      BY <1>3, <2>1, <2>2 DEF Succeed, Statuses
    <2>4. \A f \in Effects : f # l.effect => rows'[f] = rows[f]
      BY <2>1 DEF Succeed
    <2>5. Queue!Next
      BY <2>2, <2>3, <2>4 DEF Queue!Next, Queue!Succeed
    <2> QED
      BY <2>5
  <1>6. CASE FailStep
    <2>1. PICK l \in held, d \in RetryDelays, at \in CallStamps : Fail(l, d, at)
      BY <1>6 DEF FailStep
    <2>2. l.effect \in Effects /\ rows[l.effect].status = "LEASED" /\ Later(at, d) \in Stamp
      BY <2>1, CallStamp, LaterStamp DEF Fail, LeaseAccepted, Lease, OutboxAssumption
    <2>3. /\ rows'[l.effect].status = AfterLease(rows[l.effect])
          /\ rows'[l.effect].attempts = rows[l.effect].attempts
          /\ rows'[l.effect].max = rows[l.effect].max
      BY <1>4, <2>1, <2>2 DEF Fail
    <2>4. \A f \in Effects : f # l.effect => rows'[f] = rows[f]
      BY <2>1 DEF Fail
    <2>5. Queue!Release({l.effect})
      BY <2>2, <2>3, <2>4 DEF Queue!Release, AfterLease, Exhausted
    <2> QED
      BY <2>2, <2>5 DEF Queue!Next
  <1>7. CASE RecoverStep
    <2>1. PICK at \in CallStamps : RecoverExpired(at)
      BY <1>7 DEF RecoverStep
    <2>2. at \in Stamp
      BY CallStamp
    <2>3. \A e \in Expired(at) : /\ rows[e].status = "LEASED"
                                 /\ rows'[e].status = AfterLease(rows[e])
                                 /\ rows'[e].attempts = rows[e].attempts
                                 /\ rows'[e].max = rows[e].max
      BY <1>4, <2>1, <2>2 DEF RecoverExpired, Expired
    <2>4. \A e \in Effects \ Expired(at) : rows'[e] = rows[e]
      BY <2>1 DEF RecoverExpired
    <2>5. Expired(at) # {} /\ Expired(at) \subseteq Effects
      BY <2>1 DEF RecoverExpired, Expired
    <2>6. PICK S \in SUBSET Effects : S = Expired(at)
      BY <2>5
    <2>7. Queue!Release(S)
      BY <2>3, <2>4, <2>5, <2>6 DEF Queue!Release, AfterLease, Exhausted
    <2> QED
      BY <2>7 DEF Queue!Next
  <1>8. CASE ForgetStep \/ Tick \/ UNCHANGED vars
    BY <1>8 DEF ForgetStep, Forget, Tick, vars, Queue!qvars
  <1> QED
    BY <1>1, <1>2, <1>5, <1>6, <1>7, <1>8 DEF Next

\* The outbox with its clock, textual timestamps and ledger implements the
\* timeless lease queue: batches, retries and recoveries included.
THEOREM ImplementsLeaseQueue == Spec => KeepsQueuePromise
  <1>1. Init => TypeOK /\ RowFresh /\ NoFutureLease /\ Queue!Init
    BY OutboxAssumption, TypeInit DEF Init, NoRow, RowFresh, NoFutureLease, Queue!Init
  <1>2. TypeOK /\ RowFresh /\ NoFutureLease /\ [Next]_vars
           => TypeOK' /\ RowFresh' /\ NoFutureLease'
    BY OutboxAssumption, TypeInductive, FreshInductive
  <1>3. TypeOK /\ RowFresh /\ [Next]_vars => [Queue!Next]_(Queue!qvars)
    BY OutboxAssumption, QueueStep
  <1> QED
    BY <1>1, <1>2, <1>3, PTL DEF Spec, KeepsQueuePromise, Queue!Spec

\* What the workers rely on, inherited from the queue: an effect that has
\* succeeded or failed for good is never leased or settled again, whoever still
\* holds a lease on it and whatever the timestamps say.
THEOREM EffectsSettleForGood == Spec => Queue!SettledForGood
  <1> DEFINE status == [e \in Effects |-> rows[e].status]
             count == [e \in Effects |-> rows[e].attempts]
             most == [e \in Effects |-> rows[e].max]
             Step == \A e \in Effects :
                /\ status[e] \in Queue!Settled => status'[e] = status[e] /\ count'[e] = count[e]
                /\ status[e] # "NONE" => status'[e] # "NONE" /\ most'[e] = most[e]
                /\ count'[e] # count[e] => /\ status[e] = "PENDING" /\ status'[e] = "LEASED"
                                          /\ count'[e] = count[e] + 1
  <1>1. [Queue!Next]_(Queue!qvars) => [Step]_(Queue!qvars)
    <2> SUFFICES ASSUME Queue!Next PROVE Step
      OBVIOUS
    <2>1. ASSUME NEW S \in SUBSET Effects, NEW max, Queue!Enqueue(S, max) PROVE Step
      BY <2>1 DEF Queue!Enqueue, Queue!Settled
    <2>2. ASSUME NEW S \in SUBSET Effects, Queue!Claim(S) PROVE Step
      BY <2>2 DEF Queue!Claim, Queue!Settled
    <2>3. ASSUME NEW S \in SUBSET Effects, Queue!Release(S) PROVE Step
      BY <2>3 DEF Queue!Release, Queue!Settled
    <2>4. ASSUME NEW e \in Effects, Queue!Succeed(e, count[e]) PROVE Step
      BY <2>4 DEF Queue!Succeed, Queue!Settled
    <2> QED
      BY <2>1, <2>2, <2>3, <2>4 DEF Queue!Next
  <1> QED
    BY <1>1, ImplementsLeaseQueue, PTL DEF KeepsQueuePromise, Queue!Spec, Queue!SettledForGood

-----------------------------------------------------------------------------
(* The ledger                                                              *)

\* Every step appends to the stream of an effect what it does to its row, or
\* leaves row and stream alone.
LedgerStep(e) ==
    \/ rows'[e] = rows[e] /\ stream'[e] = stream[e]
    \/ \E ev \in Event :
          /\ stream'[e] = Append(stream[e], ev)
          /\ rows'[e].status = StatusAfter(ev.kind) /\ rows'[e].attempts = ev.attempt
          /\ \/ rows[e].status = "NONE" /\ ev.kind = "EFFECT_ENQUEUED"
             \/ /\ rows[e].status = "PENDING" /\ ev.kind = "EFFECT_LEASED"
                /\ ev.attempt = rows[e].attempts + 1
             \/ /\ rows[e].status = "LEASED" /\ ev.kind \in Ends
                /\ ev.attempt = rows[e].attempts

\* The status each kind of event leaves behind.
LEMMA AfterKind ==
    /\ StatusAfter("EFFECT_ENQUEUED") = "PENDING" /\ StatusAfter("EFFECT_LEASED") = "LEASED"
    /\ StatusAfter("EFFECT_SUCCEEDED") = "SUCCEEDED"
    /\ StatusAfter("EFFECT_TERMINALLY_FAILED") = "TERMINAL_FAILED"
    /\ StatusAfter("EFFECT_RETRY_SCHEDULED") = "PENDING"
    /\ StatusAfter("EFFECT_LEASE_RECOVERED") = "PENDING"
  BY DEF StatusAfter

\* What Log appends to the stream of one effect.
LEMMA Logged ==
    ASSUME TypeOK, rows' \in [Effects -> Row], NEW S, NEW kind, Log(S, kind),
           NEW e \in Effects, e \in S => kind[e] \in Kinds
    PROVE  /\ e \notin S => stream'[e] = stream[e]
           /\ e \in S => \E ev \in Event :
                            /\ stream'[e] = Append(stream[e], ev)
                            /\ ev.kind = kind[e] /\ ev.attempt = rows'[e].attempts
  <1>1. e \notin S => stream'[e] = stream[e]
    BY DEF Log
  <1>2. ASSUME e \in S
        PROVE  \E ev \in Event : /\ stream'[e] = Append(stream[e], ev)
                                 /\ ev.kind = kind[e] /\ ev.attempt = rows'[e].attempts
    <2> DEFINE ev == [kind |-> kind[e], attempt |-> rows'[e].attempts, max |-> rows'[e].max]
    <2>1. ev \in Event /\ ev.kind = kind[e] /\ ev.attempt = rows'[e].attempts
      BY <1>2 DEF Event, Row
    <2>2. stream'[e] = Append(stream[e], ev)
      BY <1>2 DEF Log
    <2> HIDE DEF ev
    <2> QED
      BY <2>1, <2>2
  <1> QED
    BY <1>1, <1>2

\* The steps of the code log what they do.
LEMMA LedgerSteps ==
    ASSUME OutboxAssumption, TypeOK, [Next]_vars, NEW e \in Effects
    PROVE  LedgerStep(e)
  <1> USE DEF TypeOK
  <1>0. rows' \in [Effects -> Row] /\ rows[e] \in Row
    BY TypeInductive
  <1> DEFINE Entry(kind) == \E ev \in Event :
                                /\ stream'[e] = Append(stream[e], ev)
                                /\ ev.kind = kind /\ ev.attempt = rows'[e].attempts
  <1>00. ASSUME NEW S, NEW kind, Log(S, kind), e \in S, kind[e] \in Kinds
         PROVE  Entry(kind[e])
    BY <1>0, <1>00, Logged
  <1> HIDE DEF Entry
  <1>1. CASE EnqueueStep
    <2>0. PICK f \in Effects, max \in 1..MaxAttempts, at \in CallStamps :
             \E avail \in {at} \cup {Later(at, d) : d \in RetryDelays} : Enqueue(f, max, at, avail)
      BY <1>1 DEF EnqueueStep
    <2>1. PICK avail \in {at} \cup {Later(at, d) : d \in RetryDelays} : Enqueue(f, max, at, avail)
      BY <2>0
    <2>2. CASE e # f
      BY <1>0, <2>1, <2>2, Logged DEF Enqueue, LedgerStep, Kinds
    <2>3. CASE e = f
      <3>1. rows[e].status = "NONE" /\ rows'[e].status = "PENDING"
        BY <2>1, <2>3 DEF Enqueue, NoRow
      <3>2. Entry("EFFECT_ENQUEUED")
        <4> DEFINE kind == [g \in {e} |-> "EFFECT_ENQUEUED"]
        <4>1. Log({e}, kind) /\ kind[e] = "EFFECT_ENQUEUED" /\ kind[e] \in Kinds
          BY <2>1, <2>3 DEF Enqueue, Kinds
        <4> HIDE DEF kind
        <4>2. Entry(kind[e])
          BY <1>00, <4>1
        <4> QED
          BY <4>1, <4>2
      <3>3. PICK ev \in Event : /\ stream'[e] = Append(stream[e], ev)
                                /\ ev.kind = "EFFECT_ENQUEUED" /\ ev.attempt = rows'[e].attempts
        BY <3>2 DEF Entry
      <3> QED
        BY <3>1, <3>3, AfterKind DEF LedgerStep
    <2> QED
      BY <2>2, <2>3
  <1>2. CASE ClaimStep
    <2>1. PICK w \in Workers, at \in CallStamps, n \in LeaseSeconds, S \in SUBSET Effects :
             Claim(w, at, n, S)
      BY <1>2 DEF ClaimStep
    <2>2. Log(S, [f \in S |-> "EFFECT_LEASED"])
      BY <2>1 DEF Claim
    <2>3. CASE e \notin S
      BY <1>0, <2>1, <2>2, <2>3, Logged DEF Claim, LedgerStep
    <2>4. CASE e \in S
      <3>1. /\ rows[e].status = "PENDING" /\ rows'[e].status = "LEASED"
            /\ rows'[e].attempts = rows[e].attempts + 1
        BY <1>0, <2>1, <2>4 DEF Claim, Claimable, Granted, Row
      <3>2. PICK ev \in Event : /\ stream'[e] = Append(stream[e], ev)
                                /\ ev.kind = "EFFECT_LEASED" /\ ev.attempt = rows'[e].attempts
        <4> DEFINE kind == [f \in S |-> "EFFECT_LEASED"]
        <4>1. Log(S, kind) /\ kind[e] = "EFFECT_LEASED" /\ kind[e] \in Kinds
          BY <2>2, <2>4 DEF Kinds
        <4> HIDE DEF kind
        <4> QED
          BY <1>0, <2>4, <4>1, Logged
      <3> QED
        BY <3>1, <3>2, AfterKind DEF LedgerStep
    <2> QED
      BY <2>3, <2>4
  <1>3. ASSUME NEW S, NEW kind, Log(S, kind), \A f \in S : kind[f] \in Ends,
               rows[e].status = "LEASED" \/ e \notin S,
               e \notin S => rows'[e] = rows[e],
               e \in S => /\ rows'[e].status = StatusAfter(kind[e])
                          /\ rows'[e].attempts = rows[e].attempts
        PROVE  LedgerStep(e)
    <2>1. e \in S => kind[e] \in Kinds
      BY <1>3 DEF Ends, Kinds
    <2>2. CASE e \notin S
      BY <1>0, <1>3, <2>1, <2>2, Logged DEF LedgerStep
    <2>3. CASE e \in S
      <3>1. PICK ev \in Event : /\ stream'[e] = Append(stream[e], ev)
                                /\ ev.kind = kind[e] /\ ev.attempt = rows'[e].attempts
        BY <1>0, <1>3, <2>1, <2>3, Logged
      <3> QED
        BY <1>3, <2>3, <3>1 DEF LedgerStep
    <2> QED
      BY <2>2, <2>3
  <1>4. CASE SucceedStep
    <2>1. PICK l \in held, at \in CallStamps : Succeed(l, at)
      BY <1>4 DEF SucceedStep
    <2> DEFINE S == {l.effect}
               kind == [f \in S |-> "EFFECT_SUCCEEDED"]
    <2>2. Log(S, kind) /\ \A f \in S : kind[f] \in Ends
      BY <2>1 DEF Succeed, Ends
    <2>3. (rows[e].status = "LEASED" \/ e \notin S) /\ (e \notin S => rows'[e] = rows[e])
      BY <2>1 DEF Succeed, LeaseAccepted
    <2>4. e \in S => /\ rows'[e].status = StatusAfter(kind[e])
                     /\ rows'[e].attempts = rows[e].attempts
      BY <1>0, <2>1, AfterKind DEF Succeed, Cleared, Row
    <2> QED
      BY <1>3, <2>2, <2>3, <2>4
  <1>5. CASE FailStep
    <2>1. PICK l \in held, d \in RetryDelays, at \in CallStamps : Fail(l, d, at)
      BY <1>5 DEF FailStep
    <2> DEFINE S == {l.effect}
               kind == [f \in S |-> IF Exhausted(rows[f]) THEN "EFFECT_TERMINALLY_FAILED"
                                    ELSE "EFFECT_RETRY_SCHEDULED"]
    <2>2. Log(S, kind) /\ \A f \in S : kind[f] \in Ends
      BY <2>1 DEF Fail, Ends
    <2>3. (rows[e].status = "LEASED" \/ e \notin S) /\ (e \notin S => rows'[e] = rows[e])
      BY <2>1 DEF Fail, LeaseAccepted
    <2>4. e \in S => /\ rows'[e].status = StatusAfter(kind[e])
                     /\ rows'[e].attempts = rows[e].attempts
      BY <1>0, <2>1, AfterKind DEF Fail, Cleared, AfterLease, Row
    <2> QED
      BY <1>3, <2>2, <2>3, <2>4
  <1>6. CASE RecoverStep
    <2>1. PICK at \in CallStamps : RecoverExpired(at)
      BY <1>6 DEF RecoverStep
    <2> DEFINE S == Expired(at)
               kind == [f \in S |-> IF Exhausted(rows[f]) THEN "EFFECT_TERMINALLY_FAILED"
                                    ELSE "EFFECT_LEASE_RECOVERED"]
    <2>2. Log(S, kind) /\ \A f \in S : kind[f] \in Ends
      BY <2>1 DEF RecoverExpired, Ends
    <2>3. (rows[e].status = "LEASED" \/ e \notin S) /\ (e \notin S => rows'[e] = rows[e])
      BY <2>1 DEF RecoverExpired, Expired
    <2>4. e \in S => /\ rows'[e].status = StatusAfter(kind[e])
                     /\ rows'[e].attempts = rows[e].attempts
      BY <1>0, <2>1, AfterKind DEF RecoverExpired, Cleared, AfterLease, Row
    <2> QED
      BY <1>3, <2>2, <2>3, <2>4
  <1>7. CASE ForgetStep \/ Tick \/ UNCHANGED vars
    BY <1>7 DEF ForgetStep, Forget, Tick, vars, LedgerStep
  <1> QED
    BY <1>1, <1>2, <1>4, <1>5, <1>6, <1>7 DEF Next

\* A legal history goes on legally.
LEMMA HistoryGoesOn ==
    ASSUME NEW h \in Seq(Event), NEW ev \in Event, LegalHistory(h),
           \/ h = <<>> /\ ev.kind = "EFFECT_ENQUEUED"
           \/ /\ h # <<>> /\ ev.kind # "EFFECT_ENQUEUED"
              /\ StatusAfter(h[Len(h)].kind) \notin Terminal
              /\ ev.kind \in Ends <=> h[Len(h)].kind = "EFFECT_LEASED"
              /\ ev.attempt = h[Len(h)].attempt +
                                 (IF ev.kind = "EFFECT_LEASED" THEN 1 ELSE 0)
    PROVE  LegalHistory(Append(h, ev))
  <1> DEFINE g == Append(h, ev)
  <1>1. Len(g) = Len(h) + 1 /\ Len(h) \in Nat /\ g[Len(h) + 1] = ev
        /\ \A i \in 1..Len(h) : g[i] = h[i]
    OBVIOUS
  <1> HIDE DEF g
  <1>2. h = <<>> <=> Len(h) = 0
    OBVIOUS
  <1> SUFFICES ASSUME NEW i \in 1..Len(g)
               PROVE  /\ g[i].kind = "EFFECT_ENQUEUED" <=> i = 1
                      /\ i > 1 => /\ StatusAfter(g[i - 1].kind) \notin Terminal
                                  /\ g[i].kind \in Ends <=> g[i - 1].kind = "EFFECT_LEASED"
                                  /\ g[i].attempt = g[i - 1].attempt +
                                        (IF g[i].kind = "EFFECT_LEASED" THEN 1 ELSE 0)
    BY DEF LegalHistory, g
  <1>3. CASE i \in 1..Len(h)
    <2>1. g[i] = h[i] /\ (i > 1 => g[i - 1] = h[i - 1])
      BY <1>1, <1>3
    <2> QED
      BY <1>3, <2>1 DEF LegalHistory
  <1>4. CASE i = Len(h) + 1
    <2>1. g[i] = ev /\ (i > 1 => g[i - 1] = h[Len(h)])
      BY <1>1, <1>4
    <2> QED
      BY <1>1, <1>2, <1>4, <2>1
  <1> QED
    BY <1>1, <1>3, <1>4

\* The stream of an effect is a legal delivery history that ends where its row
\* stands, for any number of effects, workers and attempts and however long.
THEOREM LedgerIsTheRow == Spec => []LedgerTellsTheRow
  <1>1. Init => TypeOK /\ LedgerTellsTheRow
    BY OutboxAssumption, TypeInit DEF Init, NoRow, LedgerTellsTheRow, LegalHistory
  <1>2. TypeOK /\ LedgerTellsTheRow /\ [Next]_vars => TypeOK' /\ LedgerTellsTheRow'
    <2> SUFFICES ASSUME TypeOK, LedgerTellsTheRow, [Next]_vars
                 PROVE  TypeOK' /\ LedgerTellsTheRow'
      OBVIOUS
    <2>1. TypeOK'
      BY OutboxAssumption, TypeInductive
    <2> SUFFICES ASSUME NEW e \in Effects
                 PROVE  /\ rows'[e].status = "NONE" <=> stream'[e] = <<>>
                        /\ LegalHistory(stream'[e])
                        /\ stream'[e] # <<>> =>
                              /\ rows'[e].status = StatusAfter(stream'[e][Len(stream'[e])].kind)
                              /\ rows'[e].attempts = stream'[e][Len(stream'[e])].attempt
      BY <2>1 DEF LedgerTellsTheRow
    <2>2. LedgerStep(e)
      BY OutboxAssumption, LedgerSteps
    <2> DEFINE h == stream[e]
               r == rows[e]
    <2>3. /\ h \in Seq(Event) /\ r \in Row /\ LegalHistory(h)
          /\ r.status = "NONE" <=> h = <<>>
          /\ h # <<>> => /\ r.status = StatusAfter(h[Len(h)].kind)
                         /\ r.attempts = h[Len(h)].attempt
      BY DEF LedgerTellsTheRow, TypeOK
    <2>4. CASE rows'[e] = r /\ stream'[e] = h
      BY <2>3, <2>4
    <2>5. ASSUME NEW ev \in Event,
                 stream'[e] = Append(h, ev),
                 rows'[e].status = StatusAfter(ev.kind), rows'[e].attempts = ev.attempt,
                 \/ r.status = "NONE" /\ ev.kind = "EFFECT_ENQUEUED"
                 \/ /\ r.status = "PENDING" /\ ev.kind = "EFFECT_LEASED"
                    /\ ev.attempt = r.attempts + 1
                 \/ /\ r.status = "LEASED" /\ ev.kind \in Ends
                    /\ ev.attempt = r.attempts
          PROVE  /\ rows'[e].status = "NONE" <=> stream'[e] = <<>>
                 /\ LegalHistory(stream'[e])
                 /\ stream'[e] # <<>> =>
                       /\ rows'[e].status = StatusAfter(stream'[e][Len(stream'[e])].kind)
                       /\ rows'[e].attempts = stream'[e][Len(stream'[e])].attempt
      <3> HIDE DEF h, r
      <3>1. /\ stream'[e] # <<>> /\ stream'[e][Len(stream'[e])] = ev
        <4>1. /\ Len(Append(h, ev)) = Len(h) + 1 /\ Len(h) \in Nat
              /\ Append(h, ev)[Len(h) + 1] = ev
          BY <2>3
        <4> QED
          BY <2>5, <4>1
      <3>2. StatusAfter(ev.kind) # "NONE"
        BY AfterKind DEF Event, Kinds
      <3>3. h # <<>> => h[Len(h)] \in Event
        BY <2>3
      <3>4. h # <<>> /\ r.status = "PENDING" => h[Len(h)].kind # "EFFECT_LEASED"
        BY <2>3, AfterKind
      <3>5. h # <<>> /\ r.status = "LEASED" => h[Len(h)].kind = "EFFECT_LEASED"
        BY <2>3, <3>3, AfterKind DEF Event, Kinds
      <3>6. LegalHistory(Append(h, ev))
        <4>1. CASE r.status = "NONE" /\ ev.kind = "EFFECT_ENQUEUED"
          BY <2>3, <4>1, HistoryGoesOn
        <4>2. CASE r.status = "PENDING" /\ ev.kind = "EFFECT_LEASED" /\ ev.attempt = r.attempts + 1
          BY <2>3, <3>3, <3>4, <4>2, HistoryGoesOn DEF Terminal, Ends
        <4>3. CASE r.status = "LEASED" /\ ev.kind \in Ends /\ ev.attempt = r.attempts
          <5>1. h # <<>> /\ h[Len(h)] \in Event /\ h[Len(h)].kind = "EFFECT_LEASED"
                /\ h[Len(h)].attempt \in Nat
            BY <2>3, <3>3, <3>5, <4>3 DEF Event
          <5>2. ev.kind # "EFFECT_ENQUEUED" /\ ev.kind # "EFFECT_LEASED"
            BY <4>3 DEF Ends
          <5> QED
            BY <2>3, <4>3, <5>1, <5>2, HistoryGoesOn DEF Terminal
        <4> QED
          BY <2>5, <4>1, <4>2, <4>3
      <3> QED
        BY <2>5, <3>1, <3>2, <3>6
    <2> QED
      BY <2>2, <2>4, <2>5 DEF LedgerStep
  <1> QED
    BY <1>1, <1>2, PTL DEF Spec

\* The kind of an event a step appended.
Appended(e) == stream'[e][Len(stream'[e])].kind

\* Of the steps that append to a stream, only recover_expired takes leases back.
LEMMA OnlyRecoveryRecovers ==
    ASSUME OutboxAssumption, TypeOK, [Next]_vars, NEW e \in Effects,
           Len(stream'[e]) > Len(stream[e]), Appended(e) = "EFFECT_LEASE_RECOVERED"
    PROVE  \E at \in CallStamps : e \in Expired(at)
  <1> USE DEF TypeOK
  <1>0. rows' \in [Effects -> Row] /\ stream[e] \in Seq(Event)
    BY TypeInductive
  <1>1. ASSUME NEW S, NEW kind, Log(S, kind), e \in S => kind[e] \in Kinds
        PROVE  e \in S /\ kind[e] = "EFFECT_LEASE_RECOVERED"
    <2>1. e \in S
      BY <1>0, <1>1, Logged
    <2>2. PICK ev \in Event : stream'[e] = Append(stream[e], ev) /\ ev.kind = kind[e]
      BY <1>0, <1>1, <2>1, Logged
    <2>3. /\ Len(Append(stream[e], ev)) = Len(stream[e]) + 1 /\ Len(stream[e]) \in Nat
          /\ Append(stream[e], ev)[Len(stream[e]) + 1] = ev
      BY <1>0
    <2> QED
      BY <2>1, <2>2, <2>3 DEF Appended
  <1>2. ~EnqueueStep
    <2> SUFFICES ASSUME NEW f \in Effects, NEW max, NEW at, NEW avail, Enqueue(f, max, at, avail)
                 PROVE  FALSE
      BY DEF EnqueueStep
    <2> DEFINE kind == [g \in {f} |-> "EFFECT_ENQUEUED"]
    <2>1. Log({f}, kind) /\ (e \in {f} => kind[e] = "EFFECT_ENQUEUED" /\ kind[e] \in Kinds)
      BY DEF Enqueue, Kinds
    <2> HIDE DEF kind
    <2> QED
      BY <1>1, <2>1
  <1>3. ~ClaimStep
    <2> SUFFICES ASSUME NEW w \in Workers, NEW at \in CallStamps, NEW n \in LeaseSeconds,
                        NEW S \in SUBSET Effects, Claim(w, at, n, S)
                 PROVE  FALSE
      BY DEF ClaimStep
    <2> DEFINE kind == [g \in S |-> "EFFECT_LEASED"]
    <2>1. Log(S, kind) /\ (e \in S => kind[e] = "EFFECT_LEASED" /\ kind[e] \in Kinds)
      BY DEF Claim, Kinds
    <2> HIDE DEF kind
    <2> QED
      BY <1>1, <2>1
  <1>4. ~SucceedStep
    <2> SUFFICES ASSUME NEW l \in held, NEW at \in CallStamps, Succeed(l, at)
                 PROVE  FALSE
      BY DEF SucceedStep
    <2> DEFINE kind == [g \in {l.effect} |-> "EFFECT_SUCCEEDED"]
    <2>1. Log({l.effect}, kind)
          /\ (e \in {l.effect} => kind[e] = "EFFECT_SUCCEEDED" /\ kind[e] \in Kinds)
      BY DEF Succeed, Kinds
    <2> HIDE DEF kind
    <2> QED
      BY <1>1, <2>1
  <1>5. ~FailStep
    <2> SUFFICES ASSUME NEW l \in held, NEW d \in RetryDelays, NEW at \in CallStamps, Fail(l, d, at)
                 PROVE  FALSE
      BY DEF FailStep
    <2> DEFINE kind == [g \in {l.effect} |-> IF Exhausted(rows[g]) THEN "EFFECT_TERMINALLY_FAILED"
                                             ELSE "EFFECT_RETRY_SCHEDULED"]
    <2>1. Log({l.effect}, kind)
          /\ (e \in {l.effect} => kind[e] # "EFFECT_LEASE_RECOVERED" /\ kind[e] \in Kinds)
      BY DEF Fail, Kinds
    <2> HIDE DEF kind
    <2> QED
      BY <1>1, <2>1
  <1>6. CASE RecoverStep
    <2>1. PICK at \in CallStamps : RecoverExpired(at)
      BY <1>6 DEF RecoverStep
    <2> DEFINE kind == [g \in Expired(at) |-> IF Exhausted(rows[g]) THEN "EFFECT_TERMINALLY_FAILED"
                                              ELSE "EFFECT_LEASE_RECOVERED"]
    <2>2. Log(Expired(at), kind) /\ (e \in Expired(at) => kind[e] \in Kinds)
      BY <2>1 DEF RecoverExpired, Kinds
    <2> HIDE DEF kind
    <2> QED
      BY <1>1, <2>2
  <1>7. ~(ForgetStep \/ Tick \/ UNCHANGED vars)
    <2>1. Len(stream[e]) \in Nat
      BY <1>0
    <2> QED
      BY <2>1 DEF ForgetStep, Forget, Tick, vars
  <1> QED
    BY <1>2, <1>3, <1>4, <1>5, <1>6, <1>7 DEF Next

\* A worker that is late loses its lease only when the lease has expired by the
\* machine's clock, if all timestamps are written with microseconds.
THEOREM RecoveryIsDue ==
    ASSUME Formats = {"us"}
    PROVE  Spec => RecoversOnlyExpired
  <1> DEFINE Due == \A e \in Effects :
                       (rows[e].status = "LEASED" /\ Len(stream'[e]) > Len(stream[e])
                          /\ stream'[e][Len(stream'[e])].kind = "EFFECT_LEASE_RECOVERED")
                          => Instant(rows[e].expires) <= clock
  <1>1. Init => TypeOK /\ LeaseInv
    BY OutboxAssumption, TypeInit, LeaseInit
  <1>2. TypeOK /\ LeaseInv /\ [Next]_vars => TypeOK' /\ LeaseInv'
    BY OutboxAssumption, TypeInductive, LeaseInductive
  <1>3. TypeOK /\ LeaseInv /\ [Next]_vars => [Due]_vars
    <2> SUFFICES ASSUME TypeOK, LeaseInv, Next, NEW e \in Effects,
                        Len(stream'[e]) > Len(stream[e]),
                        stream'[e][Len(stream'[e])].kind = "EFFECT_LEASE_RECOVERED"
                 PROVE  Instant(rows[e].expires) <= clock
      BY Zenon DEF Due
    <2>1. PICK at \in CallStamps : e \in Expired(at)
      BY OutboxAssumption, OnlyRecoveryRecovers DEF Appended
    <2>2. at \in Stamp /\ at.fmt = "us" /\ Instant(at) <= clock
      BY OutboxAssumption, CallStamp
    <2>3. rows[e].expires \in Stamp /\ rows[e].expires.fmt = "us" /\ TextLeq(rows[e].expires, at)
      BY <2>1 DEF Expired, LeaseInv, RowInv, TypeOK, Row
    <2>4. Instant(rows[e].expires) <= Instant(at)
      BY <2>2, <2>3, TextOrderIsTime
    <2>5. Instant(rows[e].expires) \in Int /\ Instant(at) \in Int /\ clock \in Int
      BY <2>2, <2>3, StampInstant DEF TypeOK
    <2> QED
      BY <2>2, <2>4, <2>5
  <1> QED
    BY <1>1, <1>2, <1>3, PTL DEF Spec, RecoversOnlyExpired
=============================================================================
