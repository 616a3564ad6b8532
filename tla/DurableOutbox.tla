--------------------------- MODULE DurableOutbox ---------------------------
(***************************************************************************)
(* DurableOutbox of src/starcom/durable.py: the durable_effects table, the *)
(* per-effect ledger stream durable:effect:<id>, and the leases that       *)
(* worker processes believe they hold.                                     *)
(*                                                                         *)
(* Each public operation is one BEGIN IMMEDIATE transaction and therefore  *)
(* one action; an operation that raises rolls back and is no step.         *)
(*                                                                         *)
(* Timestamps are the strings the code stores.  claim and recover_expired  *)
(* compare them as text in SQL, _require_lease compares parsed instants.   *)
(* A stamp keeps what the two comparisons tell apart: the second, half of  *)
(* it, and whether it was written with microseconds ("us", what utc_now    *)
(* and _format_time produce) or without ("s", equally valid RFC 3339).     *)
(***************************************************************************)
EXTENDS Integers, Sequences, FiniteSets

CONSTANTS Effects,       \* effect ids, which are also the idempotency keys
          Workers,       \* worker ids
          Formats,       \* the timestamp formats callers use
          MaxAttempts,   \* largest max_attempts a caller passes
          LeaseSeconds,  \* the lease_seconds values callers pass
          RetryDelays,   \* the retry_delay_seconds values callers pass
          MaxLimit,      \* largest limit a caller passes to claim
          MaxSec         \* bound: no call is stamped after this second

ASSUME OutboxAssumption ==
    /\ Formats \subseteq {"us", "s"}
    /\ MaxAttempts \in Nat \ {0}
    /\ LeaseSeconds \subseteq Nat \ {0}
    /\ RetryDelays \subseteq Nat
    /\ MaxLimit \in Nat \ {0}
    /\ MaxSec \in Nat

VARIABLES rows,    \* rows[e]: the durable_effects row of e (status "NONE": no row)
          stream,  \* stream[e]: the ledger events of durable:effect:<e>
          held,    \* the EffectLease objects workers still hold
          clock    \* the instant of the machine's clock, in half seconds

vars == <<rows, stream, held, clock>>

Statuses == {"NONE", "PENDING", "LEASED", "SUCCEEDED", "TERMINAL_FAILED"}
Terminal == {"SUCCEEDED", "TERMINAL_FAILED"}
Kinds == {"EFFECT_ENQUEUED", "EFFECT_LEASED", "EFFECT_SUCCEEDED",
          "EFFECT_RETRY_SCHEDULED", "EFFECT_LEASE_RECOVERED",
          "EFFECT_TERMINALLY_FAILED"}

-----------------------------------------------------------------------------
(* Timestamps                                                              *)

Stamp == {s \in [sec : Nat, frac : {0, 1}, fmt : {"us", "s"}] :
             s.fmt = "s" => s.frac = 0}

\* The point in time _parse_time reads from the text.
Instant(s) == 2 * s.sec + s.frac

\* Text order inside one second: ".0" < ".5" < "Z".
Rank(s) == IF s.fmt = "s" THEN 2 ELSE s.frac

\* The order SQL uses on the stored text.
TextLeq(s, t) == s.sec < t.sec \/ (s.sec = t.sec /\ Rank(s) <= Rank(t))

\* _format_time(instant + seconds): always written with microseconds.
Later(s, seconds) == [sec |-> s.sec + seconds, frac |-> s.frac, fmt |-> "us"]

\* A call's timestamp is taken, or passed in, before the call waits for the
\* write lock: it may lie behind the clock when the transaction runs.
CallStamps == {s \in [sec : 0..MaxSec, frac : {0, 1}, fmt : Formats] :
                  /\ s.fmt = "s" => s.frac = 0
                  /\ Instant(s) <= clock}

Epoch == [sec |-> 0, frac |-> 0, fmt |-> "us"]
NoWorker == "none"
NoRow == [status |-> "NONE", attempts |-> 0, max |-> 0, avail |-> Epoch,
          owner |-> NoWorker, expires |-> Epoch]

Row == [status : Statuses, attempts : Nat, max : Nat, avail : Stamp,
        owner : Workers \cup {NoWorker}, expires : Stamp]
Lease == [effect : Effects, worker : Workers, attempt : Nat, expires : Stamp]
Event == [kind : Kinds, attempt : Nat, max : Nat]

\* append_in_transaction on the streams of the effects in S; kind maps each
\* of them to the kind of its event.
Log(S, kind) ==
    stream' = [e \in Effects |->
                 IF e \in S
                 THEN Append(stream[e], [kind |-> kind[e],
                                         attempt |-> rows'[e].attempts,
                                         max |-> rows'[e].max])
                 ELSE stream[e]]

-----------------------------------------------------------------------------
Init == /\ rows = [e \in Effects |-> NoRow]
        /\ stream = [e \in Effects |-> <<>>]
        /\ held = {}
        /\ clock = 0

\* Bug: a finished effect may be enqueued again under its id.
EnqueueAgain(e, max, at, avail) ==
    /\ rows[e].status \in {"NONE"} \cup Terminal
    /\ rows' = [rows EXCEPT ![e] = [NoRow EXCEPT !.status = "PENDING",
                                                 !.max = max,
                                                 !.avail = avail]]
    /\ Log({e}, [f \in {e} |-> "EFFECT_ENQUEUED"])
    /\ UNCHANGED <<held, clock>>

\* enqueue of a new effect id.  A repeated id returns the stored row or
\* raises ConflictError; neither writes.
Enqueue(e, max, at, avail) ==
    /\ rows[e].status = "NONE"
    /\ rows' = [rows EXCEPT ![e] = [NoRow EXCEPT !.status = "PENDING",
                                                 !.max = max,
                                                 !.avail = avail]]
    /\ Log({e}, [f \in {e} |-> "EFFECT_ENQUEUED"])
    /\ UNCHANGED <<held, clock>>

\* The rows claim selects from.
Claimable(at) == {e \in Effects : /\ rows[e].status = "PENDING"
                                  /\ TextLeq(rows[e].avail, at)}

\* claim takes the limit rows that have been available longest; ties, which
\* the code breaks by created_at and effect_id, go either way.
FirstAvailable(S, at, limit) ==
    /\ S \subseteq Claimable(at)
    /\ Cardinality(S) = IF Cardinality(Claimable(at)) < limit
                        THEN Cardinality(Claimable(at)) ELSE limit
    /\ \A e \in S, f \in Claimable(at) \ S : TextLeq(rows[e].avail, rows[f].avail)

\* What a grant writes into the row, and the lease it returns.
Granted(r, w, expires) == [r EXCEPT !.status = "LEASED", !.attempts = r.attempts + 1,
                                    !.owner = w, !.expires = expires]
LeaseOf(e, w, expires) == [effect |-> e, worker |-> w,
                           attempt |-> rows[e].attempts + 1, expires |-> expires]

Claim(w, at, seconds, S) ==
    /\ S # {}
    /\ S \subseteq Claimable(at)
    /\ rows' = [e \in Effects |->
                  IF e \in S THEN Granted(rows[e], w, Later(at, seconds)) ELSE rows[e]]
    /\ held' = held \cup {LeaseOf(e, w, Later(at, seconds)) : e \in S}
    /\ Log(S, [e \in S |-> "EFFECT_LEASED"])
    /\ UNCHANGED clock

\* Bug: the owner and the expiry are checked, the token is not.
LeaseAcceptedAnyToken(l, at) ==
    /\ rows[l.effect].status = "LEASED"
    /\ rows[l.effect].owner = l.worker
    /\ Instant(at) < Instant(rows[l.effect].expires)

\* _require_lease, with the lease's own worker id and token as arguments.
LeaseAccepted(l, at) ==
    /\ rows[l.effect].status = "LEASED"
    /\ rows[l.effect].owner = l.worker
    /\ rows[l.effect].attempts = l.attempt
    /\ Instant(at) < Instant(rows[l.effect].expires)

Cleared(r, status) == [r EXCEPT !.status = status, !.owner = NoWorker, !.expires = Epoch]

\* fail and recover_expired: is this lease the last one?
Exhausted(r) == r.attempts >= r.max

\* The status a lease that ends without success leaves behind.
AfterLease(r) == IF Exhausted(r) THEN "TERMINAL_FAILED" ELSE "PENDING"

\* Bug: success is recorded in the row but not in the ledger.
SucceedUnlogged(l, at) ==
    /\ LeaseAccepted(l, at)
    /\ rows' = [rows EXCEPT ![l.effect] = Cleared(rows[l.effect], "SUCCEEDED")]
    /\ held' = held \ {l}
    /\ UNCHANGED <<stream, clock>>

\* succeed and succeed_in_transaction.
Succeed(l, at) ==
    /\ LeaseAccepted(l, at)
    /\ rows' = [rows EXCEPT ![l.effect] = Cleared(rows[l.effect], "SUCCEEDED")]
    /\ held' = held \ {l}
    /\ Log({l.effect}, [e \in {l.effect} |-> "EFFECT_SUCCEEDED"])
    /\ UNCHANGED clock

Fail(l, delay, at) ==
    /\ LeaseAccepted(l, at)
    /\ rows' = [rows EXCEPT ![l.effect] =
                  [Cleared(rows[l.effect], AfterLease(rows[l.effect]))
                     EXCEPT !.avail = Later(at, delay)]]
    /\ held' = held \ {l}
    /\ Log({l.effect}, [e \in {l.effect} |->
                         IF Exhausted(rows[e]) THEN "EFFECT_TERMINALLY_FAILED"
                         ELSE "EFFECT_RETRY_SCHEDULED"])
    /\ UNCHANGED clock

\* Bug: every lease is taken back, expired or not.
ExpiredAny(at) == {e \in Effects : rows[e].status = "LEASED"}

\* The rows recover_expired selects.
Expired(at) == {e \in Effects : /\ rows[e].status = "LEASED"
                                /\ TextLeq(rows[e].expires, at)}

\* recover_expired: every selected lease ends in one transaction, its holder
\* is not told.
RecoverExpired(at) ==
    /\ Expired(at) # {}
    /\ rows' = [e \in Effects |->
                  IF e \in Expired(at)
                  THEN [Cleared(rows[e], AfterLease(rows[e])) EXCEPT !.avail = at]
                  ELSE rows[e]]
    /\ Log(Expired(at), [e \in Expired(at) |->
                          IF Exhausted(rows[e]) THEN "EFFECT_TERMINALLY_FAILED"
                          ELSE "EFFECT_LEASE_RECOVERED"])
    /\ UNCHANGED <<held, clock>>

\* A worker process dies, or drops a lease whose calls were refused.
Forget(w) ==
    /\ \E l \in held : l.worker = w
    /\ held' = {l \in held : l.worker # w}
    /\ UNCHANGED <<rows, stream, clock>>

Tick == /\ clock < 2 * MaxSec + 1
        /\ clock' = clock + 1
        /\ UNCHANGED <<rows, stream, held>>

EnqueueStep == \E e \in Effects, max \in 1..MaxAttempts, at \in CallStamps :
                 \E avail \in {at} \cup {Later(at, d) : d \in RetryDelays} :
                    Enqueue(e, max, at, avail)
ClaimStep == \E w \in Workers, at \in CallStamps, n \in LeaseSeconds, limit \in 1..MaxLimit :
                \E S \in SUBSET Effects :
                   FirstAvailable(S, at, limit) /\ Claim(w, at, n, S)
SucceedStep == \E l \in held, at \in CallStamps : Succeed(l, at)
FailStep == \E l \in held, d \in RetryDelays, at \in CallStamps : Fail(l, d, at)
RecoverStep == \E at \in CallStamps : RecoverExpired(at)
ForgetStep == \E w \in Workers : Forget(w)

Next == EnqueueStep \/ ClaimStep \/ SucceedStep \/ FailStep \/ RecoverStep
            \/ ForgetStep \/ Tick

Spec == Init /\ [][Next]_vars

-----------------------------------------------------------------------------
(* Properties                                                              *)

\* Every variable has its type; a row without an effect is the empty row.
TypeOK == /\ rows \in [Effects -> Row]
          /\ stream \in [Effects -> Seq(Event)]
          /\ held \subseteq Lease
          /\ clock \in 0..(2 * MaxSec + 1)

\* The retry budget is respected: claim never compares attempt_count with
\* max_attempts, so this rests on fail and recover_expired making every
\* exhausted effect terminal before a claim could see it again.
BudgetRespected ==
    \A e \in Effects : /\ rows[e].attempts <= rows[e].max
                       /\ rows[e].status = "PENDING" => rows[e].attempts < rows[e].max

\* At any instant at most one worker holds an unexpired lease on an effect:
\* _require_lease, recover_expired and claim decide on timestamps taken before
\* the write lock, and a worker whose lease was recovered is never told.
Live(l) == clock < Instant(l.expires)
ExclusiveLease ==
    \A l, k \in held : l.effect = k.effect /\ Live(l) /\ Live(k) => l = k

\* A lease is fenced: once an effect was granted again, no holder of an older
\* lease settles it or schedules its retry any more.
FencedSettlement ==
    [][\A l \in held \ held' :
          rows'[l.effect] # rows[l.effect] =>
             \A k \in held : k.effect = l.effect => k.attempt <= l.attempt]_vars

\* The ledger stream of an effect is a legal delivery history that ends where
\* the row stands: enqueued once, then grants that each end at most once, one
\* grant per attempt, and nothing after a terminal event.
Ends == {"EFFECT_SUCCEEDED", "EFFECT_RETRY_SCHEDULED", "EFFECT_LEASE_RECOVERED",
         "EFFECT_TERMINALLY_FAILED"}
StatusAfter(kind) ==
    CASE kind = "EFFECT_LEASED" -> "LEASED"
      [] kind = "EFFECT_SUCCEEDED" -> "SUCCEEDED"
      [] kind = "EFFECT_TERMINALLY_FAILED" -> "TERMINAL_FAILED"
      [] OTHER -> "PENDING"
LegalHistory(h) ==
    \A i \in 1..Len(h) :
        /\ h[i].kind = "EFFECT_ENQUEUED" <=> i = 1
        /\ i > 1 => /\ StatusAfter(h[i - 1].kind) \notin Terminal
                    /\ h[i].kind \in Ends <=> h[i - 1].kind = "EFFECT_LEASED"
                    /\ h[i].attempt = h[i - 1].attempt +
                                         (IF h[i].kind = "EFFECT_LEASED" THEN 1 ELSE 0)
LedgerTellsTheRow ==
    \A e \in Effects :
        /\ rows[e].status = "NONE" <=> stream[e] = <<>>
        /\ LegalHistory(stream[e])
        /\ stream[e] # <<>> =>
              LET last == stream[e][Len(stream[e])]
              IN /\ rows[e].status = StatusAfter(last.kind)
                 /\ rows[e].attempts = last.attempt

\* recover_expired ends only leases that have expired at the instant it is
\* given.  It compares text, so this needs Formats = {"us"}.
RecoversOnlyExpired ==
    [][\A e \in Effects :
          (rows[e].status = "LEASED" /\ Len(stream'[e]) > Len(stream[e])
             /\ stream'[e][Len(stream'[e])].kind = "EFFECT_LEASE_RECOVERED")
             => Instant(rows[e].expires) <= clock]_vars

\* The outbox implements the timeless lease queue.
Queue == INSTANCE LeaseQueue WITH
            Budgets <- 1..MaxAttempts,
            phase <- [e \in Effects |-> rows[e].status],
            attempts <- [e \in Effects |-> rows[e].attempts],
            budget <- [e \in Effects |-> rows[e].max]
KeepsQueuePromise == Queue!Spec
=============================================================================
