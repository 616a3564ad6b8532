------------------------- MODULE AdoptionExecution -------------------------
(***************************************************************************)
(* C3AdoptionExecutionService and C3AdoptionExecutionWorker of             *)
(* src/starcom/adoption_execution.py, composed with the durable outbox     *)
(* (LeaseQueue, the promise DurableOutbox keeps) and with the file         *)
(* operations of the sandbox executor.                                     *)
(*                                                                         *)
(* Worker processes run process_next.  Between two of its database         *)
(* transactions or file writes a worker may be overtaken: its lease may    *)
(* expire and be recovered, another worker may claim the same effect, or   *)
(* the process may die.  process_next passes one timestamp to claim and to *)
(* succeed, so a lease never looks expired to its own worker: only a       *)
(* recovery takes it away.                                                 *)
(***************************************************************************)
EXTENDS Naturals, Sequences

CONSTANTS Executions,    \* execution ids; each has one outbox effect
          Workers,       \* worker processes
          Selected,      \* the workers configured with the requests' executor_id
          Attested,      \* the workers whose build matches the registered descriptor
          Overtaking,    \* TRUE: a lease may expire while its worker is still at work
          MaxCrashes,    \* bound on worker crashes
          MaxFaults      \* bound on I/O errors and edits of the source tree

NoExecution == "none"

ASSUME ExecutionAssumption == /\ NoExecution \notin Executions
                              /\ Selected \subseteq Workers
                              /\ Attested \subseteq Workers
                              /\ Overtaking \in BOOLEAN
                              /\ MaxCrashes \in Nat
                              /\ MaxFaults \in Nat

VARIABLES phase, attempts, budget,   \* the outbox, see LeaseQueue
          pointer, journal,          \* the sandbox, see SandboxExecutor
          log,       \* log[e]: statuses in c3_adoption_execution_transitions
          settled,   \* settled[e]: the terminal status the effect's result digest covers
          enabled,   \* the registry has the executor ENABLED and its evidence intact
          source,    \* the source tree matches the plan's source digest
          worker,    \* worker[w]: where process_next of w is
          crashes, faults

queue == <<phase, attempts, budget>>
sandbox == <<pointer, journal>>
environment == <<enabled, source>>
bounds == <<crashes, faults>>
vars == <<queue, sandbox, log, settled, environment, worker, bounds>>

MaxAttempts == 3          \* request_execution enqueues with max_attempts=3

Queue == INSTANCE LeaseQueue WITH Effects <- Executions, Budgets <- {MaxAttempts}
Sandbox == INSTANCE SandboxExecutor

Terminal == {"SUCCEEDED", "FAILED_NO_EFFECT", "FAILED_ROLLED_BACK", "ROLLBACK_FAILED"}
Status == {"REQUESTED", "RUNNING"} \cup Terminal
Last(s) == s[Len(s)]
Current(e) == IF log[e] = <<>> THEN "NONE" ELSE Last(log[e])

Places == {"idle", "claimed", "gate", "attest", "start", "validate", "execute",
           "install", "journal", "rollback", "restore", "mark", "append", "settle"}
Idle == [at |-> "idle", e |-> NoExecution, attempt |-> 0, seen |-> "NONE",
         outcome |-> "NONE", entry |-> Sandbox!NoEntry]

Init == /\ Queue!Init
        /\ Sandbox!SandboxInit
        /\ log = [e \in Executions |-> <<>>]
        /\ settled = [e \in Executions |-> "NONE"]
        /\ enabled = TRUE
        /\ source = TRUE
        /\ worker = [w \in Workers |-> Idle]
        /\ crashes = 0
        /\ faults = 0

\* Worker w goes on at place p.
Go(w, p) == worker' = [worker EXCEPT ![w].at = p]
\* Worker w goes on to append the terminal status o.
Conclude(w, o) == worker' = [worker EXCEPT ![w].at = "append", ![w].outcome = o]
\* process_next ends, by returning or by raising; the lease object is gone.
Leave(w) == worker' = [worker EXCEPT ![w] = Idle]
\* An I/O error or an exception of the environment.
Fault == faults < MaxFaults /\ faults' = faults + 1

-----------------------------------------------------------------------------
(* The service                                                             *)

\* request_execution: request row, transition 1 and outbox effect in one
\* transaction.  A replay of the same material changes nothing.
Request(e) ==
    /\ log[e] = <<>>
    /\ log' = [log EXCEPT ![e] = <<"REQUESTED">>]
    /\ Queue!Enqueue({e}, MaxAttempts)
    /\ UNCHANGED <<sandbox, settled, environment, worker, bounds>>

\* Bug: RUNNING is accepted after a terminal status.
AppendableAgain(e, status) ==
    IF status \in {"RUNNING", "FAILED_NO_EFFECT"} THEN log[e] # <<>>
    ELSE Current(e) = "RUNNING"

\* append_transition accepts status after the current one.
Appendable(e, status) ==
    IF status \in {"RUNNING", "FAILED_NO_EFFECT"} THEN Current(e) \in {"REQUESTED", "RUNNING"}
    ELSE Current(e) = "RUNNING"

\* append_transition: the status is read before the transaction and the
\* sequence number is checked in it, so it takes effect on the status it read
\* or raises.
AppendTransition(e, status) ==
    /\ Appendable(e, status)
    /\ log' = [log EXCEPT ![e] = Append(@, status)]

\* verify_execution finds no defect, evidence apart: a terminal execution
\* needs a settled effect, any other a pending or leased one.
Verified(e) == IF Current(e) \in Terminal
               THEN phase[e] = "SUCCEEDED" /\ settled[e] = Current(e)
               ELSE phase[e] \in {"PENDING", "LEASED"}

-----------------------------------------------------------------------------
(* The worker: process_next from top to bottom                             *)

Claim(w, e) ==
    /\ worker[w].at = "idle"
    /\ Queue!Claim({e})
    /\ worker' = [worker EXCEPT ![w] = [Idle EXCEPT !.at = "claimed", !.e = e,
                                                    !.attempt = attempts[e] + 1]]
    /\ UNCHANGED <<sandbox, log, settled, environment, bounds>>

\* Bug: a redelivered execution that already ended is dropped unsettled.
ReadAndDrop(w) ==
    LET e == worker[w].e
    IN /\ worker[w].at = "claimed"
       /\ worker' = IF Current(e) \in Terminal THEN [worker EXCEPT ![w] = Idle]
                    ELSE [worker EXCEPT ![w].at = "gate", ![w].seen = Current(e),
                                        ![w].outcome = Current(e)]
       /\ UNCHANGED <<queue, sandbox, log, settled, environment, bounds>>

\* get_execution: the record the rest of process_next decides on.
Read(w) ==
    LET e == worker[w].e
    IN /\ worker[w].at = "claimed"
       /\ worker' = [worker EXCEPT ![w].at = IF Current(e) \in Terminal THEN "settle" ELSE "gate",
                                   ![w].seen = Current(e), ![w].outcome = Current(e)]
       /\ UNCHANGED <<queue, sandbox, log, settled, environment, bounds>>

\* verify_execution reports a defect, or the worker runs another executor:
\* _terminalize_gate_failure without rollback authority.
GateFails(w) ==
    /\ worker[w].at = "gate"
    /\ ~Verified(worker[w].e) \/ w \notin Selected
    /\ Conclude(w, IF worker[w].seen = "RUNNING" THEN "ROLLBACK_FAILED" ELSE "FAILED_NO_EFFECT")
    /\ UNCHANGED <<queue, sandbox, log, settled, environment, bounds>>

GatePasses(w) ==
    /\ worker[w].at = "gate"
    /\ Verified(worker[w].e) /\ w \in Selected
    /\ Go(w, "attest")
    /\ UNCHANGED <<queue, sandbox, log, settled, environment, bounds>>

\* The registry does not attest the executor of w.  In a recovered RUNNING
\* execution the earlier attempt is rolled back.
AttestationFails(w) ==
    /\ worker[w].at = "attest"
    /\ ~enabled \/ w \notin Attested
    /\ IF worker[w].seen = "RUNNING" THEN Go(w, "rollback") ELSE Conclude(w, "FAILED_NO_EFFECT")
    /\ UNCHANGED <<queue, sandbox, log, settled, environment, bounds>>

\* Bug: the RUNNING transition is left out.
AttestUnannounced(w) ==
    /\ worker[w].at = "attest"
    /\ enabled /\ w \in Attested
    /\ Go(w, "validate")
    /\ UNCHANGED <<queue, sandbox, log, settled, environment, bounds>>

Attest(w) ==
    /\ worker[w].at = "attest"
    /\ enabled /\ w \in Attested
    /\ Go(w, "start")
    /\ UNCHANGED <<queue, sandbox, log, settled, environment, bounds>>

\* The RUNNING transition; its exceptions leave process_next.
Start(w) ==
    /\ worker[w].at = "start"
    /\ IF Appendable(worker[w].e, "RUNNING")
       THEN AppendTransition(worker[w].e, "RUNNING") /\ Go(w, "validate")
       ELSE Leave(w) /\ UNCHANGED log
    /\ UNCHANGED <<queue, sandbox, settled, environment, bounds>>

\* executor.validate compares the source tree with the plan.
Validate(w) ==
    /\ worker[w].at = "validate"
    /\ IF source THEN Go(w, "execute") ELSE Conclude(w, "FAILED_NO_EFFECT")
    /\ UNCHANGED <<queue, sandbox, log, settled, environment, bounds>>

\* execute finds its journal entry and returns the result stored there.
Replay(w) ==
    /\ worker[w].at = "execute"
    /\ source
    /\ Sandbox!Journalled(worker[w].e)
    /\ Conclude(w, "SUCCEEDED")
    /\ UNCHANGED <<queue, sandbox, log, settled, environment, bounds>>

\* execute finds no journal entry and keeps the bytes of current.json.
LookUp(w) ==
    /\ worker[w].at = "execute"
    /\ source
    /\ ~Sandbox!Journalled(worker[w].e)
    /\ worker' = [worker EXCEPT ![w].at = "install", ![w].entry.previous = pointer]
    /\ UNCHANGED <<queue, sandbox, log, settled, environment, bounds>>

\* Bug: success is reported before the journal is written.
MovePointerOnly(w) ==
    /\ worker[w].at = "install"
    /\ Sandbox!Activate(worker[w].e)
    /\ Conclude(w, "SUCCEEDED")
    /\ UNCHANGED <<queue, log, settled, environment, bounds>>

\* The release is in place; current.json is replaced.
MovePointer(w) ==
    /\ worker[w].at = "install"
    /\ Sandbox!Activate(worker[w].e)
    /\ Go(w, "journal")
    /\ UNCHANGED <<queue, log, settled, environment, bounds>>

\* execute raises before it moved the pointer: it validates once more, and
\* copying the release may fail.
ExecuteRaises(w) ==
    /\ \/ worker[w].at = "execute" /\ ~source /\ UNCHANGED faults
       \/ worker[w].at = "install" /\ Fault
    /\ Go(w, "rollback")
    /\ UNCHANGED <<queue, sandbox, log, settled, environment, crashes>>

WriteJournal(w) ==
    /\ worker[w].at = "journal"
    /\ Sandbox!RecordExecuted(worker[w].e, worker[w].entry.previous)
    /\ Conclude(w, "SUCCEEDED")
    /\ UNCHANGED <<queue, log, settled, environment, bounds>>

\* The journal cannot be written although the pointer has moved.
JournalRaises(w) ==
    /\ worker[w].at = "journal"
    /\ Fault
    /\ Go(w, "rollback")
    /\ UNCHANGED <<queue, sandbox, log, settled, environment, crashes>>

\* rollback: nothing is journalled, or the stored rollback result is returned.
RollbackReplays(w) ==
    LET state == journal[worker[w].e].state
    IN /\ worker[w].at = "rollback"
       /\ state # "EXECUTED"
       /\ Conclude(w, IF state = "NONE" THEN "ROLLBACK_FAILED" ELSE "FAILED_ROLLED_BACK")
       /\ UNCHANGED <<queue, sandbox, log, settled, environment, bounds>>

RollbackLoads(w) ==
    LET entry == journal[worker[w].e]
    IN /\ worker[w].at = "rollback"
       /\ entry.state = "EXECUTED"
       /\ worker' = [worker EXCEPT ![w].at = "restore", ![w].entry = entry]
       /\ UNCHANGED <<queue, sandbox, log, settled, environment, bounds>>

RestorePointer(w) ==
    /\ worker[w].at = "restore"
    /\ Sandbox!Restore(worker[w].entry)
    /\ Go(w, "mark")
    /\ UNCHANGED <<queue, log, settled, environment, bounds>>

\* Bug: the success of the rollback is reported as success of the execution.
MarkSucceeded(w) ==
    /\ worker[w].at = "mark"
    /\ Sandbox!RecordRolledBack(worker[w].e, worker[w].entry)
    /\ Conclude(w, "SUCCEEDED")
    /\ UNCHANGED <<queue, log, settled, environment, bounds>>

MarkRolledBack(w) ==
    /\ worker[w].at = "mark"
    /\ Sandbox!RecordRolledBack(worker[w].e, worker[w].entry)
    /\ Conclude(w, "FAILED_ROLLED_BACK")
    /\ UNCHANGED <<queue, log, settled, environment, bounds>>

RollbackRaises(w) ==
    /\ worker[w].at \in {"restore", "mark"}
    /\ Fault
    /\ Conclude(w, "ROLLBACK_FAILED")
    /\ UNCHANGED <<queue, sandbox, log, settled, environment, crashes>>

\* Bug: the refusal of append_transition is swallowed.
AppendOrSettle(w) ==
    /\ worker[w].at = "append"
    /\ IF Appendable(worker[w].e, worker[w].outcome)
       THEN AppendTransition(worker[w].e, worker[w].outcome) ELSE UNCHANGED log
    /\ Go(w, "settle")
    /\ UNCHANGED <<queue, sandbox, settled, environment, bounds>>

\* _terminalize, first transaction.
AppendTerminal(w) ==
    /\ worker[w].at = "append"
    /\ IF Appendable(worker[w].e, worker[w].outcome)
       THEN AppendTransition(worker[w].e, worker[w].outcome) /\ Go(w, "settle")
       ELSE Leave(w) /\ UNCHANGED log
    /\ UNCHANGED <<queue, sandbox, settled, environment, bounds>>

\* _terminalize, second transaction: the effect succeeds with the digest of
\* the terminal record, or the lease is no longer this worker's.
Settle(w) ==
    LET e == worker[w].e
    IN /\ worker[w].at = "settle"
       /\ \/ /\ Queue!Succeed(e, worker[w].attempt)
             /\ settled' = [settled EXCEPT ![e] = worker[w].outcome]
          \/ /\ ~(phase[e] = "LEASED" /\ attempts[e] = worker[w].attempt)
             /\ UNCHANGED <<queue, settled>>
       /\ Leave(w)
       /\ UNCHANGED <<sandbox, log, environment, bounds>>

-----------------------------------------------------------------------------
(* The environment                                                         *)

\* Worker w still works under the current lease of e.
AtWork(w, e) == worker[w].e = e /\ worker[w].attempt = attempts[e]

\* recover_expired: some leases have expired.
Recover(S) ==
    /\ Queue!Release(S)
    /\ Overtaking \/ \A w \in Workers, e \in S : ~AtWork(w, e)
    /\ UNCHANGED <<sandbox, log, settled, environment, worker, bounds>>

Crash(w) ==
    /\ worker[w].at # "idle"
    /\ crashes < MaxCrashes
    /\ crashes' = crashes + 1
    /\ Leave(w)
    /\ UNCHANGED <<queue, sandbox, log, settled, environment, faults>>

\* C3ExecutorRegistry.revoke: there is no way back from REVOKED.
Revoke ==
    /\ enabled
    /\ enabled' = FALSE
    /\ UNCHANGED <<queue, sandbox, log, settled, source, worker, bounds>>

\* Somebody edits the source tree, or restores it.
EditSource ==
    /\ Fault
    /\ source' = ~source
    /\ UNCHANGED <<queue, sandbox, log, settled, enabled, worker, crashes>>

WorkerStep(w) ==
    \/ Read(w) \/ GateFails(w) \/ GatePasses(w) \/ AttestationFails(w) \/ Attest(w)
    \/ Start(w) \/ Validate(w)
    \/ Replay(w) \/ LookUp(w) \/ MovePointer(w) \/ ExecuteRaises(w)
    \/ WriteJournal(w) \/ JournalRaises(w)
    \/ RollbackReplays(w) \/ RollbackLoads(w) \/ RestorePointer(w) \/ MarkRolledBack(w)
    \/ RollbackRaises(w)
    \/ AppendTerminal(w) \/ Settle(w)

Next == \/ \E e \in Executions : Request(e)
        \/ \E w \in Workers, e \in Executions : Claim(w, e)
        \/ \E w \in Workers : WorkerStep(w) \/ Crash(w)
        \/ \E S \in SUBSET Executions : Recover(S)
        \/ Revoke \/ EditSource

Spec == Init /\ [][Next]_vars

-----------------------------------------------------------------------------
(* Properties                                                              *)

Worker == [at : Places, e : Executions \cup {NoExecution}, attempt : 0..MaxAttempts,
           seen : Status \cup {"NONE"}, outcome : Status \cup {"NONE"},
           entry : Sandbox!Entry]

\* Every variable has its type, and a working worker has an execution.
TypeOK == /\ Sandbox!SandboxTypeOK
          /\ phase \in [Executions -> Queue!Phases]
          /\ attempts \in [Executions -> 0..MaxAttempts]
          /\ budget \in [Executions -> {0, MaxAttempts}]
          /\ log \in [Executions -> Seq(Status)]
          /\ settled \in [Executions -> Terminal \cup {"NONE"}]
          /\ enabled \in BOOLEAN /\ source \in BOOLEAN
          /\ worker \in [Workers -> Worker]
          /\ \A w \in Workers : worker[w].at # "idle" => worker[w].e \in Executions
          /\ crashes \in 0..MaxCrashes /\ faults \in 0..MaxFaults

\* The record of an execution, as the readers of the tables see it.
EffectOf(p) == CASE p = "NONE" -> "NONE"
                 [] p \in {"PENDING", "LEASED"} -> "OPEN"
                 [] p = "SUCCEEDED" -> "SUCCEEDED"
                 [] p = "TERMINAL_FAILED" -> "DEAD"

Record == INSTANCE ExecutionRecord
          WITH status <- [e \in Executions |-> Current(e)],
               outbox <- [e \in Executions |-> EffectOf(phase[e])]

\* Workers that overtake each other, die and repeat what others did, in many
\* transactions and file writes, keep the promise of the tables: an execution
\* goes forward to its only end, and its effect is completed after that.
KeepsRecord == Record!Spec

\* The transitions of an execution are a legal history whatever workers
\* overtake each other: requested once, at most one terminal status, which is
\* last, and every effectful outcome preceded by RUNNING.
LogLegal ==
    \A e \in Executions : \A i \in 1..Len(log[e]) :
        /\ log[e][i] = "REQUESTED" <=> i = 1
        /\ log[e][i] \in Terminal => i = Len(log[e])
        /\ log[e][i] \in Terminal \ {"FAILED_NO_EFFECT"} => i > 1 /\ log[e][i - 1] = "RUNNING"

\* The outbox and the execution table, written by two transactions, never
\* contradict each other: a settled effect carries the digest of the terminal
\* status its execution has, and has it for ever.
SettledAsLogged ==
    \A e \in Executions : /\ phase[e] = "SUCCEEDED" <=> settled[e] # "NONE"
                          /\ settled[e] # "NONE" => settled[e] = Current(e)

\* Nothing happens in the sandbox on behalf of an execution that was not
\* durably announced as RUNNING before.
EffectAnnounced ==
    \A e \in Executions :
        pointer = e \/ Sandbox!Journalled(e)
            => \E i \in 1..Len(log[e]) : log[e][i] = "RUNNING"

\* A success, however often the work was repeated and by whomever, stands for
\* an installation that took place and was journalled.
SuccessWasJournalled ==
    \A e \in Executions : Current(e) = "SUCCEEDED" => Sandbox!Journalled(e)

\* No false success: an execution that ends SUCCEEDED has not been rolled back.
NoFalseSuccess ==
    \A e \in Executions : Current(e) = "SUCCEEDED" => journal[e].state = "EXECUTED"

\* An execution that ends FAILED_NO_EFFECT has left nothing behind: it was not
\* installed by an earlier attempt either.
NoEffectIsTrue ==
    \A e \in Executions :
        Current(e) = "FAILED_NO_EFFECT" => pointer # e /\ ~Sandbox!Journalled(e)

\* A rolled back execution is not active any more.
RolledBackIsGone ==
    \A e \in Executions : Current(e) = "FAILED_ROLLED_BACK" => pointer # e
=============================================================================
