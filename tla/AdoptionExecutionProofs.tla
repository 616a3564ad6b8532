---------------------- MODULE AdoptionExecutionProofs ----------------------
(***************************************************************************)
(* Theorems about AdoptionExecution, for any numbers of executions,        *)
(* workers, crashes and faults, and with leases that expire under their    *)
(* workers (Overtaking = TRUE) as well as without.  What a repeated        *)
(* attempt may do to the sandbox is proved for leases that outlive the     *)
(* work: the theorems that need it assume Overtaking = FALSE.              *)
(***************************************************************************)
EXTENDS AdoptionExecution, TLAPS

-----------------------------------------------------------------------------
(* How the worker operators change one worker                              *)

\* A worker that goes on keeps its execution, attempt, status, outcome and
\* journal entry.
LEMMA GoType ==
    ASSUME worker \in [Workers -> Worker], NEW w \in Workers, NEW p \in Places, Go(w, p)
    PROVE  /\ worker' = [worker EXCEPT ![w] = [worker[w] EXCEPT !.at = p]]
           /\ worker' \in [Workers -> Worker]
  <1>1. [worker[w] EXCEPT !.at = p] \in Worker
    BY DEF Worker
  <1> QED
    BY <1>1 DEF Go

\* A worker that decides on an outcome keeps its type and goes on to append it.
LEMMA ConcludeType ==
    ASSUME worker \in [Workers -> Worker], NEW w \in Workers, NEW o \in Terminal, Conclude(w, o)
    PROVE  /\ worker' = [worker EXCEPT ![w] = [worker[w] EXCEPT !.at = "append", !.outcome = o]]
           /\ worker' \in [Workers -> Worker]
  <1>1. [worker[w] EXCEPT !.at = "append", !.outcome = o] \in Worker
    BY DEF Worker, Places, Status
  <1> QED
    BY <1>1 DEF Conclude

\* A worker that leaves its effect is idle again.
LEMMA LeaveType ==
    ASSUME worker \in [Workers -> Worker], NEW w \in Workers, Leave(w)
    PROVE  /\ worker' = [worker EXCEPT ![w] = Idle]
           /\ worker' \in [Workers -> Worker]
  BY DEF Leave, Worker, Idle, Places, MaxAttempts,
         Sandbox!Entry, Sandbox!NoEntry, Sandbox!NoRelease

-----------------------------------------------------------------------------
(* The outbox                                                              *)

\* An effect that can be claimed has budget left.
Affordable == \A e \in Executions : /\ phase[e] = "NONE" => attempts[e] = 0
                                    /\ phase[e] = "PENDING" => attempts[e] < budget[e]

\* A worker that is about to end an execution has a terminal status for it.
Concluding(r) == r.at \in {"append", "settle"} => r.outcome \in Terminal

Typed == TypeOK /\ Affordable /\ \A w \in Workers : Concluding(worker[w])

\* append_transition extends the history of one execution by one status.
LEMMA AppendType ==
    ASSUME TypeOK, NEW e \in Executions, NEW status \in Status, AppendTransition(e, status)
    PROVE  log' = [log EXCEPT ![e] = Append(log[e], status)]
           /\ log' \in [Executions -> Seq(Status)]
  BY DEF AppendTransition, TypeOK

\* The status of an execution after append_transition.
LEMMA AppendedStatus ==
    ASSUME TypeOK, NEW e \in Executions, NEW status \in Status, AppendTransition(e, status)
    PROVE  Current(e)' = status /\ log'[e] # <<>>
  <1>1. log'[e] = Append(log[e], status) /\ log[e] \in Seq(Status)
    BY AppendType DEF TypeOK
  <1> QED
    BY <1>1 DEF Current, Last

\* Each of these steps of a worker changes nothing but where the worker is.
Pondering(w) == \/ Read(w) \/ GateFails(w) \/ GatePasses(w) \/ AttestationFails(w) \/ Attest(w)
                \/ Validate(w) \/ Replay(w) \/ LookUp(w) \/ ExecuteRaises(w) \/ JournalRaises(w)
                \/ RollbackReplays(w) \/ RollbackLoads(w) \/ RollbackRaises(w)

\* Nothing durable changes in such a step.
LEMMA PonderingKeeps ==
    ASSUME NEW w \in Workers, Pondering(w)
    PROVE  UNCHANGED <<queue, sandbox, log, settled, environment, crashes>>
           /\ worker[w].at # "idle"
  BY DEF Pondering, Read, GateFails, GatePasses, AttestationFails, Attest,
         Validate, Replay, LookUp, ExecuteRaises, JournalRaises,
         RollbackReplays, RollbackLoads, RollbackRaises, bounds

\* The faults such a step injects stay within the bound.
LEMMA PonderingFaults ==
    ASSUME TypeOK, ExecutionAssumption, NEW w \in Workers, Pondering(w)
    PROVE  faults' \in 0..MaxFaults
  BY DEF Pondering, Read, GateFails, GatePasses, AttestationFails, Attest,
         Validate, Replay, LookUp, ExecuteRaises, JournalRaises, Fault,
         RollbackReplays, RollbackLoads, RollbackRaises, bounds, TypeOK, ExecutionAssumption

\* Where a pondering worker ends: the same execution and attempt.
LEMMA PonderingWorker ==
    ASSUME TypeOK, NEW w \in Workers, Pondering(w)
    PROVE  \E r \in Worker : /\ worker' = [worker EXCEPT ![w] = r]
                             /\ r.e = worker[w].e
                             /\ Concluding(r)
  <1> USE DEF TypeOK
  <1>0. worker[w] \in Worker /\ worker[w].at # "idle" /\ worker[w].e \in Executions
    BY PonderingKeeps
  <1> DEFINE e == worker[w].e
  <1>1. CASE Read(w)
    <2>1. Current(e) \in Status \cup {"NONE"}
      BY <1>0 DEF Current, Last
    <2> DEFINE r == [worker[w] EXCEPT !.at = IF Current(e) \in Terminal THEN "settle" ELSE "gate",
                                      !.seen = Current(e), !.outcome = Current(e)]
    <2>2. worker' = [worker EXCEPT ![w] = r]
      BY <1>1 DEF Read
    <2>3. \A c \in Status \cup {"NONE"} : \A p \in {"settle", "gate"} :
             [worker[w] EXCEPT !.at = p, !.seen = c, !.outcome = c] \in Worker
      BY <1>0 DEF Worker, Places
    <2>4. r \in Worker /\ r.e = e /\ Concluding(r)
      BY <2>1, <2>3, <1>0 DEF Worker, Concluding
    <2> QED
      BY <2>2, <2>4
  <1>2. CASE \E p \in Places \ {"append", "settle"} : Go(w, p)
    <2>1. PICK p \in Places \ {"append", "settle"} : Go(w, p)
      BY <1>2
    <2> DEFINE r == [worker[w] EXCEPT !.at = p]
    <2>2. r \in Worker /\ r.e = e /\ Concluding(r)
      BY <1>0 DEF Worker, Concluding
    <2> QED
      BY <2>1, <2>2, GoType
  <1>3. CASE \E o \in Terminal : Conclude(w, o)
    <2>1. PICK o \in Terminal : Conclude(w, o)
      BY <1>3
    <2> DEFINE r == [worker[w] EXCEPT !.at = "append", !.outcome = o]
    <2>2. r \in Worker /\ r.e = e /\ Concluding(r)
      BY <1>0 DEF Worker, Places, Status, Concluding
    <2> QED
      BY <2>1, <2>2, ConcludeType
  <1>4. CASE LookUp(w)
    <2>1. \A p \in Executions \cup {Sandbox!NoRelease} :
             [worker[w].entry EXCEPT !.previous = p] \in Sandbox!Entry
      BY <1>0 DEF Worker, Sandbox!Entry
    <2> DEFINE r == [worker[w] EXCEPT !.at = "install", !.entry = [worker[w].entry EXCEPT !.previous = pointer]]
    <2>2. worker' = [worker EXCEPT ![w] = r]
      BY <1>4 DEF LookUp
    <2>3. \A n \in Sandbox!Entry : [worker[w] EXCEPT !.at = "install", !.entry = n] \in Worker
      BY <1>0 DEF Worker, Places
    <2>4. r \in Worker /\ r.e = e /\ Concluding(r)
      BY <2>1, <2>3, <1>0 DEF Worker, Concluding, Sandbox!SandboxTypeOK
    <2> QED
      BY <2>2, <2>4
  <1>5. CASE RollbackLoads(w)
    <2> DEFINE r == [worker[w] EXCEPT !.at = "restore", !.entry = journal[e]]
    <2>2. worker' = [worker EXCEPT ![w] = r]
      BY <1>5 DEF RollbackLoads
    <2>3. \A n \in Sandbox!Entry : [worker[w] EXCEPT !.at = "restore", !.entry = n] \in Worker
      BY <1>0 DEF Worker, Places
    <2>4. r \in Worker /\ r.e = e /\ Concluding(r)
      BY <2>3, <1>0 DEF Worker, Concluding, Sandbox!SandboxTypeOK
    <2> QED
      BY <2>2, <2>4
  <1>6. Pondering(w) => \/ Read(w) \/ LookUp(w) \/ RollbackLoads(w)
                        \/ \E p \in Places \ {"append", "settle"} : Go(w, p)
                        \/ \E o \in Terminal : Conclude(w, o)
    <2>1. {"attest", "rollback", "start", "execute"} \subseteq Places \ {"append", "settle"}
          /\ {"ROLLBACK_FAILED", "FAILED_NO_EFFECT", "SUCCEEDED", "FAILED_ROLLED_BACK"} \subseteq Terminal
      BY DEF Places, Terminal
    <2> QED
      BY <2>1 DEF Pondering, GateFails, GatePasses, AttestationFails, Attest,
         Validate, Replay, ExecuteRaises, JournalRaises, RollbackReplays, RollbackRaises
  <1> QED
    BY <1>1, <1>2, <1>3, <1>4, <1>5, <1>6

\* The steps of a worker that write something.
Writing(w) == \/ Start(w) \/ MovePointer(w) \/ WriteJournal(w) \/ RestorePointer(w)
              \/ MarkRolledBack(w) \/ AppendTerminal(w) \/ Settle(w)

\* A step of a worker either ponders or writes.
LEMMA StepsSplit == \A w \in Workers : WorkerStep(w) <=> Pondering(w) \/ Writing(w)
  BY DEF WorkerStep, Pondering, Writing

\* Where a writing worker ends: at the same execution, or idle.
LEMMA WritingWorker ==
    ASSUME Typed, NEW w \in Workers, Writing(w)
    PROVE  \E r \in Worker : /\ worker' = [worker EXCEPT ![w] = r]
                             /\ r = Idle \/ (r.e = worker[w].e /\ worker[w].e \in Executions)
                             /\ Concluding(r)
  <1> USE DEF Typed, TypeOK
  <1>1. worker[w] \in Worker /\ Idle \in Worker /\ Concluding(Idle)
    BY DEF Worker, Idle, Places, MaxAttempts, Concluding,
           Sandbox!Entry, Sandbox!NoEntry, Sandbox!NoRelease
  <1>2. worker[w].at # "idle" /\ Concluding(worker[w])
    BY DEF Writing, Start, MovePointer, WriteJournal, RestorePointer, MarkRolledBack,
           AppendTerminal, Settle
  <1> DEFINE Moved == \E r \in Worker :
                         /\ worker' = [worker EXCEPT ![w] = r]
                         /\ r = Idle \/ (r.e = worker[w].e /\ worker[w].e \in Executions)
                         /\ Concluding(r)
  <1>3. ASSUME Leave(w) PROVE Moved
    <2>1. worker' = [worker EXCEPT ![w] = Idle]
      BY <1>3 DEF Leave
    <2> QED
      BY <1>1, <2>1
  <1>4. ASSUME NEW p \in Places, Go(w, p), p = "settle" => worker[w].outcome \in Terminal,
               p # "append"
        PROVE  Moved
    <2> DEFINE r == [worker[w] EXCEPT !.at = p]
    <2>1. r \in Worker /\ r.e = worker[w].e /\ Concluding(r)
      BY <1>1, <1>4 DEF Worker, Concluding
    <2> QED
      BY <2>1, <1>2, <1>4, GoType
  <1>5. ASSUME NEW o \in Terminal, Conclude(w, o) PROVE Moved
    <2> DEFINE r == [worker[w] EXCEPT !.at = "append", !.outcome = o]
    <2>1. r \in Worker /\ r.e = worker[w].e /\ Concluding(r)
      BY <1>1 DEF Worker, Places, Status, Concluding
    <2> QED
      BY <2>1, <1>2, <1>5, ConcludeType
  <1> HIDE DEF Moved
  <1>6. ASSUME Start(w) PROVE Moved
    BY <1>3, <1>4, <1>6 DEF Start, Places
  <1>7. ASSUME MovePointer(w) \/ RestorePointer(w) PROVE Moved
    BY <1>4, <1>7 DEF MovePointer, RestorePointer, Places
  <1>8. ASSUME WriteJournal(w) \/ MarkRolledBack(w) PROVE Moved
    BY <1>5, <1>8 DEF WriteJournal, MarkRolledBack, Terminal
  <1>9. ASSUME AppendTerminal(w) PROVE Moved
    BY <1>2, <1>3, <1>4, <1>9 DEF AppendTerminal, Places, Concluding
  <1>10. ASSUME Settle(w) PROVE Moved
    BY <1>3, <1>10 DEF Settle
  <1>11. Moved
    BY <1>6, <1>7, <1>8, <1>9, <1>10 DEF Writing
  <1> QED
    BY <1>11 DEF Moved

-----------------------------------------------------------------------------
(* Types                                                                   *)

\* A claimed effect has budget left, so its attempts stay within it.
LEMMA ClaimType ==
    ASSUME Typed, NEW e \in Executions, Queue!Claim({e})
    PROVE  /\ phase' \in [Executions -> Queue!Phases]
           /\ attempts' \in [Executions -> 0..MaxAttempts]
           /\ budget' \in [Executions -> {0, MaxAttempts}]
           /\ attempts[e] + 1 \in 0..MaxAttempts
           /\ Affordable'
  <1> USE DEF Typed, TypeOK, Affordable, Queue!Claim, Queue!Phases, MaxAttempts
  <1>1. /\ phase[e] = "PENDING" /\ attempts[e] + 1 \in 0..MaxAttempts
        /\ phase' = [phase EXCEPT ![e] = "LEASED"]
        /\ attempts' = [attempts EXCEPT ![e] = attempts[e] + 1]
        /\ budget' = budget
    <2>1. phase[e] = "PENDING" /\ attempts[e] < budget[e] /\ attempts[e] \in 0..3
          /\ (budget[e] = 0 \/ budget[e] = 3) /\ budget' = budget
      OBVIOUS
    <2>2. \A f \in Executions : f \in {e} <=> f = e
      OBVIOUS
    <2>3. /\ phase' = [phase EXCEPT ![e] = "LEASED"]
          /\ attempts' = [attempts EXCEPT ![e] = attempts[e] + 1]
      BY <2>2
    <2>4. MaxAttempts = 3 /\ attempts[e] + 1 \in 0..3
      BY <2>1
    <2> HIDE DEF Typed
    <2> QED
      BY <2>1, <2>3, <2>4
  <1> QED
    BY <1>1

\* No step breaks the types, the attempt budget or what a concluding worker holds.
LEMMA TypeInductive ==
    ASSUME ExecutionAssumption, Typed, [Next]_vars
    PROVE  Typed'
  <1> USE DEF Typed, TypeOK
  <1>1. ASSUME NEW w \in Workers, Pondering(w) PROVE Typed'
    <2>1. UNCHANGED <<queue, sandbox, log, settled, environment, crashes>>
      BY <1>1, PonderingKeeps
    <2>2. /\ worker' \in [Workers -> Worker]
          /\ \A v \in Workers : worker'[v].at # "idle" => worker'[v].e \in Executions
          /\ \A v \in Workers : Concluding(worker'[v])
      <3>1. PICK r \in Worker : /\ worker' = [worker EXCEPT ![w] = r]
                                /\ r.e = worker[w].e /\ Concluding(r)
        BY <1>1, PonderingWorker
      <3>2. worker[w].at # "idle"
        BY <1>1, PonderingKeeps
      <3> QED
        BY <3>1, <3>2
    <2>3. faults' \in 0..MaxFaults
      BY <1>1, PonderingFaults
    <2> QED
      BY <2>1, <2>2, <2>3 DEF queue, sandbox, environment, Affordable, Sandbox!SandboxTypeOK
  <1>2. ASSUME NEW w \in Workers, Writing(w) PROVE Typed'
    <2>1. /\ worker' \in [Workers -> Worker]
          /\ \A v \in Workers : worker'[v].at # "idle" => worker'[v].e \in Executions
          /\ \A v \in Workers : Concluding(worker'[v])
      <3>1. PICK r \in Worker : /\ worker' = [worker EXCEPT ![w] = r]
                                /\ r = Idle \/ (r.e = worker[w].e /\ worker[w].e \in Executions)
                                /\ Concluding(r)
        BY <1>2, WritingWorker
      <3> QED
        BY <3>1 DEF Idle
    <2>2. UNCHANGED <<enabled, source, crashes, faults>>
      BY <1>2 DEF Writing, Start, MovePointer, WriteJournal, RestorePointer, MarkRolledBack,
                  AppendTerminal, Settle, environment, bounds
    <2>3. worker[w] \in Worker /\ worker[w].e \in Executions
      BY <1>2 DEF Writing, Start, MovePointer, WriteJournal, RestorePointer, MarkRolledBack,
                  AppendTerminal, Settle
    <2>4. Sandbox!SandboxTypeOK'
      <3>1. CASE UNCHANGED sandbox
        BY <3>1 DEF sandbox, Sandbox!SandboxTypeOK
      <3>2. CASE MovePointer(w)
        BY <3>2, <2>3 DEF MovePointer, Sandbox!Activate, Sandbox!SandboxTypeOK
      <3>3. CASE WriteJournal(w)
        <4>1. [state |-> "EXECUTED", previous |-> worker[w].entry.previous] \in Sandbox!Entry
          BY <2>3 DEF Worker, Sandbox!Entry
        <4> QED
          BY <3>3, <4>1 DEF WriteJournal, Sandbox!RecordExecuted, Sandbox!SandboxTypeOK
      <3>4. CASE RestorePointer(w)
        BY <3>4, <2>3 DEF RestorePointer, Sandbox!Restore, Sandbox!SandboxTypeOK, Worker,
                          Sandbox!Entry
      <3>5. CASE MarkRolledBack(w)
        <4>1. [worker[w].entry EXCEPT !.state = "ROLLED_BACK"] \in Sandbox!Entry
          BY <2>3 DEF Worker, Sandbox!Entry
        <4> QED
          BY <3>5, <4>1 DEF MarkRolledBack, Sandbox!RecordRolledBack, Sandbox!SandboxTypeOK
      <3> QED
        BY <1>2, <3>1, <3>2, <3>3, <3>4, <3>5 DEF Writing, Start, AppendTerminal, Settle
    <2>5. log' \in [Executions -> Seq(Status)]
      <3>1. CASE Start(w)
        BY <3>1, <2>3, AppendType DEF Start, Status
      <3>2. CASE AppendTerminal(w)
        <4>1. CASE Appendable(worker[w].e, worker[w].outcome)
          <5>1. worker[w].outcome \in Status
            BY <3>2, <2>3 DEF AppendTerminal, Worker, Concluding, Status
          <5> QED
            BY <3>2, <4>1, <5>1, <2>3, AppendType DEF AppendTerminal
        <4> QED
          BY <3>2, <4>1 DEF AppendTerminal
      <3> QED
        BY <1>2, <3>1, <3>2 DEF Writing, MovePointer, WriteJournal, RestorePointer,
                                MarkRolledBack, Settle
    <2>6. /\ phase' \in [Executions -> Queue!Phases]
          /\ settled' \in [Executions -> Terminal \cup {"NONE"}]
          /\ UNCHANGED <<attempts, budget>>
          /\ Affordable'
      <3>1. CASE Settle(w)
        <4>1. worker[w].outcome \in Terminal
          BY <3>1 DEF Settle, Concluding
        <4>2. CASE Queue!Succeed(worker[w].e, worker[w].attempt)
                   /\ settled' = [settled EXCEPT ![worker[w].e] = worker[w].outcome]
          BY <4>1, <4>2, <2>3 DEF Queue!Succeed, Queue!Phases, Affordable
        <4>3. CASE UNCHANGED <<queue, settled>>
          BY <4>3 DEF queue, Affordable
        <4> QED
          BY <3>1, <4>2, <4>3 DEF Settle
      <3> QED
        BY <1>2, <3>1 DEF Writing, Start, MovePointer, WriteJournal, RestorePointer,
                          MarkRolledBack, AppendTerminal, queue, Affordable
    <2> QED
      BY <2>1, <2>2, <2>4, <2>5, <2>6
  <1>3. ASSUME NEW e \in Executions, Request(e) PROVE Typed'
    BY <1>3 DEF Request, Queue!Enqueue, Queue!Phases, sandbox, environment, bounds, Status,
                Sandbox!SandboxTypeOK, Affordable, MaxAttempts
  <1>4. ASSUME NEW w \in Workers, NEW e \in Executions, Claim(w, e) PROVE Typed'
    <2>1. attempts[e] + 1 \in 0..MaxAttempts
      BY <1>4, ClaimType DEF Claim
    <2>2. [Idle EXCEPT !.at = "claimed", !.e = e, !.attempt = attempts[e] + 1] \in Worker
      BY <2>1 DEF Idle, Worker, Places, Sandbox!Entry, Sandbox!NoEntry, Sandbox!NoRelease
    <2>3. /\ [Idle EXCEPT !.at = "claimed", !.e = e, !.attempt = attempts[e] + 1].e = e
          /\ Concluding([Idle EXCEPT !.at = "claimed", !.e = e, !.attempt = attempts[e] + 1])
      BY DEF Idle, Concluding
    <2>4. /\ worker' \in [Workers -> Worker]
          /\ \A v \in Workers : worker'[v].at # "idle" => worker'[v].e \in Executions
          /\ \A v \in Workers : Concluding(worker'[v])
      BY <1>4, <2>2, <2>3 DEF Claim
    <2> QED
      BY <1>4, <2>4, ClaimType DEF Claim, sandbox, environment, bounds, Sandbox!SandboxTypeOK
  <1>5. ASSUME NEW w \in Workers, Crash(w) PROVE Typed'
    <2>1. /\ worker' \in [Workers -> Worker]
          /\ \A v \in Workers : worker'[v].at # "idle" => worker'[v].e \in Executions
          /\ \A v \in Workers : Concluding(worker'[v])
      <3>1. worker' = [worker EXCEPT ![w] = Idle] /\ worker' \in [Workers -> Worker]
        BY <1>5, LeaveType DEF Crash
      <3>2. Idle.at = "idle" /\ Concluding(Idle)
        BY DEF Idle, Concluding
      <3> QED
        BY <3>1, <3>2
    <2> QED
      BY <1>5, <2>1 DEF Crash, queue, sandbox, environment, Sandbox!SandboxTypeOK,
                        Affordable, ExecutionAssumption
  <1>6. ASSUME NEW S \in SUBSET Executions, Recover(S) PROVE Typed'
    <2>1. phase' \in [Executions -> Queue!Phases] /\ UNCHANGED <<attempts, budget>>
      BY <1>6 DEF Recover, Queue!Release, Queue!Phases
    <2>2. Affordable'
      <3>1. \A e \in Executions : attempts[e] \in Nat /\ budget[e] \in Nat
        <4> attempts \in [Executions -> 0..3] /\ budget \in [Executions -> {0, 3}]
          BY DEF MaxAttempts
        <4> QED
          OBVIOUS
      <3> QED
        BY <1>6, <2>1, <3>1 DEF Recover, Queue!Release, Affordable
    <2> QED
      BY <1>6, <2>1, <2>2 DEF Recover, sandbox, environment, bounds, Sandbox!SandboxTypeOK
  <1>7. CASE Revoke
    BY <1>7 DEF Revoke, queue, sandbox, bounds, Sandbox!SandboxTypeOK, Affordable
  <1>8. CASE EditSource
    <2>1. source' \in BOOLEAN
      BY <1>8 DEF EditSource
    <2>2. faults' \in 0..MaxFaults
      BY <1>8 DEF EditSource, Fault, ExecutionAssumption
    <2> QED
      BY <1>8, <2>1, <2>2 DEF EditSource, queue, sandbox, Sandbox!SandboxTypeOK, Affordable
  <1>9. CASE UNCHANGED vars
    BY <1>9 DEF vars, queue, sandbox, environment, bounds, Sandbox!SandboxTypeOK, Affordable
  <1> QED
    BY <1>1, <1>2, <1>3, <1>4, <1>5, <1>6, <1>7, <1>8, <1>9, StepsSplit DEF Next

\* Before the first request all of it holds trivially.
LEMMA TypeInitially == ASSUME ExecutionAssumption, Init PROVE Typed
  BY DEF Init, Typed, TypeOK, Affordable, Concluding, ExecutionAssumption, Queue!Init, Queue!Phases, MaxAttempts,
         Idle, Worker, Places, Sandbox!SandboxInit, Sandbox!SandboxTypeOK, Sandbox!Entry,
         Sandbox!NoEntry, Sandbox!NoRelease

\* Every variable keeps its type: in particular three attempts are never
\* exceeded, although claim does not look at the budget.
THEOREM TypeCorrect == Spec => []TypeOK
  <1>1. Spec => []Typed
    BY ExecutionAssumption, TypeInitially, TypeInductive, PTL DEF Spec
  <1> QED
    BY <1>1, PTL DEF Typed

-----------------------------------------------------------------------------
(* Safety                                                                  *)

\* An attempt at e has been announced; what current.json held was.
HasRun(e) == \E i \in 1..Len(log[e]) : log[e][i] = "RUNNING"
Known(p) == p = Sandbox!NoRelease \/ HasRun(p)

AtEffect == {"validate", "execute", "install", "journal", "rollback", "restore", "mark"}

\* What a worker in state r knows about its execution and the sandbox.
Knows(r) == /\ r.at \in AtEffect => HasRun(r.e)
            /\ r.at \in {"gate", "attest"} /\ r.seen = "RUNNING" => HasRun(r.e)
            /\ r.at = "append" /\ r.outcome = "SUCCEEDED" => Sandbox!Journalled(r.e)
            /\ r.at = "settle" => r.outcome = Current(r.e)
            /\ Known(r.entry.previous)

Safe == /\ LogLegal /\ SettledAsLogged /\ EffectAnnounced /\ SuccessWasJournalled
        /\ \A e \in Executions : Known(journal[e].previous)
        /\ \A w \in Workers : Knows(worker[w])

\* How an execution's history grows, and what a new entry presupposes.
Grown(e) == \/ log'[e] = log[e]
            \/ log[e] = <<>> /\ log'[e] = <<"REQUESTED">>
            \/ \E s \in {"RUNNING"} \cup Terminal :
                  /\ Appendable(e, s)
                  /\ log'[e] = Append(log[e], s)
                  /\ s = "SUCCEEDED" => Sandbox!Journalled(e)

\* Every step appends at most one legal status to the history of an execution.
LEMMA HistoriesGrow ==
    ASSUME Typed, Safe, [Next]_vars, NEW e \in Executions
    PROVE  Grown(e)
  <1> USE DEF Typed, TypeOK
  <1>1. ASSUME NEW w \in Workers, Start(w) PROVE Grown(e)
    <2>1. PICK f \in Executions : f = worker[w].e
      BY <1>1 DEF Start
    <2>2. CASE Appendable(f, "RUNNING")
      <3>1. log' = [log EXCEPT ![f] = Append(log[f], "RUNNING")]
        BY <1>1, <2>1, <2>2, AppendType DEF Start, Status
      <3>2. CASE e = f
        <4>1. "RUNNING" \notin Terminal
          BY DEF Terminal
        <4> QED
          BY <2>2, <3>1, <3>2, <4>1 DEF Grown
      <3>3. CASE e # f
        BY <3>1, <3>3 DEF Grown
      <3> QED
        BY <3>2, <3>3
    <2> QED
      BY <1>1, <2>1, <2>2 DEF Start, Grown
  <1>2. ASSUME NEW w \in Workers, AppendTerminal(w) PROVE Grown(e)
    <2>1. PICK f \in Executions, o \in Terminal : f = worker[w].e /\ o = worker[w].outcome
      BY <1>2 DEF AppendTerminal, Concluding
    <2>2. o = "SUCCEEDED" => Sandbox!Journalled(f)
      BY <1>2, <2>1 DEF AppendTerminal, Safe, Knows
    <2>3. CASE Appendable(f, o)
      <3>1. log' = [log EXCEPT ![f] = Append(log[f], o)]
        BY <1>2, <2>1, <2>3, AppendType DEF AppendTerminal, Status
      <3>2. CASE e = f
        BY <2>2, <2>3, <3>1, <3>2 DEF Grown
      <3>3. CASE e # f
        BY <3>1, <3>3 DEF Grown
      <3> QED
        BY <3>2, <3>3
    <2> QED
      BY <1>2, <2>1, <2>3 DEF AppendTerminal, Grown
  <1>3. ASSUME NEW f \in Executions, Request(f) PROVE Grown(e)
    BY <1>3 DEF Request, Grown
  <1>4. ASSUME log' = log PROVE Grown(e)
    BY <1>4 DEF Grown
  <1>5. ASSUME NEW w \in Workers, Pondering(w) PROVE log' = log
    BY <1>5, PonderingKeeps
  <1>6. ASSUME NEW w \in Workers, Writing(w), ~Start(w), ~AppendTerminal(w) PROVE log' = log
    BY <1>6 DEF Writing, MovePointer, WriteJournal, RestorePointer, MarkRolledBack, Settle
  <1>7. CASE \/ \E w \in Workers, f \in Executions : Claim(w, f)
             \/ \E w \in Workers : Crash(w)
             \/ \E S \in SUBSET Executions : Recover(S)
             \/ Revoke \/ EditSource \/ UNCHANGED vars
    BY <1>4, <1>7 DEF Claim, Crash, Recover, Revoke, EditSource, vars
  <1> QED
    BY <1>1, <1>2, <1>3, <1>4, <1>5, <1>6, <1>7, StepsSplit DEF Next

\* What has been announced stays announced, and what has ended stays ended.
LEMMA GrownKeeps ==
    ASSUME Typed, NEW e \in Executions, Grown(e)
    PROVE  /\ HasRun(e) => HasRun(e)'
           /\ Current(e) \in Terminal => log'[e] = log[e] /\ Current(e)' = Current(e)
  <1>1. log[e] \in Seq(Status)
    BY DEF Typed, TypeOK
  <1>2. CASE log'[e] = log[e]
    BY <1>2 DEF HasRun, Current, Last
  <1>3. CASE log[e] = <<>>
    BY <1>3 DEF HasRun, Current, Terminal
  <1>4. CASE \E s \in {"RUNNING"} \cup Terminal : Appendable(e, s) /\ log'[e] = Append(log[e], s)
    <2>1. PICK s \in {"RUNNING"} \cup Terminal : Appendable(e, s) /\ log'[e] = Append(log[e], s)
      BY <1>4
    <2>2. s \in Status /\ \A i \in 1..Len(log[e]) : log'[e][i] = log[e][i]
      BY <1>1, <2>1 DEF Status
    <2>3. Len(log'[e]) = Len(log[e]) + 1 /\ Len(log[e]) \in Nat
      BY <1>1, <2>1, <2>2
    <2>4. Current(e) \notin Terminal
      BY <2>1 DEF Appendable, Terminal
    <2> QED
      BY <2>2, <2>3, <2>4 DEF HasRun
  <1> QED
    BY <1>2, <1>3, <1>4 DEF Grown

\* A step leaves every history legal.
LEMMA GrownLegal ==
    ASSUME Typed, LogLegal, \A e \in Executions : Grown(e)
    PROVE  LogLegal'
  <1> SUFFICES ASSUME NEW e \in Executions, NEW i \in 1..Len(log'[e])
               PROVE  /\ log'[e][i] = "REQUESTED" <=> i = 1
                      /\ log'[e][i] \in Terminal => i = Len(log'[e])
                      /\ log'[e][i] \in Terminal \ {"FAILED_NO_EFFECT"}
                            => i > 1 /\ log'[e][i - 1] = "RUNNING"
    BY DEF LogLegal
  <1>1. log[e] \in Seq(Status) /\ Grown(e)
    BY DEF Typed, TypeOK
  <1>2. CASE log'[e] = log[e]
    BY <1>2 DEF LogLegal
  <1>3. CASE log'[e] = <<"REQUESTED">>
    BY <1>3 DEF Terminal
  <1>4. CASE \E s \in {"RUNNING"} \cup Terminal : Appendable(e, s) /\ log'[e] = Append(log[e], s)
    <2>1. PICK s \in {"RUNNING"} \cup Terminal : Appendable(e, s) /\ log'[e] = Append(log[e], s)
      BY <1>4
    <2> DEFINE n == Len(log[e])
    <2>2. /\ n \in Nat /\ Len(log'[e]) = n + 1 /\ log'[e][n + 1] = s
          /\ \A j \in 1..n : log'[e][j] = log[e][j]
      BY <1>1, <2>1 DEF Status
    <2>3. log[e] # <<>> /\ n >= 1 /\ Current(e) = log[e][n]
      BY <1>1, <2>1 DEF Appendable, Current, Last
    <2>4. log[e][n] \notin Terminal /\ (s \notin {"RUNNING", "FAILED_NO_EFFECT"} => log[e][n] = "RUNNING")
      BY <2>1, <2>3 DEF Appendable, Terminal
    <2>5. CASE i = n + 1
      BY <2>1, <2>2, <2>3, <2>4, <2>5 DEF Terminal
    <2>6. CASE i \in 1..n
      BY <2>2, <2>4, <2>6 DEF LogLegal
    <2> QED
      BY <2>2, <2>5, <2>6
  <1> QED
    BY <1>1, <1>2, <1>3, <1>4 DEF Grown

\* Only announced executions write the sandbox, and what they may put back
\* was announced as well.
LEMMA SandboxGrows ==
    ASSUME Typed, Safe, [Next]_vars, NEW e \in Executions
    PROVE  /\ journal[e].state # "NONE" => journal'[e].state # "NONE"
           /\ journal'[e].state # "NONE" => journal[e].state # "NONE" \/ HasRun(e)
           /\ Known(journal'[e].previous)
           /\ pointer' = e => pointer = e \/ HasRun(e)
  <1> USE DEF Typed, TypeOK, Sandbox!SandboxTypeOK
  <1> DEFINE Goal == /\ journal[e].state # "NONE" => journal'[e].state # "NONE"
                     /\ journal'[e].state # "NONE" => journal[e].state # "NONE" \/ HasRun(e)
                     /\ Known(journal'[e].previous)
                     /\ pointer' = e => pointer = e \/ HasRun(e)
  <1>1. ASSUME UNCHANGED sandbox PROVE Goal
    BY <1>1 DEF sandbox, Safe
  <1>2. ASSUME NEW w \in Workers, MovePointer(w) PROVE Goal
    <2>1. PICK f \in Executions : f = worker[w].e
      BY <1>2 DEF MovePointer
    <2>2. HasRun(f)
      BY <1>2, <2>1 DEF Safe, Knows, MovePointer, AtEffect
    <2>3. pointer' = f /\ journal' = journal
      BY <1>2, <2>1 DEF MovePointer, Sandbox!Activate
    <2> QED
      BY <2>2, <2>3 DEF Safe
  <1>3. ASSUME NEW w \in Workers, WriteJournal(w) PROVE Goal
    <2>1. PICK f \in Executions, p \in Executions \cup {Sandbox!NoRelease} :
             f = worker[w].e /\ p = worker[w].entry.previous
      BY <1>3 DEF WriteJournal, Worker, Sandbox!Entry
    <2>2. HasRun(f) /\ Known(p)
      BY <1>3, <2>1 DEF Safe, Knows, WriteJournal, AtEffect
    <2>3. /\ journal' = [journal EXCEPT ![f] = [state |-> "EXECUTED", previous |-> p]]
          /\ pointer' = pointer
      BY <1>3, <2>1 DEF WriteJournal, Sandbox!RecordExecuted
    <2>4. CASE e = f
      BY <2>2, <2>3, <2>4
    <2>5. CASE e # f
      BY <2>3, <2>5 DEF Safe
    <2> QED
      BY <2>4, <2>5
  <1>4. ASSUME NEW w \in Workers, RestorePointer(w) PROVE Goal
    <2>1. PICK p \in Executions \cup {Sandbox!NoRelease} : p = worker[w].entry.previous
      BY <1>4 DEF RestorePointer, Worker, Sandbox!Entry
    <2>2. Known(p)
      BY <2>1 DEF Safe, Knows
    <2>3. pointer' = p /\ journal' = journal
      BY <1>4, <2>1 DEF RestorePointer, Sandbox!Restore
    <2>4. p = e => HasRun(e)
      BY <2>2, ExecutionAssumption DEF Known, ExecutionAssumption, NoExecution, Sandbox!NoRelease
    <2> QED
      BY <2>3, <2>4 DEF Safe
  <1>5. ASSUME NEW w \in Workers, MarkRolledBack(w) PROVE Goal
    <2>1. PICK f \in Executions, n \in Sandbox!Entry : f = worker[w].e /\ n = worker[w].entry
      BY <1>5 DEF MarkRolledBack, Worker
    <2>2. HasRun(f) /\ Known(n.previous)
      BY <1>5, <2>1 DEF Safe, Knows, MarkRolledBack, AtEffect
    <2>3. /\ journal' = [journal EXCEPT ![f] = [n EXCEPT !.state = "ROLLED_BACK"]]
          /\ pointer' = pointer
      BY <1>5, <2>1 DEF MarkRolledBack, Sandbox!RecordRolledBack
    <2>4. /\ [n EXCEPT !.state = "ROLLED_BACK"].state = "ROLLED_BACK"
          /\ [n EXCEPT !.state = "ROLLED_BACK"].previous = n.previous
      BY DEF Sandbox!Entry
    <2>5. CASE e = f
      BY <2>2, <2>3, <2>4, <2>5
    <2>6. CASE e # f
      BY <2>3, <2>6 DEF Safe
    <2> QED
      BY <2>5, <2>6
  <1> HIDE DEF Goal
  <1>6. ASSUME NEW w \in Workers, Pondering(w) \/ Start(w) \/ AppendTerminal(w) \/ Settle(w)
        PROVE  Goal
    BY <1>1, <1>6, PonderingKeeps DEF Start, AppendTerminal, Settle
  <1>7. ASSUME \/ \E f \in Executions : Request(f)
               \/ \E w \in Workers, f \in Executions : Claim(w, f)
               \/ \E w \in Workers : Crash(w)
               \/ \E S \in SUBSET Executions : Recover(S)
               \/ Revoke \/ EditSource \/ UNCHANGED vars
        PROVE  Goal
    BY <1>1, <1>7 DEF Request, Claim, Crash, Recover, Revoke, EditSource, vars
  <1>8. Goal
    BY <1>2, <1>3, <1>4, <1>5, <1>6, <1>7, StepsSplit DEF Next, Writing
  <1> QED
    BY <1>8 DEF Goal

\* What a worker knows stays true while others work.
LEMMA KnowledgeLasts ==
    ASSUME Typed, Safe, [Next]_vars, NEW r \in Worker,
           r.at # "idle" => r.e \in Executions, Concluding(r), Knows(r)
    PROVE  Knows(r)'
  <1>1. \A e \in Executions : /\ HasRun(e) => HasRun(e)'
                              /\ Current(e) \in Terminal => Current(e)' = Current(e)
                              /\ Sandbox!Journalled(e) => Sandbox!Journalled(e)'
    BY HistoriesGrow, GrownKeeps, SandboxGrows DEF Sandbox!Journalled
  <1>2. Known(r.entry.previous)'
    <2>1. r.entry.previous \in Executions \cup {Sandbox!NoRelease}
      BY DEF Worker, Sandbox!Entry
    <2> QED
      BY <1>1, <2>1 DEF Knows, Known
  <1>3. r.at \in AtEffect \cup {"gate", "attest", "append", "settle"} => r.e \in Executions
    BY DEF AtEffect
  <1> QED
    BY <1>1, <1>2, <1>3 DEF Knows, Concluding

\* Knowing is about the place, the execution, the status seen, the outcome
\* and the journal entry of a worker.
LEMMA GoKnows ==
    ASSUME Typed, Safe, NEW w \in Workers, NEW p \in Places, Go(w, p), worker[w].at # "idle",
           p \in AtEffect => HasRun(worker[w].e),
           p \in {"gate", "attest"} /\ worker[w].seen = "RUNNING" => HasRun(worker[w].e),
           p \notin {"append", "settle"}
    PROVE  Knows(worker'[w])
  <1>1. worker[w] \in Worker /\ worker' = [worker EXCEPT ![w] = [worker[w] EXCEPT !.at = p]]
    BY GoType DEF Typed, TypeOK
  <1>2. /\ worker'[w].at = p /\ worker'[w].e = worker[w].e /\ worker'[w].seen = worker[w].seen
        /\ worker'[w].entry = worker[w].entry
    BY <1>1 DEF Worker, Typed, TypeOK
  <1>3. Known(worker[w].entry.previous)
    BY DEF Safe, Knows
  <1> HIDE DEF Typed, Safe
  <1> QED
    BY <1>2, <1>3 DEF Knows

\* A worker that decides on an outcome may know what it decided on.
LEMMA ConcludeKnows ==
    ASSUME Typed, Safe, NEW w \in Workers, NEW o \in Terminal, Conclude(w, o),
           o = "SUCCEEDED" => Sandbox!Journalled(worker[w].e)
    PROVE  Knows(worker'[w])
  <1>1. worker[w] \in Worker
        /\ worker' = [worker EXCEPT ![w] = [worker[w] EXCEPT !.at = "append", !.outcome = o]]
    BY ConcludeType DEF Typed, TypeOK
  <1>2. /\ worker'[w].at = "append" /\ worker'[w].e = worker[w].e /\ worker'[w].outcome = o
        /\ worker'[w].entry = worker[w].entry
    BY <1>1 DEF Worker, Typed, TypeOK
  <1>3. Known(worker[w].entry.previous)
    BY DEF Safe, Knows
  <1> QED
    BY <1>2, <1>3 DEF Knows, AtEffect

\* What a worker knows stays true while it reads and decides.
LEMMA PonderingKnows ==
    ASSUME Typed, Safe, NEW w \in Workers, Pondering(w)
    PROVE  Knows(worker'[w])
  <1> USE DEF Typed, TypeOK
  <1>1. worker[w].e \in Executions /\ worker[w] \in Worker /\ worker[w].at # "idle"
    BY PonderingKeeps
  <1>2. Knows(worker[w])
    BY DEF Safe
  <1>3. {"attest", "start", "execute", "rollback"} \subseteq Places
        /\ {"ROLLBACK_FAILED", "FAILED_NO_EFFECT", "FAILED_ROLLED_BACK", "SUCCEEDED"} \subseteq Terminal
    BY DEF Places, Terminal
  <1>4. CASE Read(w)
    <2>1. PICK e \in Executions : e = worker[w].e
      BY <1>1
    <2>2. PICK c : c = Current(e)
      OBVIOUS
    <2>3. /\ worker'[w].at = IF c \in Terminal THEN "settle" ELSE "gate"
          /\ worker'[w].seen = c /\ worker'[w].outcome = c /\ worker'[w].e = e
          /\ worker'[w].entry = worker[w].entry
      BY <1>1, <1>4, <2>1, <2>2 DEF Read, Worker
    <2>4. c = "RUNNING" => HasRun(e)
      BY <2>2 DEF HasRun, Current, Last
    <2> QED
      BY <1>2, <2>2, <2>3, <2>4 DEF Knows, AtEffect
  <1>5. CASE GateFails(w) \/ RollbackReplays(w) \/ RollbackRaises(w)
    BY <1>3, <1>5, ConcludeKnows DEF GateFails, RollbackReplays, RollbackRaises
  <1>6. CASE GatePasses(w) \/ Attest(w)
    BY <1>1, <1>2, <1>3, <1>6, GoKnows DEF GatePasses, Attest, Knows, AtEffect
  <1>7. CASE AttestationFails(w)
    <2>1. CASE worker[w].seen = "RUNNING"
      BY <1>1, <1>2, <1>3, <1>7, <2>1, GoKnows DEF AttestationFails, Knows
    <2>2. CASE worker[w].seen # "RUNNING"
      BY <1>3, <1>7, <2>2, ConcludeKnows DEF AttestationFails
    <2> QED
      BY <2>1, <2>2
  <1>8. CASE Validate(w)
    <2>1. HasRun(worker[w].e)
      BY <1>2, <1>8 DEF Validate, Knows, AtEffect
    <2>2. CASE source
      BY <1>1, <1>3, <1>8, <2>1, <2>2, GoKnows DEF Validate, AtEffect
    <2>3. CASE ~source
      BY <1>3, <1>8, <2>3, ConcludeKnows DEF Validate
    <2> QED
      BY <2>2, <2>3
  <1>9. CASE Replay(w)
    BY <1>3, <1>9, ConcludeKnows DEF Replay
  <1>10. CASE LookUp(w)
    <2>1. /\ worker'[w].at = "install" /\ worker'[w].e = worker[w].e
          /\ worker'[w].entry.previous = pointer
      BY <1>1, <1>10 DEF LookUp, Worker, Sandbox!Entry
    <2>2. HasRun(worker[w].e)
      BY <1>2, <1>10 DEF LookUp, Knows, AtEffect
    <2>3. Known(pointer)
      BY DEF Known, HasRun, Safe, EffectAnnounced, Sandbox!SandboxTypeOK
    <2> QED
      BY <2>1, <2>2, <2>3 DEF Knows
  <1>11. CASE ExecuteRaises(w) \/ JournalRaises(w)
    <2>1. HasRun(worker[w].e)
      BY <1>2, <1>11 DEF ExecuteRaises, JournalRaises, Knows, AtEffect
    <2> QED
      BY <1>1, <1>3, <1>11, <2>1, GoKnows DEF ExecuteRaises, JournalRaises
  <1>12. CASE RollbackLoads(w)
    <2>1. PICK e \in Executions : e = worker[w].e
      BY <1>1
    <2>2. /\ worker'[w].at = "restore" /\ worker'[w].e = e
          /\ worker'[w].entry = journal[e]
      BY <1>1, <1>12, <2>1 DEF RollbackLoads, Worker
    <2>3. HasRun(e)
      BY <1>2, <1>12, <2>1 DEF RollbackLoads, Knows, AtEffect
    <2>4. Known(journal[e].previous)
      BY DEF Safe
    <2> QED
      BY <2>2, <2>3, <2>4 DEF Knows
  <1> QED
    BY <1>4, <1>5, <1>6, <1>7, <1>8, <1>9, <1>10, <1>11, <1>12 DEF Pondering

\* Whatever a step does to a worker, it knows enough afterwards.
LEMMA KnowledgeGained ==
    ASSUME Typed, Safe, [Next]_vars, NEW v \in Workers
    PROVE  Knows(worker[v])'
  <1> USE DEF Typed, TypeOK
  <1>1. ASSUME NEW r \in Worker, r = worker'[v], Knows(r)' PROVE Knows(worker[v])'
    BY <1>1 DEF Knows, Known, HasRun, Current, Sandbox!Journalled
  <1>2. ASSUME NEW r \in Worker, r = worker'[v], r.at # "idle" => r.e \in Executions,
               Concluding(r), Knows(r)
        PROVE  Knows(worker[v])'
    BY <1>1, <1>2, KnowledgeLasts
  <1> HIDE DEF Typed, TypeOK
  <1>3. ASSUME worker'[v] = worker[v] PROVE Knows(worker[v])'
    <2>1. PICK r \in Worker : r = worker[v]
      BY DEF Typed, TypeOK
    <2> QED
      BY <1>2, <1>3, <2>1 DEF Typed, TypeOK, Safe
  <1>4. ASSUME Leave(v) PROVE Knows(worker[v])'
    <2>1. PICK r \in Worker : r = worker'[v] /\ r = Idle
      BY <1>4, LeaveType DEF Leave, Typed, TypeOK
    <2>2. Knows(r) /\ Concluding(r) /\ r.at = "idle"
      BY <2>1 DEF Idle, Knows, Concluding, AtEffect, Known, Sandbox!NoEntry
    <2> QED
      BY <1>2, <2>1, <2>2
  <1>5. ASSUME Pondering(v) PROVE Knows(worker[v])'
    <2>1. PICK r \in Worker : /\ worker' = [worker EXCEPT ![v] = r]
                              /\ r.e = worker[v].e /\ Concluding(r)
      BY <1>5, PonderingWorker DEF Typed
    <2>2. r = worker'[v] /\ r.e \in Executions
      BY <1>5, <2>1, PonderingKeeps DEF Typed, TypeOK
    <2>3. Knows(r)
      BY <1>5, <2>2, PonderingKnows
    <2> QED
      BY <1>2, <2>1, <2>2, <2>3
  <1>6. ASSUME NEW e \in Executions, Claim(v, e) PROVE Knows(worker[v])'
    <2>1. PICK r : r = [Idle EXCEPT !.at = "claimed", !.e = e, !.attempt = attempts[e] + 1]
      OBVIOUS
    <2>2. r \in Worker
      BY <1>6, <2>1, ClaimType
      DEF Claim, Idle, Worker, Places, Sandbox!Entry, Sandbox!NoEntry, Sandbox!NoRelease
    <2>3. r = worker'[v]
      BY <1>6, <2>1 DEF Claim, Typed, TypeOK
    <2>4. r.at = "claimed" /\ r.e = e /\ r.entry = Sandbox!NoEntry
      BY <2>1 DEF Idle
    <2>5. Knows(r) /\ Concluding(r)
      BY <2>4 DEF Knows, Concluding, AtEffect, Known, Sandbox!NoEntry
    <2> QED
      BY <1>2, <2>2, <2>3, <2>4, <2>5
  <1>7. ASSUME Writing(v), Knows(worker'[v]) PROVE Knows(worker[v])'
    <2>1. PICK r \in Worker : /\ worker' = [worker EXCEPT ![v] = r]
                              /\ r = Idle \/ (r.e = worker[v].e /\ worker[v].e \in Executions)
                              /\ Concluding(r)
      BY <1>7, WritingWorker
    <2>2. r = worker'[v]
      BY <2>1 DEF Typed, TypeOK
    <2>3. r.at # "idle" => r.e \in Executions
      BY <2>1 DEF Idle
    <2> QED
      BY <1>2, <1>7, <2>1, <2>2, <2>3
  <1>8. ASSUME MovePointer(v) \/ RestorePointer(v) PROVE Knows(worker[v])'
    <2>1. HasRun(worker[v].e)
      BY <1>8 DEF MovePointer, RestorePointer, Safe, Knows, AtEffect
    <2>2. Knows(worker'[v])
      BY <1>8, <2>1, GoKnows DEF MovePointer, RestorePointer, Places
    <2> QED
      BY <1>7, <1>8, <2>2 DEF Writing
  <1>9. ASSUME MarkRolledBack(v) PROVE Knows(worker[v])'
    <2>1. Knows(worker'[v])
      BY <1>9, ConcludeKnows DEF MarkRolledBack, Terminal
    <2> QED
      BY <1>7, <1>9, <2>1 DEF Writing
  <1>10. ASSUME WriteJournal(v) PROVE Knows(worker[v])'
    <2>1. PICK e \in Executions : e = worker[v].e
      BY <1>10 DEF WriteJournal, Typed, TypeOK
    <2>2. journal' = [journal EXCEPT ![e] = [state |-> "EXECUTED",
                                             previous |-> worker[v].entry.previous]]
      BY <1>10, <2>1 DEF WriteJournal, Sandbox!RecordExecuted
    <2>3. Sandbox!Journalled(e)'
      BY <2>2 DEF Sandbox!Journalled, Typed, TypeOK, Sandbox!SandboxTypeOK
    <2>4. /\ worker'[v].at = "append" /\ worker'[v].e = e
          /\ worker'[v].entry.previous = worker[v].entry.previous
      BY <1>10, <2>1 DEF WriteJournal, Conclude, Typed, TypeOK, Worker
    <2>5. Known(worker[v].entry.previous)'
      <3>1. PICK r \in Worker : r = worker[v]
        BY DEF Typed, TypeOK
      <3>2. Knows(r) /\ Concluding(r) /\ (r.at # "idle" => r.e \in Executions)
        BY <3>1 DEF Safe, Typed, TypeOK
      <3>3. Knows(r)'
        BY <3>2, KnowledgeLasts
      <3>4. Known(r.entry.previous)'
        BY <3>3 DEF Knows
      <3> QED
        BY <2>4, <3>1, <3>4 DEF Known, HasRun
    <2> QED
      BY <2>3, <2>4, <2>5 DEF Knows, AtEffect, Sandbox!Journalled
  <1>11. ASSUME NEW p \in {"validate", "settle"}, Go(v, p), worker[v].at \in {"start", "append"},
                NEW e \in Executions, e = worker[v].e,
                p = "validate" => HasRun(e)',
                p = "settle" => worker[v].outcome = Last(log'[e]) /\ log'[e] # <<>>
         PROVE  Knows(worker[v])'
    <2>1. PICK r \in Worker : r = worker[v]
      BY DEF Typed, TypeOK
    <2>2. Knows(r) /\ Concluding(r) /\ r.e \in Executions
      BY <1>11, <2>1 DEF Safe, Typed, TypeOK
    <2>3. Known(r.entry.previous)'
      BY <2>2, KnowledgeLasts DEF Knows
    <2>4. /\ worker'[v].at = p /\ worker'[v].e = r.e /\ worker'[v].outcome = r.outcome
          /\ worker'[v].entry = r.entry
      BY <1>11, <2>1 DEF Go, Typed, TypeOK, Worker
    <2>5. p = "settle" => r.outcome = Current(e)'
      BY <1>11, <2>1 DEF Current
    <2> QED
      BY <1>11, <2>1, <2>3, <2>4, <2>5 DEF Knows, Known, HasRun, Current, AtEffect
  <1>12. ASSUME Start(v) PROVE Knows(worker[v])'
    <2>1. PICK e \in Executions : e = worker[v].e
      BY <1>12 DEF Start, Typed, TypeOK
    <2>2. CASE Appendable(e, "RUNNING")
      <3>1. log' = [log EXCEPT ![e] = Append(log[e], "RUNNING")] /\ log[e] \in Seq(Status)
        BY <1>12, <2>1, <2>2, AppendType DEF Start, Status, Typed, TypeOK
      <3>2. HasRun(e)'
        <4>1. log'[e] = Append(log[e], "RUNNING")
          BY <3>1 DEF Typed, TypeOK
        <4>2. "RUNNING" \in Status
          BY DEF Status
        <4>3. /\ Len(log'[e]) \in 1..Len(log'[e])
              /\ log'[e][Len(log'[e])] = "RUNNING"
          BY <3>1, <4>1, <4>2
        <4> QED
          BY <4>3 DEF HasRun
      <3> QED
        BY <1>11, <1>12, <2>1, <2>2, <3>2 DEF Start
    <2>3. CASE ~Appendable(e, "RUNNING")
      BY <1>4, <1>12, <2>1, <2>3 DEF Start
    <2> QED
      BY <2>2, <2>3
  <1>13. ASSUME AppendTerminal(v) PROVE Knows(worker[v])'
    <2>1. PICK e \in Executions, o \in Terminal : e = worker[v].e /\ o = worker[v].outcome
      BY <1>13 DEF AppendTerminal, Typed, TypeOK, Concluding
    <2>2. CASE Appendable(e, o)
      <3>1. log' = [log EXCEPT ![e] = Append(log[e], o)] /\ log[e] \in Seq(Status) /\ o \in Status
        BY <1>13, <2>1, <2>2, AppendType DEF AppendTerminal, Status, Typed, TypeOK
      <3>2. log'[e] # <<>> /\ Last(log'[e]) = o
        <4>1. log'[e] = Append(log[e], o)
          BY <3>1 DEF Typed, TypeOK
        <4> QED
          BY <3>1, <4>1 DEF Last
      <3> QED
        BY <1>11, <1>13, <2>1, <2>2, <3>2 DEF AppendTerminal
    <2>3. CASE ~Appendable(e, o)
      BY <1>4, <1>13, <2>1, <2>3 DEF AppendTerminal
    <2> QED
      BY <2>2, <2>3
  <1>14. ASSUME Settle(v) \/ Crash(v) PROVE Knows(worker[v])'
    BY <1>4, <1>14 DEF Settle, Crash
  <1>15. ASSUME NEW w \in Workers, w # v, WorkerStep(w) PROVE worker'[v] = worker[v]
    BY <1>15, StepsSplit, PonderingWorker, WritingWorker DEF Typed, TypeOK
  <1>16. ASSUME NEW w \in Workers, w # v, Crash(w) \/ \E e \in Executions : Claim(w, e)
         PROVE  worker'[v] = worker[v]
    BY <1>16 DEF Crash, Leave, Claim, Typed, TypeOK
  <1>17. CASE \/ \E e \in Executions : Request(e)
              \/ \E S \in SUBSET Executions : Recover(S)
              \/ Revoke \/ EditSource \/ UNCHANGED vars
    BY <1>3, <1>17 DEF Request, Recover, Revoke, EditSource, vars
  <1>18. ASSUME WorkerStep(v) PROVE Knows(worker[v])'
    BY <1>5, <1>8, <1>9, <1>10, <1>12, <1>13, <1>14, <1>18, StepsSplit DEF Writing
  <1> QED
    BY <1>3, <1>6, <1>14, <1>15, <1>16, <1>17, <1>18 DEF Next

-----------------------------------------------------------------------------
(* The invariant                                                           *)

\* The outbox effect is settled with the status the execution has, for ever.
LEMMA SettlementsAgree ==
    ASSUME Typed, Safe, [Next]_vars
    PROVE  SettledAsLogged'
  <1> SUFFICES ASSUME NEW e \in Executions
               PROVE  /\ phase'[e] = "SUCCEEDED" <=> settled'[e] # "NONE"
                      /\ settled'[e] # "NONE" => settled'[e] = Current(e)'
    BY DEF SettledAsLogged, Current
  <1> DEFINE Goal == /\ phase'[e] = "SUCCEEDED" <=> settled'[e] # "NONE"
                     /\ settled'[e] # "NONE" => settled'[e] = Current(e)'
  <1>1. /\ phase[e] = "SUCCEEDED" <=> settled[e] # "NONE"
        /\ settled[e] # "NONE" => settled[e] \in Terminal /\ settled[e] = Current(e)
    BY DEF Safe, SettledAsLogged, Typed, TypeOK
  <1>2. Current(e) \in Terminal => Current(e)' = Current(e)
    BY HistoriesGrow, GrownKeeps
  <1>3. ASSUME phase'[e] = "SUCCEEDED" <=> phase[e] = "SUCCEEDED", settled'[e] = settled[e]
        PROVE  Goal
    BY <1>1, <1>2, <1>3
  <1>4. ASSUME NEW w \in Workers, Settle(w) PROVE Goal
    <2>1. PICK f \in Executions, o \in Terminal : f = worker[w].e /\ o = worker[w].outcome
      BY <1>4 DEF Settle, Typed, TypeOK, Concluding
    <2>2. o = Current(f)
      BY <1>4, <2>1 DEF Settle, Safe, Knows
    <2>3. CASE Queue!Succeed(f, worker[w].attempt) /\ settled' = [settled EXCEPT ![f] = o]
      <3>1. CASE e = f
        <4>1. phase'[e] = "SUCCEEDED" /\ settled'[e] = o
          BY <2>3, <3>1 DEF Queue!Succeed, Typed, TypeOK
        <4> QED
          BY <1>2, <2>2, <3>1, <4>1 DEF Terminal
      <3>2. CASE e # f
        BY <1>3, <2>3, <3>2 DEF Queue!Succeed, Typed, TypeOK
      <3> QED
        BY <3>1, <3>2
    <2>4. CASE UNCHANGED <<queue, settled>>
      BY <1>3, <2>4 DEF queue
    <2> QED
      BY <1>4, <2>1, <2>3, <2>4 DEF Settle
  <1> HIDE DEF Goal
  <1>5. ASSUME NEW f \in Executions, Request(f) PROVE Goal
    BY <1>3, <1>5 DEF Request, Queue!Enqueue, Typed, TypeOK
  <1>6. ASSUME NEW w \in Workers, NEW f \in Executions, Claim(w, f) PROVE Goal
    BY <1>3, <1>6 DEF Claim, Queue!Claim, Typed, TypeOK
  <1>7. ASSUME NEW S \in SUBSET Executions, Recover(S) PROVE Goal
    BY <1>3, <1>7 DEF Recover, Queue!Release, Typed, TypeOK
  <1>8. ASSUME UNCHANGED <<queue, settled>> PROVE Goal
    BY <1>3, <1>8 DEF queue
  <1>9. ASSUME NEW w \in Workers, WorkerStep(w) \/ Crash(w) PROVE Goal
    BY <1>4, <1>8, <1>9, StepsSplit, PonderingKeeps
    DEF Writing, Start, MovePointer, WriteJournal, RestorePointer, MarkRolledBack,
        AppendTerminal, Crash
  <1>10. CASE Revoke \/ EditSource \/ UNCHANGED vars
    BY <1>8, <1>10 DEF Revoke, EditSource, vars, Goal
  <1>11. Goal
    BY <1>5, <1>6, <1>7, <1>9, <1>10 DEF Next, Goal
  <1> QED
    BY <1>11 DEF Goal

\* No step breaks the safety invariant.
LEMMA SafeInductive ==
    ASSUME Typed, Safe, [Next]_vars
    PROVE  Safe'
  <1>1. LogLegal'
    BY HistoriesGrow, GrownLegal DEF Safe
  <1>2. SettledAsLogged'
    BY SettlementsAgree
  <1>3. \A e \in Executions : HasRun(e) => HasRun(e)'
    BY HistoriesGrow, GrownKeeps
  <1>4. EffectAnnounced'
    <2>1. ASSUME NEW e \in Executions, pointer' = e \/ journal'[e].state # "NONE"
          PROVE  HasRun(e)'
      BY <1>3, <2>1, SandboxGrows DEF Safe, EffectAnnounced, HasRun, Sandbox!Journalled
    <2> QED
      BY <2>1 DEF EffectAnnounced, HasRun, Sandbox!Journalled
  <1>5. SuccessWasJournalled'
    <2>1. ASSUME NEW e \in Executions, Current(e)' = "SUCCEEDED"
          PROVE  journal'[e].state # "NONE"
      <3>1. journal[e].state # "NONE" => journal'[e].state # "NONE"
        BY SandboxGrows
      <3>2. Current(e) = "SUCCEEDED" => journal[e].state # "NONE"
        BY DEF Safe, SuccessWasJournalled, Sandbox!Journalled
      <3>3. Grown(e) /\ log[e] \in Seq(Status)
        BY HistoriesGrow DEF Typed, TypeOK
      <3>4. CASE log'[e] = log[e]
        BY <2>1, <3>1, <3>2, <3>4 DEF Current
      <3>5. CASE log'[e] = <<"REQUESTED">>
        BY <2>1, <3>5 DEF Current, Last
      <3>6. ASSUME NEW s \in {"RUNNING"} \cup Terminal, log'[e] = Append(log[e], s),
                   s = "SUCCEEDED" => Sandbox!Journalled(e)
            PROVE  journal'[e].state # "NONE"
        <4>1. s \in Status /\ log'[e] # <<>> /\ Last(log'[e]) = s
          BY <3>3, <3>6 DEF Status, Last
        <4> QED
          BY <2>1, <3>1, <3>6, <4>1 DEF Current, Sandbox!Journalled
      <3> QED
        BY <3>3, <3>4, <3>5, <3>6 DEF Grown
    <2> QED
      BY <2>1 DEF SuccessWasJournalled, Current, Sandbox!Journalled
  <1>6. (\A e \in Executions : Known(journal[e].previous))'
    <2>1. ASSUME NEW e \in Executions, Typed' PROVE Known(journal[e].previous)'
      <3>1. PICK p : p = journal'[e].previous
        OBVIOUS
      <3>2. p \in Executions \cup {Sandbox!NoRelease}
        BY <2>1, <3>1 DEF Typed, TypeOK, Sandbox!SandboxTypeOK, Sandbox!Entry
      <3>3. Known(p)
        BY <3>1, SandboxGrows
      <3>4. Known(p)'
        BY <1>3, <3>2, <3>3 DEF Known
      <3> QED
        BY <3>1, <3>4 DEF Known, HasRun
    <2> QED
      BY <2>1, TypeInductive, ExecutionAssumption
  <1>7. (\A w \in Workers : Knows(worker[w]))'
    BY KnowledgeGained
  <1> QED
    BY <1>1, <1>2, <1>4, <1>5, <1>6, <1>7 DEF Safe

\* With no request, no release and idle workers nothing can be wrong yet.
LEMMA SafeInitially == ASSUME Init PROVE Safe
  <1>1. \A e \in Executions : log[e] = <<>> /\ settled[e] = "NONE" /\ phase[e] = "NONE"
                              /\ journal[e] = Sandbox!NoEntry
    BY DEF Init, Queue!Init, Sandbox!SandboxInit
  <1>2. pointer \notin Executions
    BY ExecutionAssumption
    DEF ExecutionAssumption, NoExecution, Init, Sandbox!SandboxInit, Sandbox!NoRelease
  <1>3. \A w \in Workers : worker[w] = Idle
    BY DEF Init
  <1>4. LogLegal /\ SettledAsLogged
    BY <1>1 DEF LogLegal, SettledAsLogged
  <1>5. EffectAnnounced /\ SuccessWasJournalled
    BY <1>1, <1>2 DEF EffectAnnounced, SuccessWasJournalled, Current, Sandbox!Journalled,
                      Sandbox!NoEntry
  <1>6. \A e \in Executions : Known(journal[e].previous)
    <2>1. \A e \in Executions : journal[e].previous = Sandbox!NoRelease
      <3>1. Sandbox!NoEntry.previous = Sandbox!NoRelease
        BY DEF Sandbox!NoEntry
      <3> QED
        BY <1>1, <3>1
    <2> QED
      BY <2>1 DEF Known
  <1>7. Knows(Idle)
    BY DEF Knows, Idle, AtEffect, Known, Sandbox!NoEntry
  <1> QED
    BY <1>3, <1>4, <1>5, <1>6, <1>7 DEF Safe

\* The safety invariant the theorems below are read off from.
LEMMA SafeAlways == Spec => []Safe
  <1>1. Init => Typed /\ Safe
    BY TypeInitially, SafeInitially, ExecutionAssumption
  <1>2. Typed /\ Safe /\ [Next]_vars => (Typed /\ Safe)'
    BY TypeInductive, SafeInductive, ExecutionAssumption
  <1> QED
    BY <1>1, <1>2, PTL DEF Spec

\* The history of an execution is legal, however many workers overtake each
\* other: append_transition reads the status outside its transaction.
THEOREM HistoriesAreLegal == Spec => []LogLegal
  <1>1. Safe => LogLegal
    BY DEF Safe
  <1> QED
    BY <1>1, SafeAlways, PTL

\* The outbox never contradicts the execution table, although _terminalize
\* writes them in two transactions.
THEOREM SettlementsAreLogged == Spec => []SettledAsLogged
  <1>1. Safe => SettledAsLogged
    BY DEF Safe
  <1> QED
    BY <1>1, SafeAlways, PTL

\* The sandbox changes only for executions announced as RUNNING.
THEOREM EffectsAreAnnounced == Spec => []EffectAnnounced
  <1>1. Safe => EffectAnnounced
    BY DEF Safe
  <1> QED
    BY <1>1, SafeAlways, PTL

\* Every success stands for a journalled installation.
THEOREM SuccessesAreJournalled == Spec => []SuccessWasJournalled
  <1>1. Safe => SuccessWasJournalled
    BY DEF Safe
  <1> QED
    BY <1>1, SafeAlways, PTL

-----------------------------------------------------------------------------
(* The promises kept to others: the outbox is used as it may be used, and  *)
(* the tables read as an execution record                                  *)

\* Every step is one the outbox offers, or does not touch it.
LEMMA QueueStep ==
    ASSUME Typed, [Next]_vars
    PROVE  [Queue!Next]_(Queue!qvars)
  <1>1. ASSUME NEW w \in Workers, WorkerStep(w) PROVE [Queue!Next]_(Queue!qvars)
    <2>1. CASE Settle(w)
      <3>1. PICK e \in Executions : e = worker[w].e
        BY <2>1 DEF Settle, Typed, TypeOK
      <3>2. CASE Queue!Succeed(e, worker[w].attempt)
        BY <3>2 DEF Queue!Succeed, Queue!Next
      <3> QED
        BY <2>1, <3>1, <3>2 DEF Settle, queue, Queue!qvars
    <2>2. CASE Writing(w) /\ ~Settle(w)
      BY <2>2 DEF Writing, Start, MovePointer, WriteJournal, RestorePointer, MarkRolledBack,
                  AppendTerminal, queue, Queue!qvars
    <2>3. CASE Pondering(w)
      BY <2>3, PonderingKeeps DEF queue, Queue!qvars
    <2> QED
      BY <1>1, <2>1, <2>2, <2>3, StepsSplit
  <1>2. ASSUME NEW w \in Workers, NEW e \in Executions, Claim(w, e)
        PROVE  Queue!Next
    <2>1. Queue!Claim({e}) /\ {e} \in SUBSET Executions
      BY <1>2 DEF Claim
    <2> QED
      BY <2>1 DEF Queue!Next
  <1>3. ASSUME NEW e \in Executions, Request(e) PROVE Queue!Next
    BY <1>3 DEF Request, Queue!Next
  <1>4. ASSUME NEW S \in SUBSET Executions, Recover(S) PROVE Queue!Next
    BY <1>4 DEF Recover, Queue!Next
  <1>5. CASE \/ \E w \in Workers : Crash(w)
             \/ Revoke \/ EditSource \/ UNCHANGED vars
    BY <1>5 DEF Crash, Revoke, EditSource, vars, queue, Queue!qvars
  <1> QED
    BY <1>1, <1>2, <1>3, <1>4, <1>5 DEF Next

\* The service and its workers use the outbox as LeaseQueue offers it, which
\* is what DurableOutbox implements: the two compose.
THEOREM ImplementsLeaseQueue == Spec => Queue!Spec
  <1>1. Init => Typed /\ Queue!Init
    BY TypeInitially, ExecutionAssumption DEF Init
  <1>2. Typed /\ [Next]_vars => Typed' /\ [Queue!Next]_(Queue!qvars)
    BY TypeInductive, QueueStep, ExecutionAssumption
  <1> QED
    BY <1>1, <1>2, PTL DEF Spec, Queue!Spec

\* Nothing changes for the readers.
LEMMA RecordStutters ==
    ASSUME \A e \in Executions : Current(e)' = Current(e) /\ EffectOf(phase'[e]) = EffectOf(phase[e])
    PROVE  UNCHANGED Record!records
  <1>1. [e \in Executions |-> Current(e)]' = [e \in Executions |-> Current(e)]
    OBVIOUS
  <1>2. [e \in Executions |-> EffectOf(phase[e])]' = [e \in Executions |-> EffectOf(phase[e])]
    OBVIOUS
  <1> QED
    BY <1>1, <1>2 DEF Record!records

\* A transition that append_transition accepts is one the record allows.
LEMMA RecordAdvances ==
    ASSUME TypeOK, NEW e \in Executions, NEW s \in {"RUNNING"} \cup Terminal,
           Appendable(e, s), AppendTransition(e, s), phase' = phase
    PROVE  [Record!Next]_(Record!records)
  <1>1. Current(e)' = s
    BY AppendedStatus DEF Status
  <1>2. log' = [log EXCEPT ![e] = Append(log[e], s)]
    BY AppendType DEF Status
  <1>3. \A f \in Executions \ {e} : Current(f)' = Current(f)
    BY <1>2 DEF Current, TypeOK
  <1>4. CASE s = Current(e)
    BY <1>1, <1>3, <1>4, RecordStutters
  <1>5. CASE s # Current(e)
    <2>1. \/ Current(e) = "REQUESTED" /\ s \in {"RUNNING", "FAILED_NO_EFFECT"}
          \/ Current(e) = "RUNNING" /\ s \in Terminal
      BY <1>5 DEF Appendable, Terminal
    <2>2. [f \in Executions |-> Current(f)]' = [[f \in Executions |-> Current(f)] EXCEPT ![e] = s]
      BY <1>1, <1>3
    <2>3. Record!Advance(e, s)
      BY <2>1, <2>2 DEF Record!Advance, Terminal, Record!Terminal
    <2> QED
      BY <2>3 DEF Record!Next, Terminal, Record!Terminal
  <1> QED
    BY <1>4, <1>5

\* Every step is one of the record, or shows nothing to its readers.
LEMMA RecordStep ==
    ASSUME Typed, Safe, [Next]_vars
    PROVE  [Record!Next]_(Record!records)
  <1> USE DEF Typed, TypeOK
  <1>1. ASSUME log' = log, phase' = phase PROVE UNCHANGED Record!records
    BY <1>1, RecordStutters DEF Current
  <1>2. ASSUME NEW w \in Workers, Start(w) PROVE [Record!Next]_(Record!records)
    <2>1. PICK e \in Executions : e = worker[w].e
      BY <1>2 DEF Start
    <2>2. CASE Appendable(e, "RUNNING")
      BY <1>2, <2>1, <2>2, RecordAdvances DEF Start, queue
    <2>3. CASE ~Appendable(e, "RUNNING")
      BY <1>1, <1>2, <2>1, <2>3 DEF Start, queue
    <2> QED
      BY <2>2, <2>3
  <1>3. ASSUME NEW w \in Workers, AppendTerminal(w) PROVE [Record!Next]_(Record!records)
    <2>1. PICK e \in Executions, o \in Terminal : e = worker[w].e /\ o = worker[w].outcome
      BY <1>3 DEF AppendTerminal, Concluding
    <2>2. CASE Appendable(e, o)
      BY <1>3, <2>1, <2>2, RecordAdvances DEF AppendTerminal, queue
    <2>3. CASE ~Appendable(e, o)
      BY <1>1, <1>3, <2>1, <2>3 DEF AppendTerminal, queue
    <2> QED
      BY <2>2, <2>3
  <1>4. ASSUME NEW w \in Workers, Settle(w) PROVE [Record!Next]_(Record!records)
    <2>1. PICK e \in Executions : e = worker[w].e
      BY <1>4 DEF Settle
    <2>2. Current(e) \in Terminal
      BY <1>4, <2>1 DEF Settle, Concluding, Safe, Knows
    <2>3. CASE Queue!Succeed(e, worker[w].attempt)
      <3>1. phase[e] = "LEASED" /\ phase' = [phase EXCEPT ![e] = "SUCCEEDED"]
        BY <2>3 DEF Queue!Succeed
      <3>2. [f \in Executions |-> EffectOf(phase[f])]'
               = [[f \in Executions |-> EffectOf(phase[f])] EXCEPT ![e] = "SUCCEEDED"]
        <4>1. EffectOf(phase'[e]) = "SUCCEEDED"
          BY <3>1 DEF EffectOf
        <4>2. \A f \in Executions \ {e} : EffectOf(phase'[f]) = EffectOf(phase[f])
          BY <3>1
        <4> QED
          BY <4>1, <4>2
      <3>3. [f \in Executions |-> Current(f)]' = [f \in Executions |-> Current(f)]
        BY <1>4 DEF Settle, Current
      <3>4. EffectOf(phase[e]) = "OPEN"
        BY <3>1 DEF EffectOf
      <3>5. Record!Complete(e)
        BY <2>2, <3>2, <3>3, <3>4 DEF Record!Complete, Terminal, Record!Terminal
      <3> QED
        BY <3>5 DEF Record!Next
    <2>4. CASE UNCHANGED queue
      BY <1>1, <1>4, <2>4 DEF Settle, queue
    <2> QED
      BY <1>4, <2>1, <2>3, <2>4 DEF Settle, queue
  <1>5. ASSUME NEW e \in Executions, Request(e) PROVE Record!Next
    <2>1. /\ log[e] = <<>> /\ log' = [log EXCEPT ![e] = <<"REQUESTED">>]
          /\ phase[e] = "NONE" /\ phase' = [phase EXCEPT ![e] = "PENDING"]
      BY <1>5 DEF Request, Queue!Enqueue
    <2>2. Current(e) = "NONE"
      BY <2>1 DEF Current
    <2>3. [f \in Executions |-> Current(f)]'
             = [[f \in Executions |-> Current(f)] EXCEPT ![e] = "REQUESTED"]
      BY <2>1 DEF Current, Last
    <2>4. [f \in Executions |-> EffectOf(phase[f])]'
             = [[f \in Executions |-> EffectOf(phase[f])] EXCEPT ![e] = "OPEN"]
      <3>1. EffectOf(phase'[e]) = "OPEN"
        BY <2>1 DEF EffectOf
      <3>2. \A f \in Executions \ {e} : EffectOf(phase'[f]) = EffectOf(phase[f])
        BY <2>1
      <3> QED
        BY <3>1, <3>2
    <2>5. EffectOf(phase[e]) = "NONE"
      BY <2>1 DEF EffectOf
    <2>6. Record!Request(e)
      BY <2>2, <2>3, <2>4, <2>5 DEF Record!Request
    <2> QED
      BY <2>6 DEF Record!Next
  <1>6. ASSUME NEW w \in Workers, NEW e \in Executions, Claim(w, e)
        PROVE  UNCHANGED Record!records
    <2>1. phase[e] = "PENDING" /\ phase' = [phase EXCEPT ![e] = "LEASED"] /\ log' = log
      BY <1>6 DEF Claim, Queue!Claim
    <2> QED
      BY <2>1, RecordStutters DEF Current, EffectOf
  <1>7. ASSUME NEW S \in SUBSET Executions, Recover(S)
        PROVE  [Record!Next]_(Record!records)
    <2>1. /\ \A f \in S : phase[f] = "LEASED" /\ phase'[f] \in {"PENDING", "TERMINAL_FAILED"}
          /\ \A f \in Executions \ S : phase'[f] = phase[f]
          /\ log' = log
      BY <1>7 DEF Recover, Queue!Release
    <2>2. PICK D \in SUBSET Executions : D = {f \in S : phase'[f] = "TERMINAL_FAILED"}
      OBVIOUS
    <2>3. \A f \in Executions : /\ Current(f)' = Current(f)
                                /\ f \notin D => EffectOf(phase'[f]) = EffectOf(phase[f])
                                /\ f \in D => EffectOf(phase'[f]) = "DEAD" /\ EffectOf(phase[f]) = "OPEN"
      BY <2>1, <2>2 DEF Current, EffectOf
    <2>4. CASE D = {}
      BY <2>3, <2>4, RecordStutters
    <2>5. CASE D # {}
      <3>1. [f \in Executions |-> EffectOf(phase[f])]'
               = [f \in Executions |-> IF f \in D THEN "DEAD"
                                       ELSE [g \in Executions |-> EffectOf(phase[g])][f]]
        BY <2>3
      <3>2. [f \in Executions |-> Current(f)]' = [f \in Executions |-> Current(f)]
        BY <2>3
      <3>3. Record!Exhaust(D)
        BY <2>3, <2>5, <3>1, <3>2 DEF Record!Exhaust
      <3> QED
        BY <3>3 DEF Record!Next
    <2> QED
      BY <2>4, <2>5
  <1>8. ASSUME NEW w \in Workers,
               Pondering(w) \/ MovePointer(w) \/ WriteJournal(w) \/ RestorePointer(w)
               \/ MarkRolledBack(w) \/ Crash(w)
        PROVE  UNCHANGED Record!records
    BY <1>1, <1>8, PonderingKeeps
    DEF MovePointer, WriteJournal, RestorePointer, MarkRolledBack, Crash, queue
  <1>9. CASE Revoke \/ EditSource \/ UNCHANGED vars
    BY <1>1, <1>9 DEF Revoke, EditSource, vars, queue
  <1> QED
    BY <1>2, <1>3, <1>4, <1>5, <1>6, <1>7, <1>8, <1>9, StepsSplit DEF Next, Writing

\* However workers overtake each other, die and repeat what others did, the
\* tables show a record that goes forward to one end, and an effect that is
\* completed after it: the worker implements what the service promises.
THEOREM ImplementsRecord == Spec => KeepsRecord
  <1>1. Init => Record!Init
    BY DEF Init, Queue!Init, Record!Init, Current, EffectOf
  <1>2. Init => Typed /\ Safe
    BY TypeInitially, SafeInitially, ExecutionAssumption
  <1>3. Typed /\ Safe /\ [Next]_vars => Typed' /\ Safe' /\ [Record!Next]_(Record!records)
    BY TypeInductive, SafeInductive, RecordStep, ExecutionAssumption
  <1> QED
    BY <1>1, <1>2, <1>3, PTL DEF Spec, KeepsRecord, Record!Spec

\* Whatever implements the record: an execution that has ended and an effect
\* that is completed or given up never move again.
LEMMA RecordGoesForward == KeepsRecord => Record!GoesForward
  <1>1. ASSUME [Record!Next]_(Record!records) PROVE [Record!Forward]_(Record!records)
    <2>1. ASSUME NEW e \in Executions, Record!Request(e) PROVE Record!Forward
      BY <2>1 DEF Record!Request, Record!Forward, Record!Terminal
    <2>2. ASSUME NEW e \in Executions, Record!Complete(e) PROVE Record!Forward
      BY <2>2 DEF Record!Complete, Record!Forward, Record!Terminal
    <2>3. ASSUME NEW e \in Executions, NEW s \in {"RUNNING"} \cup Record!Terminal,
                 Record!Advance(e, s)
          PROVE  Record!Forward
      BY <2>3 DEF Record!Advance, Record!Forward, Record!Terminal
    <2>4. ASSUME NEW S \in SUBSET Executions, Record!Exhaust(S) PROVE Record!Forward
      BY <2>4 DEF Record!Exhaust, Record!Forward, Record!Terminal
    <2> QED
      BY <1>1, <2>1, <2>2, <2>3, <2>4 DEF Record!Next
  <1> QED
    BY <1>1, PTL DEF KeepsRecord, Record!Spec, Record!GoesForward

\* No worker, however late, moves an execution that has ended, nor the effect
\* of one that is completed or given up.
THEOREM ExecutionsGoForward == Spec => Record!GoesForward
  BY ImplementsRecord, RecordGoesForward, PTL

\* The effect of an execution is completed after its end: nobody who reads a
\* completed effect finds the execution still under way.
THEOREM CompletionsFollowTheEnd == Spec => []Record!CompletedAfterTheEnd
  <1>1. Record!Init => Record!CompletedAfterTheEnd
    BY DEF Record!Init, Record!CompletedAfterTheEnd
  <1>2. ASSUME Record!CompletedAfterTheEnd, [Record!Next]_(Record!records)
        PROVE  Record!CompletedAfterTheEnd'
    <2> USE <1>2 DEF Record!CompletedAfterTheEnd
    <2>1. ASSUME NEW e \in Executions, Record!Request(e) PROVE Record!CompletedAfterTheEnd'
      BY <2>1 DEF Record!Request, Record!Terminal
    <2>2. ASSUME NEW e \in Executions, Record!Complete(e) PROVE Record!CompletedAfterTheEnd'
      BY <2>2 DEF Record!Complete, Record!Terminal
    <2>3. ASSUME NEW e \in Executions, NEW s \in {"RUNNING"} \cup Record!Terminal,
                 Record!Advance(e, s)
          PROVE  Record!CompletedAfterTheEnd'
      BY <2>3 DEF Record!Advance, Record!Terminal
    <2>4. ASSUME NEW S \in SUBSET Executions, Record!Exhaust(S)
          PROVE  Record!CompletedAfterTheEnd'
      BY <2>4 DEF Record!Exhaust, Record!Terminal
    <2>5. CASE UNCHANGED Record!records
      BY <2>5 DEF Record!records
    <2> QED
      BY <2>1, <2>2, <2>3, <2>4, <2>5 DEF Record!Next
  <1> QED
    BY ImplementsRecord, <1>1, <1>2, PTL DEF KeepsRecord, Record!Spec

-----------------------------------------------------------------------------
(* One worker at a time                                                    *)
(* With Overtaking = FALSE a lease outlives the work done under it.  The   *)
(* attempts at an execution then follow one another, and what is left to   *)
(* go wrong are attempts that die halfway.                                 *)

Ahead == AtEffect \cup {"claimed", "gate", "attest", "start"}
Busy(w) == worker[w].at # "idle"

\* A working worker holds the lease it works under.
Holds(r) == r.at # "idle" => /\ phase[r.e] = "LEASED" /\ attempts[r.e] = r.attempt
                             /\ r.attempt >= 1

\* No two workers are at work on one execution, and only requested ones have effects.
Exclusive == /\ \A w \in Workers : Holds(worker[w])
             /\ \A v, w \in Workers : Busy(v) /\ Busy(w) /\ worker[v].e = worker[w].e => v = w
             /\ \A e \in Executions : log[e] = <<>> => phase[e] = "NONE"

\* The status a worker acts on is the status its execution has.
Follows(r) ==
    /\ r.at \in {"gate", "attest"} => r.seen = Current(r.e)
    /\ r.at \in {"gate", "attest", "start"} => Current(r.e) \in {"REQUESTED", "RUNNING"}
    /\ r.at \in AtEffect => Current(r.e) = "RUNNING"
    /\ r.at = "append" => Appendable(r.e, r.outcome)

\* What the journal says of the execution a worker is at: nothing in its first
\* attempt, and no rollback before the third.
Undone(r) ==
    /\ r.at \in Ahead /\ r.attempt = 1 => journal[r.e].state = "NONE"
    /\ r.at \in Ahead /\ r.attempt <= 2 => journal[r.e].state # "ROLLED_BACK"
    /\ r.at \in {"install", "journal"} => journal[r.e].state = "NONE"
    /\ r.at \in {"restore", "mark"} => journal[r.e].state = "EXECUTED" /\ r.entry = journal[r.e]
    /\ r.at = "append" /\ r.outcome = "SUCCEEDED" /\ r.attempt <= 2
          => journal[r.e].state = "EXECUTED"
    /\ r.at = "append" /\ r.outcome = "FAILED_ROLLED_BACK" => journal[r.e].state = "ROLLED_BACK"

\* What the journal says of an execution, by its attempts and its status.
Truthful(e) ==
    /\ attempts[e] = 0 => journal[e].state = "NONE"
    /\ attempts[e] <= 1 => journal[e].state # "ROLLED_BACK"
    /\ Current(e) = "SUCCEEDED" /\ attempts[e] <= 2 => journal[e].state = "EXECUTED"
    /\ Current(e) = "FAILED_ROLLED_BACK" => journal[e].state = "ROLLED_BACK"

Course == /\ Exclusive
          /\ \A w \in Workers : Follows(worker[w]) /\ Undone(worker[w])
          /\ \A e \in Executions : Truthful(e)

\* How a worker in state r may decide to go on in state s.
Pondered(r, s) ==
    /\ s.e = r.e /\ s.attempt = r.attempt /\ r.at # "idle"
    /\ \/ /\ r.at = "claimed" /\ s.seen = Current(r.e) /\ s.outcome = Current(r.e)
          /\ s.at = IF Current(r.e) \in Terminal THEN "settle" ELSE "gate"
       \/ r.at = "gate" /\ s.at = "attest" /\ s.seen = r.seen
       \/ /\ r.at = "gate" /\ s.at = "append"
          /\ s.outcome = IF r.seen = "RUNNING" THEN "ROLLBACK_FAILED" ELSE "FAILED_NO_EFFECT"
       \/ r.at = "attest" /\ s.at = "start"
       \/ r.at = "attest" /\ r.seen = "RUNNING" /\ s.at = "rollback"
       \/ r.at \in {"attest", "validate"} /\ s.at = "append" /\ s.outcome = "FAILED_NO_EFFECT"
       \/ r.at = "validate" /\ s.at = "execute"
       \/ /\ r.at = "execute" /\ journal[r.e].state # "NONE"
          /\ s.at = "append" /\ s.outcome = "SUCCEEDED"
       \/ /\ r.at = "execute" /\ journal[r.e].state = "NONE"
          /\ s.at = "install" /\ s.entry.previous = pointer
       \/ r.at \in {"execute", "install", "journal"} /\ s.at = "rollback"
       \/ /\ r.at = "rollback" /\ journal[r.e].state # "EXECUTED" /\ s.at = "append"
          /\ s.outcome = IF journal[r.e].state = "NONE" THEN "ROLLBACK_FAILED"
                         ELSE "FAILED_ROLLED_BACK"
       \/ /\ r.at = "rollback" /\ journal[r.e].state = "EXECUTED"
          /\ s.at = "restore" /\ s.entry = journal[r.e]
       \/ r.at \in {"restore", "mark"} /\ s.at = "append" /\ s.outcome = "ROLLBACK_FAILED"

\* The fields of a worker that goes on, and of one that decides.
LEMMA GoFields ==
    ASSUME worker \in [Workers -> Worker], NEW w \in Workers, NEW p \in Places, Go(w, p)
    PROVE  /\ worker'[w].at = p /\ worker'[w].e = worker[w].e
           /\ worker'[w].attempt = worker[w].attempt /\ worker'[w].seen = worker[w].seen
           /\ worker'[w].outcome = worker[w].outcome /\ worker'[w].entry = worker[w].entry
  BY GoType DEF Worker

LEMMA ConcludeFields ==
    ASSUME worker \in [Workers -> Worker], NEW w \in Workers, NEW o \in Terminal, Conclude(w, o)
    PROVE  /\ worker'[w].at = "append" /\ worker'[w].e = worker[w].e
           /\ worker'[w].attempt = worker[w].attempt /\ worker'[w].outcome = o
           /\ worker'[w].entry = worker[w].entry
  <1>1. worker[w] \in Worker
        /\ worker' = [worker EXCEPT ![w] = [worker[w] EXCEPT !.at = "append", !.outcome = o]]
    BY ConcludeType
  <1>2. worker'[w] = [worker[w] EXCEPT !.at = "append", !.outcome = o]
    BY <1>1
  <1> QED
    BY <1>1, <1>2 DEF Worker

\* Every pondering step is one of them.
LEMMA PonderedRecord ==
    ASSUME Typed, NEW w \in Workers, Pondering(w)
    PROVE  Pondered(worker[w], worker'[w])
  <1> USE DEF Typed, TypeOK
  <1>1. worker[w] \in Worker /\ worker[w].at # "idle" /\ worker[w].e \in Executions
    BY PonderingKeeps
  <1>2. /\ {"attest", "rollback", "start", "execute"} \subseteq Places
        /\ {"ROLLBACK_FAILED", "FAILED_NO_EFFECT", "SUCCEEDED", "FAILED_ROLLED_BACK"} \subseteq Terminal
    BY DEF Places, Terminal
  <1>3. CASE Read(w)
    <2>1. PICK c : c = Current(worker[w].e)
      OBVIOUS
    <2>2. worker'[w] = [worker[w] EXCEPT !.at = IF c \in Terminal THEN "settle" ELSE "gate",
                                         !.seen = c, !.outcome = c]
      BY <1>3, <2>1 DEF Read
    <2>3. /\ worker'[w].at = IF c \in Terminal THEN "settle" ELSE "gate"
          /\ worker'[w].seen = c /\ worker'[w].outcome = c /\ worker'[w].e = worker[w].e
          /\ worker'[w].attempt = worker[w].attempt
      BY <1>1, <2>2 DEF Worker
    <2> QED
      BY <1>3, <2>1, <2>3 DEF Read, Pondered
  <1>4. CASE LookUp(w)
    <2>1. worker'[w] = [worker[w] EXCEPT !.at = "install",
                                         !.entry = [worker[w].entry EXCEPT !.previous = pointer]]
      BY <1>4 DEF LookUp
    <2>2. /\ worker'[w].at = "install" /\ worker'[w].e = worker[w].e
          /\ worker'[w].attempt = worker[w].attempt /\ worker'[w].entry.previous = pointer
      BY <1>1, <2>1 DEF Worker, Sandbox!Entry
    <2> QED
      BY <1>4, <2>2 DEF LookUp, Pondered, Sandbox!Journalled
  <1>5. CASE RollbackLoads(w)
    <2>1. worker'[w] = [worker[w] EXCEPT !.at = "restore", !.entry = journal[worker[w].e]]
      BY <1>5 DEF RollbackLoads
    <2>2. /\ worker'[w].at = "restore" /\ worker'[w].e = worker[w].e
          /\ worker'[w].attempt = worker[w].attempt /\ worker'[w].entry = journal[worker[w].e]
      BY <1>1, <2>1 DEF Worker
    <2> QED
      BY <1>5, <2>2 DEF RollbackLoads, Pondered
  <1>6. CASE GateFails(w) \/ GatePasses(w)
    BY <1>2, <1>6, GoFields, ConcludeFields DEF GateFails, GatePasses, Pondered
  <1>7. CASE AttestationFails(w) \/ Attest(w)
    BY <1>2, <1>7, GoFields, ConcludeFields DEF AttestationFails, Attest, Pondered
  <1>8. CASE Validate(w)
    BY <1>2, <1>8, GoFields, ConcludeFields DEF Validate, Pondered
  <1>9. CASE Replay(w)
    BY <1>2, <1>9, ConcludeFields DEF Replay, Pondered, Sandbox!Journalled
  <1>10. CASE ExecuteRaises(w) \/ JournalRaises(w)
    BY <1>2, <1>10, GoFields DEF ExecuteRaises, JournalRaises, Pondered
  <1>11. CASE RollbackReplays(w)
    BY <1>2, <1>11, ConcludeFields DEF RollbackReplays, Pondered
  <1>12. CASE RollbackRaises(w)
    BY <1>2, <1>12, ConcludeFields DEF RollbackRaises, Pondered
  <1> QED
    BY <1>3, <1>4, <1>5, <1>6, <1>7, <1>8, <1>9, <1>10, <1>11, <1>12 DEF Pondering

\* How the worker at e writes, from state r to state s: what becomes of the
\* execution, its journal entry, its effect and the pointer.
Wrote(e, r, s, status, entry, active) ==
    /\ r.at # "idle"
    /\ \/ /\ r.at = "start" /\ s.at = "validate" /\ status = "RUNNING"
          /\ entry = journal[e] /\ active = pointer
       \/ /\ r.at = "install" /\ s.at = "journal" /\ s.entry = r.entry /\ active = e
          /\ entry = journal[e] /\ status = Current(e)
       \/ /\ r.at = "journal" /\ s.at = "append" /\ s.outcome = "SUCCEEDED"
          /\ entry.state = "EXECUTED" /\ entry.previous = r.entry.previous
          /\ status = Current(e) /\ active = pointer
       \/ /\ r.at = "restore" /\ s.at = "mark" /\ s.entry = r.entry /\ active = r.entry.previous
          /\ entry = journal[e] /\ status = Current(e)
       \/ /\ r.at = "mark" /\ s.at = "append" /\ s.outcome = "FAILED_ROLLED_BACK"
          /\ entry.state = "ROLLED_BACK" /\ status = Current(e) /\ active = pointer
       \/ /\ r.at = "append" /\ s.at = "settle" /\ status = r.outcome
          /\ entry = journal[e] /\ active = pointer
    /\ s.e = r.e /\ s.attempt = r.attempt

\* Every writing step but the last is one of them: append_transition does not
\* refuse, and the effect stays leased.
LEMMA WrittenRecord ==
    ASSUME Typed, NEW w \in Workers, Writing(w), ~Settle(w), NEW e \in Executions,
           e = worker[w].e, Follows(worker[w])
    PROVE  /\ Wrote(e, worker[w], worker'[w], Current(e)', journal'[e], pointer')
           /\ UNCHANGED queue
  <1> USE DEF Typed, TypeOK
  <1>1. worker[w] \in Worker
    OBVIOUS
  <1>2. CASE Start(w)
    <2>1. Appendable(e, "RUNNING")
      BY <1>2 DEF Start, Follows, Appendable
    <2>2. Current(e)' = "RUNNING"
      BY <1>2, <2>1, AppendedStatus DEF Start, Status
    <2> QED
      BY <1>2, <2>1, <2>2, GoFields DEF Start, Wrote, Places, sandbox
  <1>3. CASE AppendTerminal(w)
    <2>1. PICK o \in Terminal : o = worker[w].outcome
      BY <1>3 DEF AppendTerminal, Concluding
    <2>2. Appendable(e, o)
      BY <1>3, <2>1 DEF AppendTerminal, Follows
    <2>3. Current(e)' = o
      BY <1>3, <2>1, <2>2, AppendedStatus DEF AppendTerminal, Status
    <2> QED
      BY <1>3, <2>1, <2>2, <2>3, GoFields DEF AppendTerminal, Wrote, Places, sandbox
  <1>4. CASE MovePointer(w)
    <2>1. Current(e)' = Current(e)
      BY <1>4 DEF MovePointer, Current
    <2> QED
      BY <1>4, <2>1, GoFields DEF MovePointer, Sandbox!Activate, Wrote, Places
  <1>5. CASE RestorePointer(w)
    <2>1. Current(e)' = Current(e)
      BY <1>5 DEF RestorePointer, Current
    <2> QED
      BY <1>5, <2>1, GoFields DEF RestorePointer, Sandbox!Restore, Wrote, Places
  <1>6. CASE WriteJournal(w)
    <2>1. Current(e)' = Current(e)
      BY <1>6 DEF WriteJournal, Current
    <2>2. journal'[e] = [state |-> "EXECUTED", previous |-> worker[w].entry.previous]
      BY <1>6 DEF WriteJournal, Sandbox!RecordExecuted, Sandbox!SandboxTypeOK
    <2>3. /\ worker'[w].at = "append" /\ worker'[w].e = worker[w].e
          /\ worker'[w].attempt = worker[w].attempt /\ worker'[w].outcome = "SUCCEEDED"
      BY <1>6, ConcludeFields DEF WriteJournal, Terminal
    <2> QED
      BY <1>6, <2>1, <2>2, <2>3 DEF WriteJournal, Sandbox!RecordExecuted, Wrote
  <1>7. CASE MarkRolledBack(w)
    <2>1. Current(e)' = Current(e)
      BY <1>7 DEF MarkRolledBack, Current
    <2>2. journal'[e].state = "ROLLED_BACK"
      <3>1. journal'[e] = [worker[w].entry EXCEPT !.state = "ROLLED_BACK"]
        BY <1>7 DEF MarkRolledBack, Sandbox!RecordRolledBack, Sandbox!SandboxTypeOK
      <3> QED
        BY <1>1, <3>1 DEF Worker, Sandbox!Entry
    <2>3. /\ worker'[w].at = "append" /\ worker'[w].e = worker[w].e
          /\ worker'[w].attempt = worker[w].attempt /\ worker'[w].outcome = "FAILED_ROLLED_BACK"
      BY <1>7, ConcludeFields DEF MarkRolledBack, Terminal
    <2> QED
      BY <1>7, <2>1, <2>2, <2>3 DEF MarkRolledBack, Sandbox!RecordRolledBack, Wrote
  <1> QED
    BY <1>2, <1>3, <1>4, <1>5, <1>6, <1>7 DEF Writing

\* A worker that holds its lease settles the effect and is idle.
LEMMA SettledRecord ==
    ASSUME Typed, NEW w \in Workers, Settle(w), Holds(worker[w])
    PROVE  /\ worker'[w] = Idle
           /\ phase' = [phase EXCEPT ![worker[w].e] = "SUCCEEDED"]
           /\ UNCHANGED <<attempts, budget, log, sandbox>>
  BY DEF Typed, TypeOK, Settle, Holds, Queue!Succeed, Leave

\* A step of a worker touches its own execution only.
LEMMA OthersUntouched ==
    ASSUME Typed, NEW w \in Workers, WorkerStep(w)
    PROVE  /\ worker[w].at # "idle" /\ worker[w].e \in Executions
           /\ \A v \in Workers \ {w} : worker'[v] = worker[v]
           /\ \A f \in Executions \ {worker[w].e} :
                 log'[f] = log[f] /\ phase'[f] = phase[f] /\ journal'[f] = journal[f]
           /\ UNCHANGED <<attempts, budget, crashes>>
  <1> USE DEF Typed, TypeOK
  <1>1. \A v \in Workers \ {w} : worker'[v] = worker[v]
    BY StepsSplit, PonderingWorker, WritingWorker
  <1>2. CASE Pondering(w)
    BY <1>1, <1>2, PonderingKeeps DEF queue, sandbox
  <1>3. CASE Start(w) \/ AppendTerminal(w)
    BY <1>1, <1>3 DEF Start, AppendTerminal, AppendTransition, queue, sandbox, bounds
  <1>4. CASE MovePointer(w) \/ RestorePointer(w)
    BY <1>1, <1>4 DEF MovePointer, RestorePointer, Sandbox!Activate, Sandbox!Restore, queue, bounds
  <1>5. CASE WriteJournal(w) \/ MarkRolledBack(w)
    BY <1>1, <1>5 DEF WriteJournal, MarkRolledBack, Sandbox!RecordExecuted,
                      Sandbox!RecordRolledBack, Sandbox!SandboxTypeOK, queue, bounds
  <1>6. CASE Settle(w)
    BY <1>1, <1>6 DEF Settle, Queue!Succeed, queue, sandbox, bounds
  <1> QED
    BY <1>2, <1>3, <1>4, <1>5, <1>6, StepsSplit DEF Writing

\* What holds of a worker lasts while its execution is left alone.
LEMMA CourseLasts ==
    ASSUME NEW r \in Worker, Holds(r), Follows(r), Undone(r),
           r.at # "idle" => /\ phase'[r.e] = phase[r.e] /\ attempts'[r.e] = attempts[r.e]
                            /\ log'[r.e] = log[r.e] /\ journal'[r.e] = journal[r.e]
    PROVE  Holds(r)' /\ Follows(r)' /\ Undone(r)'
  <1>1. CASE r.at = "idle"
    BY <1>1 DEF Holds, Follows, Undone, AtEffect, Ahead
  <1>2. CASE r.at # "idle"
    <2>1. Current(r.e)' = Current(r.e)
      BY <1>2 DEF Current
    <2> QED
      BY <1>2, <2>1 DEF Holds, Follows, Undone, Appendable
  <1> QED
    BY <1>1, <1>2

\* What holds of an execution lasts while it is left alone.
LEMMA TruthLasts ==
    ASSUME NEW e \in Executions, Truthful(e), attempts'[e] = attempts[e],
           log'[e] = log[e], journal'[e] = journal[e]
    PROVE  Truthful(e)'
  BY DEF Truthful, Current

\* An idle worker promises nothing.
LEMMA IdleCourse == Holds(Idle)' /\ Follows(Idle)' /\ Undone(Idle)'
  BY DEF Idle, Holds, Follows, Undone, AtEffect, Ahead

\* A deciding worker stays on course.
LEMMA PonderingCourse ==
    ASSUME Typed, Course, NEW w \in Workers, Pondering(w), NEW e \in Executions, e = worker[w].e
    PROVE  /\ Holds(worker[w])' /\ Follows(worker[w])' /\ Undone(worker[w])'
           /\ Truthful(e)' /\ log'[e] # <<>>
  <1> USE DEF Typed, TypeOK
  <1>1. UNCHANGED <<queue, sandbox, log>> /\ worker[w].at # "idle"
    BY PonderingKeeps
  <1>2. Current(e)' = Current(e) /\ journal' = journal /\ phase' = phase /\ attempts' = attempts
    BY <1>1 DEF Current, queue, sandbox
  <1>3. PICK r \in Worker : r = worker[w] /\ Holds(r) /\ Follows(r) /\ Undone(r) /\ r.at # "idle"
    BY <1>1 DEF Course, Exclusive
  <1>4. PICK s : s = worker'[w] /\ Pondered(r, s)
    BY <1>3, PonderedRecord
  <1>5. Truthful(e) /\ log[e] # <<>>
    BY <1>1, <1>3 DEF Course, Exclusive, Holds
  <1>6. Current(e) \in Status /\ (Current(e) \notin Terminal => Current(e) \in {"REQUESTED", "RUNNING"})
    <2>1. log[e] \in Seq(Status) /\ log[e] # <<>>
      BY <1>5
    <2>2. Current(e) = log[e][Len(log[e])] /\ Current(e) \in Status
      BY <2>1 DEF Current, Last
    <2> QED
      BY <2>2 DEF Status
  <1>7. Holds(s)'
    BY <1>2, <1>3, <1>4 DEF Holds, Pondered
  <1>8. Follows(s)'
    <2>1. Follows(s)
      BY <1>3, <1>4, <1>6 DEF Follows, Pondered, AtEffect, Appendable, Terminal
    <2> QED
      BY <1>2, <1>3, <1>4, <2>1 DEF Follows, Pondered, Appendable
  <1>9. Undone(s)'
    <2>1. journal[e].state \in {"NONE", "EXECUTED", "ROLLED_BACK"}
      BY DEF Sandbox!SandboxTypeOK, Sandbox!Entry
    <2>2. Undone(s)
      BY <1>3, <1>4, <2>1 DEF Undone, Pondered, AtEffect, Ahead
    <2> QED
      BY <1>2, <1>3, <1>4, <2>2 DEF Undone, Pondered
  <1> QED
    BY <1>1, <1>2, <1>4, <1>5, <1>7, <1>8, <1>9 DEF Truthful, Holds, Follows, Undone, Appendable, Current

\* A writing worker stays on course.
LEMMA WritingCourse ==
    ASSUME Typed, Course, NEW w \in Workers, Writing(w), ~Settle(w),
           NEW e \in Executions, e = worker[w].e
    PROVE  /\ Holds(worker[w])' /\ Follows(worker[w])' /\ Undone(worker[w])'
           /\ Truthful(e)' /\ log'[e] # <<>>
  <1> USE DEF Typed, TypeOK
  <1>1. PICK r \in Worker : r = worker[w] /\ Holds(r) /\ Follows(r) /\ Undone(r)
    BY DEF Course, Exclusive
  <1>2. PICK c, n, p : c = Current(e)' /\ n = journal'[e] /\ p = pointer'
    OBVIOUS
  <1>3. PICK s : s = worker'[w] /\ Wrote(e, r, s, c, n, p) /\ phase' = phase /\ attempts' = attempts
    BY <1>1, <1>2, WrittenRecord DEF queue
  <1>4. Truthful(e) /\ e = r.e /\ r.at # "idle"
    BY <1>1, <1>3 DEF Course, Wrote
  <1>5. Holds(s)'
    BY <1>1, <1>3 DEF Holds, Wrote
  <1>6. Follows(s)'
    BY <1>1, <1>2, <1>3, <1>4 DEF Follows, Wrote, AtEffect, Appendable
  <1>7. attempts[e] = r.attempt /\ attempts[e] \in Nat /\ r.attempt >= 1
    <2>1. attempts[e] \in 0..3
      BY DEF MaxAttempts
    <2> HIDE DEF Typed
    <2> QED
      BY <1>1, <1>4, <2>1 DEF Holds
  <1>8. journal[e].state \in {"NONE", "EXECUTED", "ROLLED_BACK"}
    BY DEF Sandbox!SandboxTypeOK, Sandbox!Entry
  <1>9. Undone(s)'
    BY <1>1, <1>2, <1>3, <1>4, <1>7, <1>8 DEF Undone, Wrote, AtEffect, Ahead
  <1>10. Truthful(e)'
    <2>1. /\ attempts[e] = 0 => n.state = "NONE"
          /\ attempts[e] <= 1 => n.state # "ROLLED_BACK"
          /\ c = "SUCCEEDED" /\ attempts[e] <= 2 => n.state = "EXECUTED"
          /\ c = "FAILED_ROLLED_BACK" => n.state = "ROLLED_BACK"
      BY <1>1, <1>3, <1>4, <1>7, <1>8 DEF Undone, Follows, Truthful, Wrote, AtEffect, Ahead
    <2> QED
      BY <1>2, <1>3, <2>1 DEF Truthful
  <1>11. log'[e] # <<>>
    <2>1. c # "NONE"
      BY <1>1, <1>3, <1>4 DEF Wrote, Follows, AtEffect, Concluding, Terminal
    <2> QED
      BY <1>2, <2>1 DEF Current
  <1> QED
    BY <1>3, <1>5, <1>6, <1>9, <1>10, <1>11 DEF Holds, Follows, Undone, Appendable, Current

\* No step takes workers that hold their leases off course.
LEMMA CourseInductive ==
    ASSUME Typed, Typed', Course, [Next]_vars, Overtaking = FALSE
    PROVE  Course'
  <1>1. \A w \in Workers : /\ worker[w] \in Worker /\ Holds(worker[w]) /\ Follows(worker[w])
                           /\ Undone(worker[w]) /\ (Busy(w) => worker[w].e \in Executions)
    BY DEF Typed, TypeOK, Course, Exclusive, Busy
  <1>2. \A e \in Executions : Truthful(e) /\ (log[e] = <<>> => phase[e] = "NONE")
    BY DEF Course, Exclusive
  <1>3. \A v, w \in Workers : Busy(v) /\ Busy(w) /\ worker[v].e = worker[w].e => v = w
    BY DEF Course, Exclusive
  <1>4. ASSUME \A w \in Workers : Holds(worker[w])' /\ Follows(worker[w])' /\ Undone(worker[w])',
               \A v, w \in Workers : Busy(v)' /\ Busy(w)' /\ worker'[v].e = worker'[w].e => v = w,
               \A e \in Executions : Truthful(e)' /\ (log'[e] = <<>> => phase'[e] = "NONE")
        PROVE  Course'
    BY <1>4 DEF Course, Exclusive, Holds, Follows, Undone, Truthful, Busy
  <1>5. ASSUME NEW w \in Workers, worker'[w] = Idle
        PROVE  Holds(worker[w])' /\ Follows(worker[w])' /\ Undone(worker[w])'
    BY <1>5, IdleCourse DEF Holds, Follows, Undone
  <1>6. ASSUME NEW v \in Workers, worker'[v] = worker[v],
               Busy(v) => /\ phase'[worker[v].e] = phase[worker[v].e]
                          /\ attempts'[worker[v].e] = attempts[worker[v].e]
                          /\ log'[worker[v].e] = log[worker[v].e]
                          /\ journal'[worker[v].e] = journal[worker[v].e]
        PROVE  Holds(worker[v])' /\ Follows(worker[v])' /\ Undone(worker[v])'
    <2>1. PICK r \in Worker : r = worker[v]
      BY <1>1
    <2>2. Holds(r)' /\ Follows(r)' /\ Undone(r)'
      BY <1>1, <1>6, <2>1, CourseLasts DEF Busy
    <2> QED
      BY <1>6, <2>1, <2>2 DEF Holds, Follows, Undone
  <1>7. ASSUME NEW w \in Workers, WorkerStep(w) PROVE Course'
    <2>1. PICK e \in Executions : e = worker[w].e
      BY <1>7, OthersUntouched
    <2>2. /\ \A v \in Workers \ {w} : worker'[v] = worker[v]
          /\ \A f \in Executions \ {e} :
                log'[f] = log[f] /\ phase'[f] = phase[f] /\ journal'[f] = journal[f]
          /\ attempts' = attempts /\ Busy(w)
      BY <1>7, <2>1, OthersUntouched DEF Busy
    <2>3. ASSUME NEW v \in Workers \ {w}
          PROVE  Holds(worker[v])' /\ Follows(worker[v])' /\ Undone(worker[v])'
      BY <1>1, <1>3, <1>6, <2>1, <2>2
    <2>4. ASSUME NEW f \in Executions \ {e}
          PROVE  Truthful(f)' /\ (log'[f] = <<>> => phase'[f] = "NONE")
      BY <1>2, <2>2, TruthLasts
    <2>5. /\ Holds(worker[w])' /\ Follows(worker[w])' /\ Undone(worker[w])'
          /\ Truthful(e)' /\ (log'[e] = <<>> => phase'[e] = "NONE")
          /\ Busy(w)' => worker'[w].e = e
      <3>1. CASE Pondering(w)
        BY <2>1, <3>1, PonderingCourse, PonderedRecord DEF Pondered
      <3>2. CASE Writing(w) /\ ~Settle(w)
        <4>1. worker'[w].e = e
          BY <1>1, <2>1, <3>2, WrittenRecord DEF Wrote
        <4> QED
          BY <2>1, <3>2, <4>1, WritingCourse
      <3>3. CASE Settle(w)
        <4>1. /\ worker'[w] = Idle /\ UNCHANGED <<attempts, log, journal>>
          BY <1>1, <3>3, SettledRecord DEF sandbox
        <4>2. Truthful(e)'
          BY <1>2, <4>1, TruthLasts
        <4>3. log[e] # <<>>
          BY <1>1, <1>2, <2>1, <2>2 DEF Holds, Busy
        <4> QED
          BY <1>5, <4>1, <4>2, <4>3 DEF Idle, Busy
      <3> QED
        BY <1>7, <3>1, <3>2, <3>3, StepsSplit
    <2>6. ASSUME NEW u \in Workers, NEW v \in Workers, Busy(u)', Busy(v)',
                 worker'[u].e = worker'[v].e
          PROVE  u = v
      BY <1>3, <2>1, <2>2, <2>5, <2>6 DEF Busy
    <2> QED
      BY <1>4, <2>3, <2>4, <2>5, <2>6
  <1>8. ASSUME NEW w \in Workers, NEW e \in Executions, Claim(w, e) PROVE Course'
    <2>1. PICK r : r = [Idle EXCEPT !.at = "claimed", !.e = e, !.attempt = attempts[e] + 1]
      OBVIOUS
    <2>2. /\ phase[e] = "PENDING" /\ phase'[e] = "LEASED" /\ attempts'[e] = attempts[e] + 1
          /\ \A f \in Executions \ {e} : phase'[f] = phase[f] /\ attempts'[f] = attempts[f]
          /\ log' = log /\ journal' = journal
          /\ worker'[w] = r /\ \A v \in Workers \ {w} : worker'[v] = worker[v]
      BY <1>8, <2>1 DEF Claim, Queue!Claim, sandbox, Typed, TypeOK
    <2>3. attempts[e] \in Nat /\ log[e] # <<>>
      <3>1. attempts[e] \in 0..3
        BY DEF Typed, TypeOK, MaxAttempts
      <3>2. log[e] # <<>>
        BY <1>2, <2>2
      <3> QED
        BY <3>1, <3>2
    <2>4. \A v \in Workers : Busy(v) => worker[v].e # e
      BY <1>1, <2>2 DEF Busy, Holds
    <2>5. r.at = "claimed" /\ r.e = e /\ r.attempt = attempts[e] + 1
      BY <2>1 DEF Idle
    <2>6. Holds(worker[w])' /\ Follows(worker[w])' /\ Undone(worker[w])'
      <3>1. Holds(r)'
        BY <2>2, <2>3, <2>5 DEF Holds
      <3>2. Follows(r)'
        BY <2>5 DEF Follows, AtEffect
      <3>3. Undone(r)'
        <4>1. /\ attempts[e] = 0 => journal[e].state = "NONE"
              /\ attempts[e] <= 1 => journal[e].state # "ROLLED_BACK"
          BY <1>2 DEF Truthful
        <4> QED
          BY <2>2, <2>3, <2>5, <4>1 DEF Undone, Ahead, AtEffect
      <3> QED
        BY <2>2, <3>1, <3>2, <3>3 DEF Holds, Follows, Undone
    <2>7. ASSUME NEW v \in Workers \ {w}
          PROVE  Holds(worker[v])' /\ Follows(worker[v])' /\ Undone(worker[v])'
      BY <1>1, <1>6, <2>2, <2>4
    <2>8. ASSUME NEW f \in Executions
          PROVE  Truthful(f)' /\ (log'[f] = <<>> => phase'[f] = "NONE")
      <3>1. CASE f = e
        <4>1. Current(e)' = Current(e)
          BY <2>2 DEF Current
        <4> QED
          BY <1>2, <2>2, <2>3, <3>1, <4>1 DEF Truthful
      <3>2. CASE f # e
        BY <1>2, <2>2, <3>2, TruthLasts
      <3> QED
        BY <3>1, <3>2
    <2>9. ASSUME NEW u \in Workers, NEW v \in Workers, Busy(u)', Busy(v)',
                 worker'[u].e = worker'[v].e
          PROVE  u = v
      BY <1>3, <2>2, <2>4, <2>5, <2>9 DEF Busy
    <2> QED
      BY <1>4, <2>6, <2>7, <2>8, <2>9
  <1>9. ASSUME NEW w \in Workers, Crash(w) PROVE Course'
    <2>1. /\ worker'[w] = Idle /\ \A v \in Workers \ {w} : worker'[v] = worker[v]
          /\ UNCHANGED <<phase, attempts, log, journal>>
      BY <1>9 DEF Crash, Leave, queue, sandbox, Typed, TypeOK
    <2>2. \A v \in Workers : Holds(worker[v])' /\ Follows(worker[v])' /\ Undone(worker[v])'
      BY <1>5, <1>6, <2>1
    <2>3. \A f \in Executions : Truthful(f)' /\ (log'[f] = <<>> => phase'[f] = "NONE")
      BY <1>2, <2>1, TruthLasts
    <2>4. ASSUME NEW u \in Workers, NEW v \in Workers, Busy(u)', Busy(v)',
                 worker'[u].e = worker'[v].e
          PROVE  u = v
      BY <1>3, <2>1, <2>4 DEF Busy, Idle
    <2> QED
      BY <1>4, <2>2, <2>3, <2>4
  <1>10. ASSUME NEW e \in Executions, Request(e) PROVE Course'
    <2>1. /\ log[e] = <<>> /\ log'[e] = <<"REQUESTED">> /\ phase[e] = "NONE"
          /\ \A f \in Executions \ {e} : log'[f] = log[f] /\ phase'[f] = phase[f]
          /\ UNCHANGED <<worker, attempts, journal>>
      BY <1>10 DEF Request, Queue!Enqueue, sandbox, Typed, TypeOK
    <2>2. \A v \in Workers : Busy(v) => worker[v].e # e
      BY <1>1, <2>1 DEF Busy, Holds
    <2>3. \A v \in Workers : Holds(worker[v])' /\ Follows(worker[v])' /\ Undone(worker[v])'
      BY <1>1, <1>6, <2>1, <2>2
    <2>4. ASSUME NEW f \in Executions
          PROVE  Truthful(f)' /\ (log'[f] = <<>> => phase'[f] = "NONE")
      <3>1. CASE f = e
        <4>1. Current(e)' = "REQUESTED"
          BY <2>1 DEF Current, Last
        <4> QED
          BY <1>2, <2>1, <3>1, <4>1 DEF Truthful
      <3>2. CASE f # e
        BY <1>2, <2>1, <3>2, TruthLasts
      <3> QED
        BY <3>1, <3>2
    <2> QED
      BY <1>3, <1>4, <2>1, <2>3, <2>4 DEF Busy
  <1>11. ASSUME NEW S \in SUBSET Executions, Recover(S) PROVE Course'
    <2>1. /\ \A f \in Executions : IF f \in S THEN phase[f] = "LEASED" ELSE phase'[f] = phase[f]
          /\ UNCHANGED <<worker, attempts, log, journal>>
          /\ \A w \in Workers, f \in S : ~AtWork(w, f)
      BY <1>11, Overtaking = FALSE DEF Recover, Queue!Release, sandbox, Typed, TypeOK
    <2>2. \A v \in Workers : Busy(v) => worker[v].e \notin S
      BY <1>1, <2>1 DEF Busy, Holds, AtWork
    <2>3. \A v \in Workers : Holds(worker[v])' /\ Follows(worker[v])' /\ Undone(worker[v])'
      BY <1>1, <1>6, <2>1, <2>2
    <2>4. \A f \in Executions : Truthful(f)' /\ (log'[f] = <<>> => phase'[f] = "NONE")
      BY <1>2, <2>1, TruthLasts
    <2> QED
      BY <1>3, <1>4, <2>1, <2>3, <2>4 DEF Busy
  <1>12. CASE Revoke \/ EditSource \/ UNCHANGED vars
    <2>1. UNCHANGED <<worker, phase, attempts, log, journal>>
      BY <1>12 DEF Revoke, EditSource, vars, queue, sandbox
    <2>2. \A v \in Workers : Holds(worker[v])' /\ Follows(worker[v])' /\ Undone(worker[v])'
      BY <1>6, <2>1
    <2>3. \A f \in Executions : Truthful(f)' /\ (log'[f] = <<>> => phase'[f] = "NONE")
      BY <1>2, <2>1, TruthLasts
    <2> QED
      BY <1>3, <1>4, <2>1, <2>2, <2>3 DEF Busy
  <1> QED
    BY <1>7, <1>8, <1>9, <1>10, <1>11, <1>12 DEF Next

\* At the beginning nobody is at work and nothing is journalled.
LEMMA CourseInitially == ASSUME Init PROVE Course
  <1>1. \A w \in Workers : worker[w] = Idle
    BY DEF Init
  <1>2. Holds(Idle) /\ Follows(Idle) /\ Undone(Idle) /\ Idle.at = "idle"
    BY DEF Idle, Holds, Follows, Undone, AtEffect, Ahead
  <1>3. \A e \in Executions : /\ log[e] = <<>> /\ phase[e] = "NONE"
                              /\ journal[e].state = "NONE"
    BY DEF Init, Queue!Init, Sandbox!SandboxInit, Sandbox!NoEntry
  <1>4. \A e \in Executions : Truthful(e)
    BY <1>3 DEF Truthful, Current
  <1> QED
    BY <1>1, <1>2, <1>3, <1>4 DEF Course, Exclusive, Busy

\* Without overtaking, workers hold their leases and stay on course for ever.
LEMMA CourseAlways == ASSUME Overtaking = FALSE PROVE Spec => [](Typed /\ Course)
  <1>1. Init => Typed /\ Course
    BY TypeInitially, CourseInitially, ExecutionAssumption
  <1>2. Typed /\ Course /\ [Next]_vars => (Typed /\ Course)'
    BY TypeInductive, CourseInductive, ExecutionAssumption
  <1> QED
    BY <1>1, <1>2, PTL DEF Spec

\* A worker nobody overtakes is never refused: append_transition accepts what
\* it announces and concludes, and the outbox accepts its lease.
NeverRefused ==
    \A w \in Workers :
        LET e == worker[w].e
        IN /\ worker[w].at = "start" => Appendable(e, "RUNNING")
           /\ worker[w].at = "append" => Appendable(e, worker[w].outcome)
           /\ worker[w].at = "settle" => phase[e] = "LEASED" /\ attempts[e] = worker[w].attempt

\* append_transition and the outbox refuse a worker only if another was given
\* its effect: while leases outlive the work nobody's steps are refused.
THEOREM RefusalsMeanOvertaking == ASSUME Overtaking = FALSE PROVE Spec => []NeverRefused
  <1>1. Course => NeverRefused
    BY DEF Course, Exclusive, Holds, Follows, Appendable, NeverRefused
  <1> QED
    BY <1>1, CourseAlways, PTL

\* No execution is reported as succeeded after one retry unless it is installed
\* and not rolled back: it takes two attempts that die halfway to make a success false.
OneRetryIsSafe ==
    \A e \in Executions :
        attempts[e] <= 2 /\ Current(e) = "SUCCEEDED" => journal[e].state = "EXECUTED"

\* After one retry SUCCEEDED is true, whatever happens to other executions.
THEOREM OneRetryNeverLies == ASSUME Overtaking = FALSE PROVE Spec => []OneRetryIsSafe
  <1>1. Course => OneRetryIsSafe
    BY DEF Course, Truthful, OneRetryIsSafe
  <1> QED
    BY <1>1, CourseAlways, PTL

-----------------------------------------------------------------------------
(* Counting the crashes                                                    *)

\* The effect of e is waiting, given up or leased to nobody who works on it.
Abandoned(e) == \/ phase[e] \in {"PENDING", "TERMINAL_FAILED"}
                \/ phase[e] = "LEASED" /\ \A w \in Workers : Busy(w) => worker[w].e # e

\* Some attempt at e has died.
Lost(e) == IF Abandoned(e) THEN attempts[e] >= 1 ELSE attempts[e] >= 2

\* Every attempt but the last died in a crash.
Counted == /\ \A e \in Executions : /\ attempts[e] <= crashes + 1
                                    /\ Abandoned(e) => attempts[e] <= crashes
           /\ crashes = 0 => \A e \in Executions : ~Lost(e)
           /\ crashes <= 1 => \A e, f \in Executions : Lost(e) /\ Lost(f) => e = f

\* The counts stay right while no attempt begins or dies.
LEMMA CountLasts ==
    ASSUME Typed, Counted, UNCHANGED <<attempts, crashes>>,
           \A e \in Executions : (Abandoned(e)' <=> Abandoned(e)) \/ attempts[e] = 0
    PROVE  Counted'
  <1>1. crashes \in Nat /\ \A e \in Executions : attempts[e] \in Nat
    <2>1. \A e \in Executions : attempts[e] \in 0..3
      BY DEF Typed, TypeOK, MaxAttempts
    <2> QED
      BY <2>1, ExecutionAssumption DEF Typed, TypeOK, ExecutionAssumption
  <1>2. ASSUME NEW e \in Executions
        PROVE  /\ attempts'[e] <= crashes' + 1
               /\ Abandoned(e)' => attempts'[e] <= crashes'
               /\ Lost(e)' <=> Lost(e)
    BY <1>1 DEF Counted, Lost
  <1> QED
    BY <1>2 DEF Counted

\* No step loses count.
LEMMA CountInductive ==
    ASSUME Typed, Course, Counted, [Next]_vars, Overtaking = FALSE
    PROVE  Counted'
  <1>1. crashes \in Nat /\ \A e \in Executions : attempts[e] \in Nat
    <2>1. \A e \in Executions : attempts[e] \in 0..3
      BY DEF Typed, TypeOK, MaxAttempts
    <2> QED
      BY <2>1, ExecutionAssumption DEF Typed, TypeOK, ExecutionAssumption
  <1>2. \A w \in Workers : /\ Holds(worker[w]) /\ Follows(worker[w])
                           /\ Busy(w) => worker[w].e \in Executions
    BY DEF Typed, TypeOK, Course, Exclusive, Busy
  <1>3. \A v, w \in Workers : Busy(v) /\ Busy(w) /\ worker[v].e = worker[w].e => v = w
    BY DEF Course, Exclusive
  <1>4. ASSUME NEW w \in Workers, WorkerStep(w) PROVE Counted'
    <2>1. PICK e \in Executions : e = worker[w].e
      BY <1>4, OthersUntouched
    <2>2. /\ \A v \in Workers \ {w} : worker'[v] = worker[v]
          /\ UNCHANGED <<attempts, crashes>> /\ Busy(w)
      BY <1>4, OthersUntouched DEF Busy
    <2>3. \A f \in Executions : Abandoned(f)' <=> Abandoned(f)
      <3>1. CASE Settle(w)
        <4>1. /\ worker'[w] = Idle /\ phase' = [phase EXCEPT ![e] = "SUCCEEDED"]
          BY <1>2, <2>1, <3>1, SettledRecord
        <4>2. phase[e] = "LEASED"
          BY <1>2, <2>1, <2>2 DEF Holds, Busy
        <4>3. ~Abandoned(e) /\ ~Abandoned(e)'
          BY <2>1, <2>2, <4>1, <4>2 DEF Abandoned, Typed, TypeOK
        <4>4. ASSUME NEW f \in Executions \ {e} PROVE Abandoned(f)' <=> Abandoned(f)
          <5>1. phase'[f] = phase[f]
            BY <4>1 DEF Typed, TypeOK
          <5>2. worker'[w].at = "idle"
            BY <4>1 DEF Idle
          <5> QED
            BY <2>1, <2>2, <5>1, <5>2 DEF Abandoned, Busy
        <4> QED
          BY <4>3, <4>4
      <3>2. CASE ~Settle(w)
        <4>1. phase' = phase /\ worker'[w].e = e /\ Busy(w)'
          <5>1. CASE Pondering(w)
            <6>1. Pondered(worker[w], worker'[w]) /\ phase' = phase
              BY <5>1, PonderedRecord, PonderingKeeps DEF queue
            <6> QED
              BY <2>1, <6>1 DEF Pondered, Busy
          <5>2. CASE Writing(w)
            <6>1. PICK c, n, p : c = Current(e)' /\ n = journal'[e] /\ p = pointer'
              OBVIOUS
            <6>2. Wrote(e, worker[w], worker'[w], c, n, p) /\ phase' = phase
              BY <1>2, <2>1, <3>2, <5>2, <6>1, WrittenRecord DEF queue
            <6> QED
              BY <2>1, <6>2 DEF Wrote, Busy
          <5> QED
            BY <1>4, <5>1, <5>2, StepsSplit
        <4> QED
          BY <2>1, <2>2, <4>1 DEF Abandoned, Busy
      <3> QED
        BY <3>1, <3>2
    <2> QED
      BY <2>2, <2>3, CountLasts
  <1>5. ASSUME NEW w \in Workers, NEW e \in Executions, Claim(w, e) PROVE Counted'
    <2>1. /\ phase[e] = "PENDING" /\ phase'[e] = "LEASED" /\ attempts'[e] = attempts[e] + 1
          /\ \A f \in Executions \ {e} : phase'[f] = phase[f] /\ attempts'[f] = attempts[f]
          /\ worker'[w].e = e /\ worker'[w].at = "claimed" /\ crashes' = crashes
          /\ worker[w].at = "idle" /\ \A v \in Workers \ {w} : worker'[v] = worker[v]
      BY <1>5 DEF Claim, Queue!Claim, bounds, Typed, TypeOK, Idle
    <2>2. Abandoned(e) /\ ~Abandoned(e)'
      BY <2>1 DEF Abandoned, Busy
    <2>3. ASSUME NEW f \in Executions \ {e} PROVE Abandoned(f)' <=> Abandoned(f)
      BY <2>1 DEF Abandoned, Busy
    <2>4. \A f \in Executions : Lost(f)' <=> Lost(f)
      BY <1>1, <2>1, <2>2, <2>3 DEF Lost
    <2>5. ASSUME NEW f \in Executions
          PROVE  /\ attempts'[f] <= crashes' + 1
                 /\ Abandoned(f)' => attempts'[f] <= crashes'
      BY <1>1, <2>1, <2>2, <2>3 DEF Counted
    <2> QED
      BY <2>1, <2>4, <2>5 DEF Counted
  <1>6. ASSUME NEW w \in Workers, Crash(w) PROVE Counted'
    <2>1. PICK e \in Executions : e = worker[w].e /\ Busy(w)
      BY <1>2, <1>6 DEF Crash, Busy
    <2>2. /\ worker'[w] = Idle /\ \A v \in Workers \ {w} : worker'[v] = worker[v]
          /\ UNCHANGED <<phase, attempts>> /\ crashes' = crashes + 1
      BY <1>6 DEF Crash, Leave, queue, Typed, TypeOK
    <2>3. ASSUME NEW f \in Executions \ {e} PROVE Abandoned(f)' <=> Abandoned(f)
      BY <2>1, <2>2 DEF Abandoned, Busy, Idle
    <2>4. ASSUME NEW f \in Executions \ {e} PROVE Lost(f)' <=> Lost(f)
      BY <2>2, <2>3 DEF Lost
    <2>5. ASSUME NEW f \in Executions
          PROVE  /\ attempts'[f] <= crashes' + 1
                 /\ Abandoned(f)' => attempts'[f] <= crashes'
      BY <1>1, <2>2 DEF Counted
    <2>6. crashes' # 0
      BY <1>1, <2>2
    <2>7. crashes' <= 1 => \A f \in Executions \ {e} : ~Lost(f)'
      BY <1>1, <2>2, <2>4 DEF Counted
    <2> QED
      BY <2>5, <2>6, <2>7 DEF Counted
  <1>7. ASSUME NEW e \in Executions, Request(e) PROVE Counted'
    <2>1. /\ phase[e] = "NONE" /\ UNCHANGED <<worker, attempts, crashes>>
          /\ \A f \in Executions \ {e} : phase'[f] = phase[f]
      BY <1>7 DEF Request, Queue!Enqueue, bounds, Typed, TypeOK
    <2>2. attempts[e] = 0
      BY <2>1 DEF Typed, Affordable
    <2>3. \A f \in Executions \ {e} : Abandoned(f)' <=> Abandoned(f)
      BY <2>1 DEF Abandoned, Busy
    <2> QED
      BY <2>1, <2>2, <2>3, CountLasts
  <1>8. ASSUME NEW S \in SUBSET Executions, Recover(S) PROVE Counted'
    <2>1. /\ \A f \in S : phase[f] = "LEASED" /\ phase'[f] \in {"PENDING", "TERMINAL_FAILED"}
          /\ \A f \in Executions \ S : phase'[f] = phase[f]
          /\ UNCHANGED <<worker, attempts, crashes>>
          /\ \A w \in Workers, f \in S : ~AtWork(w, f)
      BY <1>8, Overtaking = FALSE DEF Recover, Queue!Release, bounds, Typed, TypeOK
    <2>2. \A v \in Workers : Busy(v) => worker[v].e \notin S
      BY <1>2, <2>1 DEF Busy, Holds, AtWork
    <2>3. \A f \in Executions : Abandoned(f)' <=> Abandoned(f)
      <3>1. \A f \in S : Abandoned(f) /\ Abandoned(f)'
        BY <2>1, <2>2 DEF Abandoned
      <3>2. \A f \in Executions \ S : Abandoned(f)' <=> Abandoned(f)
        BY <2>1 DEF Abandoned, Busy
      <3> QED
        BY <3>1, <3>2
    <2> QED
      BY <2>1, <2>3, CountLasts
  <1>9. CASE Revoke \/ EditSource \/ UNCHANGED vars
    <2>1. UNCHANGED <<worker, phase, attempts, crashes>>
      BY <1>9 DEF Revoke, EditSource, vars, queue, bounds
    <2>2. \A f \in Executions : Abandoned(f)' <=> Abandoned(f)
      BY <2>1 DEF Abandoned, Busy
    <2> QED
      BY <2>1, <2>2, CountLasts
  <1> QED
    BY <1>4, <1>5, <1>6, <1>7, <1>8, <1>9 DEF Next

\* At the beginning there is nothing to count.
LEMMA CountInitially == ASSUME Init PROVE Counted
  BY DEF Init, Counted, Lost, Abandoned, Queue!Init

\* Without overtaking the attempts at an execution never outnumber the crashes
\* by more than one.
LEMMA CountAlways == ASSUME Overtaking = FALSE PROVE Spec => [](Typed /\ Course /\ Counted)
  <1>1. Init => Typed /\ Course /\ Counted
    BY TypeInitially, CourseInitially, CountInitially, ExecutionAssumption
  <1>2. Typed /\ Course /\ Counted /\ [Next]_vars => (Typed /\ Course /\ Counted)'
    BY TypeInductive, CourseInductive, CountInductive, ExecutionAssumption
  <1> QED
    BY <1>1, <1>2, PTL DEF Spec

\* No execution that ends SUCCEEDED has been rolled back, if at most one worker
\* dies and leases outlive the work: Replay and MarkRolledBack meet no sooner.
THEOREM NoSuccessIsFalse ==
    ASSUME Overtaking = FALSE, MaxCrashes <= 1 PROVE Spec => []NoFalseSuccess
  <1>1. Typed /\ Course /\ Counted => NoFalseSuccess
    <2> SUFFICES ASSUME Typed, Course, Counted, NEW e \in Executions, Current(e) = "SUCCEEDED"
                 PROVE  journal[e].state = "EXECUTED"
      BY DEF NoFalseSuccess
    <2>1. crashes \in 0..MaxCrashes /\ attempts[e] \in 0..3 /\ attempts[e] <= crashes + 1
      BY DEF Typed, TypeOK, MaxAttempts, Counted
    <2>2. attempts[e] <= 2
      BY <2>1, MaxCrashes <= 1, ExecutionAssumption DEF ExecutionAssumption
    <2> QED
      BY <2>2 DEF Course, Truthful
  <1> QED
    BY <1>1, CountAlways, PTL

-----------------------------------------------------------------------------
(* The pointer                                                             *)

\* Only e was retried, and only once.
Lone(e) == attempts[e] <= 2 /\ \A f \in Executions \ {e} : attempts[f] <= 1

\* What current.json says to the worker at a lone execution: its own release
\* is not what the first attempt found, nor what a rollback will put back.
Points(r) ==
    /\ r.attempt = 1 /\ r.at \in Ahead \ {"journal", "rollback"} => pointer # r.e
    /\ r.attempt = 1 /\ r.at \in {"install", "journal"} => r.entry.previous # r.e
    /\ r.at \in Ahead /\ journal[r.e].state = "EXECUTED" => journal[r.e].previous # r.e
    /\ r.at = "mark" => pointer # r.e
    /\ r.at = "append" /\ r.outcome = "FAILED_ROLLED_BACK" => pointer # r.e

\* What current.json says about a lone execution.
Restored(e) ==
    /\ attempts[e] = 0 => pointer # e
    /\ attempts[e] <= 1 /\ journal[e].state = "EXECUTED" => journal[e].previous # e
    /\ Current(e) = "FAILED_ROLLED_BACK" => pointer # e

Pointing(e) == Restored(e) /\ \A w \in Workers : Busy(w) /\ worker[w].e = e => Points(worker[w])
Pointed == \A e \in Executions : Lone(e) => Pointing(e)

\* An execution that was lone after a step was lone before it.
LEMMA LoneBefore ==
    ASSUME Typed, [Next]_vars, NEW e \in Executions, Lone(e)'
    PROVE  Lone(e)
  <1>1. \A f \in Executions : attempts[f] \in Nat
    <2>1. \A f \in Executions : attempts[f] \in 0..3
      BY DEF Typed, TypeOK, MaxAttempts
    <2> QED
      BY <2>1
  <1>2. CASE attempts' = attempts
    BY <1>2 DEF Lone
  <1>3. ASSUME NEW w \in Workers, NEW f \in Executions, Claim(w, f)
        PROVE  Lone(e)
    <2>1. \A g \in Executions : attempts'[g] = IF g = f THEN attempts[g] + 1 ELSE attempts[g]
      BY <1>3 DEF Claim, Queue!Claim, Typed, TypeOK
    <2>2. \A g \in Executions : attempts[g] <= attempts'[g] /\ attempts'[g] \in Nat
      BY <1>1, <2>1
    <2> QED
      BY <1>1, <2>2 DEF Lone
  <1>4. ASSUME NEW w \in Workers, WorkerStep(w) PROVE attempts' = attempts
    BY <1>4, OthersUntouched
  <1>5. CASE \/ \E f \in Executions : Request(f)
             \/ \E w \in Workers : Crash(w)
             \/ \E S \in SUBSET Executions : Recover(S)
             \/ Revoke \/ EditSource \/ UNCHANGED vars
    BY <1>2, <1>5 DEF Request, Queue!Enqueue, Crash, Recover, Queue!Release, Revoke, EditSource,
                      vars, queue
  <1> QED
    BY <1>2, <1>3, <1>4, <1>5 DEF Next

\* What is said about e lasts while others leave e alone and do not activate it.
LEMMA PointingLasts ==
    ASSUME NEW e \in Executions, Pointing(e), attempts'[e] = attempts[e],
           journal'[e] = journal[e],
           Current(e)' = Current(e) \/ Current(e)' = "REQUESTED",
           pointer # e => pointer' # e,
           \A w \in Workers : Busy(w)' /\ worker'[w].e = e => worker'[w] = worker[w]
    PROVE  Pointing(e)'
  <1>1. Restored(e)'
    BY DEF Pointing, Restored
  <1>2. ASSUME NEW w \in Workers, Busy(w)', worker'[w].e = e
        PROVE  Points(worker[w])'
    <2>1. PICK r : r = worker[w]
      OBVIOUS
    <2>2. worker'[w] = r /\ r.e = e /\ Points(r)
      BY <1>2, <2>1 DEF Pointing, Busy
    <2>3. Points(r)'
      BY <2>2 DEF Points
    <2> QED
      BY <2>2, <2>3 DEF Points
  <1> QED
    BY <1>1, <1>2 DEF Pointing, Restored, Busy

\* The step of a worker at a lone execution.
LEMMA OwnPointing ==
    ASSUME Typed, Course, NEW w \in Workers, WorkerStep(w), NEW e \in Executions,
           e = worker[w].e, Lone(e), Pointing(e)
    PROVE  Pointing(e)'
  <1> USE DEF Typed, TypeOK
  <1>1. PICK r \in Worker : /\ r = worker[w] /\ r.e = e /\ r.at # "idle"
                            /\ Holds(r) /\ Follows(r) /\ Undone(r)
    BY OthersUntouched DEF Course, Exclusive
  <1>2. /\ Points(r) /\ Restored(e)
        /\ \A v \in Workers \ {w} : Busy(v) => worker[v].e # e
    BY <1>1 DEF Pointing, Busy, Course, Exclusive
  <1>3. \A v \in Workers \ {w} : worker'[v] = worker[v]
    BY OthersUntouched
  <1>4. ASSUME Restored(e)', Busy(w)' => Points(worker[w])' PROVE Pointing(e)'
    BY <1>2, <1>3, <1>4 DEF Pointing, Restored, Busy
  <1>5. attempts[e] = r.attempt /\ attempts' = attempts /\ r.attempt \in {1, 2}
    <2>1. attempts[e] \in 0..3
      BY DEF MaxAttempts
    <2>2. attempts[e] = r.attempt /\ attempts' = attempts /\ r.attempt >= 1 /\ attempts[e] <= 2
      BY <1>1, OthersUntouched DEF Holds, Lone
    <2> HIDE DEF Typed
    <2> QED
      BY <2>1, <2>2
  <1>6. journal[e].state \in {"NONE", "EXECUTED", "ROLLED_BACK"}
    BY DEF Sandbox!SandboxTypeOK, Sandbox!Entry
  <1> HIDE DEF Typed
  <1>7. CASE Pondering(w)
    <2>1. UNCHANGED <<journal, pointer, log>>
      BY <1>7, PonderingKeeps DEF sandbox
    <2>2. Current(e)' = Current(e)
      BY <2>1 DEF Current
    <2>3. PICK s : s = worker'[w] /\ Pondered(r, s)
      BY <1>1, <1>7, PonderedRecord
    <2>4. Points(s)
      BY <1>1, <1>2, <1>5, <1>6, <2>3 DEF Points, Pondered, Undone, Ahead, AtEffect
    <2>5. Points(s)' /\ Restored(e)'
      BY <1>2, <1>5, <2>1, <2>2, <2>4 DEF Points, Restored
    <2> QED
      BY <1>4, <2>3, <2>5 DEF Points
  <1>8. CASE Writing(w) /\ ~Settle(w)
    <2>1. PICK c, n, p : c = Current(e)' /\ n = journal'[e] /\ p = pointer'
      OBVIOUS
    <2>2. PICK s : s = worker'[w] /\ Wrote(e, r, s, c, n, p)
      BY <1>1, <1>8, <2>1, WrittenRecord
    <2>3. s.e = e
      BY <1>1, <2>2 DEF Wrote
    <2>4. /\ s.attempt = 1 /\ s.at \in Ahead \ {"journal", "rollback"} => p # e
          /\ s.attempt = 1 /\ s.at \in {"install", "journal"} => s.entry.previous # e
          /\ s.at \in Ahead /\ n.state = "EXECUTED" => n.previous # e
          /\ s.at = "mark" => p # e
          /\ s.at = "append" /\ s.outcome = "FAILED_ROLLED_BACK" => p # e
      BY <1>1, <1>2, <1>5, <1>6, <2>2 DEF Points, Wrote, Undone, Ahead, AtEffect
    <2>5. Points(s)'
      BY <2>1, <2>3, <2>4 DEF Points
    <2>6. /\ attempts[e] <= 1 /\ n.state = "EXECUTED" => n.previous # e
          /\ c = "FAILED_ROLLED_BACK" => p # e
      BY <1>1, <1>2, <1>5, <1>6, <2>2
      DEF Points, Restored, Follows, Wrote, Undone, Ahead, AtEffect
    <2>7. Restored(e)'
      BY <1>5, <2>1, <2>6 DEF Restored
    <2> QED
      BY <1>4, <2>2, <2>5, <2>7 DEF Points
  <1>9. CASE Settle(w)
    <2>1. worker'[w] = Idle /\ UNCHANGED <<journal, pointer, log>>
      BY <1>1, <1>9, SettledRecord DEF sandbox
    <2>2. Current(e)' = Current(e)
      BY <2>1 DEF Current
    <2> QED
      BY <1>2, <1>4, <1>5, <2>1, <2>2 DEF Restored, Busy, Idle
  <1> QED
    BY <1>7, <1>8, <1>9, StepsSplit

\* The step of a worker at another execution: it is that one's first attempt,
\* which restores nothing.
LEMMA OthersPointing ==
    ASSUME Typed, Course, NEW w \in Workers, WorkerStep(w), NEW e \in Executions,
           e # worker[w].e, Lone(e), Pointing(e)
    PROVE  Pointing(e)'
  <1>1. PICK f \in Executions : f = worker[w].e /\ f # e /\ worker[w].at # "idle"
    BY OthersUntouched
  <1>2. /\ \A v \in Workers \ {w} : worker'[v] = worker[v]
        /\ log'[e] = log[e] /\ journal'[e] = journal[e] /\ attempts' = attempts
    BY <1>1, OthersUntouched
  <1>3. Current(e)' = Current(e)
    BY <1>2 DEF Current
  <1>4. /\ Holds(worker[w]) /\ Follows(worker[w]) /\ Undone(worker[w])
    BY DEF Course, Exclusive
  <1>5. (pointer # e => pointer' # e) /\ (Busy(w)' => worker'[w].e # e)
    <2>1. CASE Pondering(w)
      BY <1>1, <2>1, PonderingKeeps, PonderedRecord DEF sandbox, Pondered
    <2>2. CASE Writing(w) /\ ~Settle(w)
      <3>1. PICK c, n, p : c = Current(f)' /\ n = journal'[f] /\ p = pointer'
        OBVIOUS
      <3>2. Wrote(f, worker[w], worker'[w], c, n, p)
        BY <1>1, <1>4, <2>2, <3>1, WrittenRecord
      <3>3. worker[w].at # "restore"
        <4>1. worker[w].attempt = attempts[f] /\ attempts[f] <= 1 /\ worker[w].attempt >= 1
          BY <1>1, <1>4 DEF Holds, Lone
        <4>2. attempts[f] \in 0..3
          BY DEF Typed, TypeOK, MaxAttempts
        <4>3. worker[w].attempt = 1
          BY <4>1, <4>2
        <4> QED
          BY <1>1, <1>4, <4>3 DEF Undone, Ahead, AtEffect
      <3> QED
        BY <1>1, <3>1, <3>2, <3>3 DEF Wrote
    <2>3. CASE Settle(w)
      BY <1>1, <1>4, <2>3, SettledRecord DEF sandbox, Busy, Idle
    <2> QED
      BY <2>1, <2>2, <2>3, StepsSplit
  <1> QED
    BY <1>2, <1>3, <1>5, PointingLasts

\* No step points current.json at a lone execution that was rolled back.
LEMMA PointedInductive ==
    ASSUME Typed, Course, Pointed, [Next]_vars
    PROVE  Pointed'
  <1> SUFFICES ASSUME NEW e \in Executions, Lone(e)' PROVE Pointing(e)'
    BY DEF Pointed, Lone, Pointing, Restored, Busy, Points
  <1>1. Lone(e) /\ Pointing(e)
    BY LoneBefore DEF Pointed
  <1>2. ASSUME NEW w \in Workers, WorkerStep(w) PROVE Pointing(e)'
    BY <1>1, <1>2, OwnPointing, OthersPointing
  <1>3. ASSUME NEW w \in Workers, NEW f \in Executions, Claim(w, f) PROVE Pointing(e)'
    <2>1. PICK r : r = [Idle EXCEPT !.at = "claimed", !.e = f, !.attempt = attempts[f] + 1]
      OBVIOUS
    <2>2. /\ phase[f] = "PENDING" /\ attempts'[f] = attempts[f] + 1
          /\ \A g \in Executions \ {f} : attempts'[g] = attempts[g]
          /\ UNCHANGED <<log, journal, pointer>>
          /\ worker'[w] = r /\ \A v \in Workers \ {w} : worker'[v] = worker[v]
      BY <1>3, <2>1 DEF Claim, Queue!Claim, sandbox, Typed, TypeOK
    <2>3. r.at = "claimed" /\ r.e = f /\ r.attempt = attempts[f] + 1
      BY <2>1 DEF Idle
    <2>4. Current(e)' = Current(e)
      BY <2>2 DEF Current
    <2>5. CASE f = e
      <3>1. \A v \in Workers : Busy(v) => worker[v].e # e
        BY <2>2, <2>5 DEF Course, Exclusive, Holds, Busy
      <3>2. attempts[e] \in {0, 1}
        <4>1. attempts[e] \in 0..3 /\ attempts[e] + 1 <= 2
          BY <2>2, <2>5 DEF Lone, Typed, TypeOK, MaxAttempts
        <4> QED
          BY <4>1
      <3>3. Restored(e)'
        BY <1>1, <2>2, <2>4, <2>5, <3>2 DEF Pointing, Restored
      <3>4. Points(r)'
        BY <1>1, <2>2, <2>3, <2>5, <3>2 DEF Pointing, Restored, Points
      <3> QED
        BY <2>2, <3>1, <3>3, <3>4 DEF Pointing, Restored, Points, Busy
    <2>6. CASE f # e
      BY <1>1, <2>2, <2>3, <2>4, <2>6, PointingLasts
    <2> QED
      BY <2>5, <2>6
  <1>4. ASSUME NEW w \in Workers, Crash(w) PROVE Pointing(e)'
    <2>1. /\ worker'[w] = Idle /\ \A v \in Workers \ {w} : worker'[v] = worker[v]
          /\ UNCHANGED <<attempts, log, journal, pointer>>
      BY <1>4 DEF Crash, Leave, queue, sandbox, Typed, TypeOK
    <2>2. Current(e)' = Current(e) /\ ~Busy(w)'
      BY <2>1 DEF Current, Busy, Idle
    <2> QED
      BY <1>1, <2>1, <2>2, PointingLasts DEF Busy
  <1>5. ASSUME NEW f \in Executions, Request(f) PROVE Pointing(e)'
    <2>1. /\ log' = [log EXCEPT ![f] = <<"REQUESTED">>]
          /\ UNCHANGED <<attempts, journal, pointer, worker>>
      BY <1>5 DEF Request, Queue!Enqueue, sandbox
    <2>2. Current(e)' = Current(e) \/ Current(e)' = "REQUESTED"
      BY <2>1 DEF Current, Last, Typed, TypeOK
    <2> QED
      BY <1>1, <2>1, <2>2, PointingLasts
  <1>6. CASE \/ \E S \in SUBSET Executions : Recover(S)
             \/ Revoke \/ EditSource \/ UNCHANGED vars
    <2>1. UNCHANGED <<attempts, log, journal, pointer, worker>>
      BY <1>6 DEF Recover, Queue!Release, Revoke, EditSource, vars, queue, sandbox
    <2>2. Current(e)' = Current(e)
      BY <2>1 DEF Current
    <2> QED
      BY <1>1, <2>1, <2>2, PointingLasts
  <1> QED
    BY <1>2, <1>3, <1>4, <1>5, <1>6 DEF Next

\* At the beginning current.json does not exist.
LEMMA PointedInitially == ASSUME Init PROVE Pointed
  <1>1. pointer \notin Executions
    BY ExecutionAssumption
    DEF ExecutionAssumption, NoExecution, Init, Sandbox!SandboxInit, Sandbox!NoRelease
  <1>2. \A e \in Executions : journal[e].state = "NONE" /\ log[e] = <<>>
    BY DEF Init, Sandbox!SandboxInit, Sandbox!NoEntry
  <1>3. \A w \in Workers : ~Busy(w)
    BY DEF Init, Busy, Idle
  <1> QED
    BY <1>1, <1>2, <1>3 DEF Pointed, Pointing, Restored, Current

\* Without overtaking the pointer names what the journals say for ever.
LEMMA PointedAlways ==
    ASSUME Overtaking = FALSE PROVE Spec => [](Typed /\ Course /\ Counted /\ Pointed)
  <1>1. Init => Typed /\ Course /\ Pointed
    BY TypeInitially, CourseInitially, PointedInitially, ExecutionAssumption
  <1>2. Typed /\ Course /\ Pointed /\ [Next]_vars => (Typed /\ Course /\ Pointed)'
    BY TypeInductive, CourseInductive, PointedInductive, ExecutionAssumption
  <1> QED
    BY <1>1, <1>2, CountAlways, PTL DEF Spec

\* An execution that alone was retried, and once, is not active after its rollback.
LoneRetryIsGone ==
    \A e \in Executions : Lone(e) /\ Current(e) = "FAILED_ROLLED_BACK" => pointer # e

\* The rollback of a retry restores what was active before the first attempt,
\* as long as no other execution was interrupted too.
THEOREM LoneRollbackRestores == ASSUME Overtaking = FALSE PROVE Spec => []LoneRetryIsGone
  <1>1. Pointed => LoneRetryIsGone
    BY DEF Pointed, Pointing, Restored, LoneRetryIsGone
  <1> QED
    BY <1>1, PointedAlways, PTL

\* No execution that ends FAILED_ROLLED_BACK is active, if at most one worker
\* dies and leases outlive the work: nobody else restores its release.
THEOREM RollbacksAreGone ==
    ASSUME Overtaking = FALSE, MaxCrashes <= 1 PROVE Spec => []RolledBackIsGone
  <1>1. Typed /\ Course /\ Counted /\ Pointed => RolledBackIsGone
    <2> SUFFICES ASSUME Typed, Course, Counted, Pointed,
                        NEW e \in Executions, Current(e) = "FAILED_ROLLED_BACK"
                 PROVE  pointer # e
      BY DEF RolledBackIsGone
    <2>1. crashes \in 0..MaxCrashes /\ \A f \in Executions : attempts[f] \in 0..3
      BY DEF Typed, TypeOK, MaxAttempts
    <2>2. crashes <= 1
      BY <2>1, MaxCrashes <= 1, ExecutionAssumption DEF ExecutionAssumption
    <2>3. attempts[e] >= 2
      <3>1. ~(attempts[e] <= 1)
        BY DEF Course, Truthful
      <3> QED
        BY <2>1, <3>1
    <2>4. attempts[e] <= 2
      <3>1. attempts[e] <= crashes + 1
        BY DEF Counted
      <3>2. crashes \in Nat
        BY <2>1, ExecutionAssumption DEF ExecutionAssumption
      <3> QED
        BY <2>1, <2>2, <3>1, <3>2
    <2>5. ASSUME NEW f \in Executions \ {e} PROVE attempts[f] <= 1
      <3>1. Lost(e)
        BY <2>1, <2>3 DEF Lost
      <3>2. attempts[f] >= 2 => Lost(f)
        BY <2>1 DEF Lost
      <3>3. ~(attempts[f] >= 2)
        BY <2>2, <3>1, <3>2 DEF Counted
      <3> QED
        BY <2>1, <3>3
    <2> QED
      BY <2>4, <2>5 DEF Pointed, Pointing, Restored, Lone
  <1> QED
    BY <1>1, PointedAlways, PTL

=============================================================================
