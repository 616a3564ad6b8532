# A verification project for STARCOM

STARCOM (`src/starcom`) is a Python library and command line over one SQLite
database. Its services keep rows that are never changed in place, write an event
to a hash-chained ledger in the same transaction, and pass one another *evidence*:
signed records, single-use authorization decisions, leases, receipts. What makes
it correct is hardly visible in one call. It lies in what two processes do between
each other's transactions, in what a worker that died leaves behind, and in what a
record promises about another one long after both were written.

This directory models the services where that is hard, checks them with TLC on
small instances and proves the main invariants with TLAPS for all instances.

## 1. The system

### Components, their state and their operations

| Component (`src/starcom/`) | State | Operations |
|---|---|---|
| database (`db.py`) | one SQLite connection | `transaction` (`BEGIN IMMEDIATE`), reads outside of it |
| evidence ledger (`ledger.py`) | event streams, hash chain | `append_in_transaction`, `verify` |
| durable outbox (`durable.py`) | `durable_effects`, one stream for each effect | `enqueue`, `claim`, `succeed`, `fail`, `recover_expired` |
| trust plane (`trust.py`) | policy rules, single-use grants, decisions | `authorize` |
| proof engine (`proof.py`) | claims, evidence, verdicts, certificates | `create_claim`, `add_evidence`, `submit_verdict`, `certify`, `verify_certificate` |
| mission kernel (`mission.py`) | missions, transitions | `create`, `transition` |
| research campaign (`research.py`) | campaigns, attempts, receipts, observations, cursors | `begin_attempt`, `record_receipt`, `record_observation`, `checkpoint_cursor`, `verify` |
| research marathon (`research_marathon.py`) | plan, partitions, transitions, partition attempts, completions | `admit_plan`, `start`, `pause`, `resume`, `claim`, `begin_partition_attempt`, `complete_partition`, `fail_partition`, `close_pending_certification` |
| continuity (`continuity*.py`) | incidents, trust roots, reviews, publications, consumed decisions | `create_incident`, `accept_trust_root`, `admit_review`, `publish_recovery` |
| C2 (`recollection.py`, `census.py`, `certification.py`) | recollections, census identities, certificates | `start`, `register_identity`, `admit_certification` |
| C3 qualification (`qualification*.py`) | runs, artifacts, bindings, decisions | `create_run`, `record_artifact`, `start`, `admit_decision` |
| C3 adoption (`adoption.py`) | adoptions | `authorize_adoption` |
| executor registry (`executor_registry.py`) | descriptors, qualifier roots, qualifications, transitions | `register`, `accept_qualifier_root`, `qualify`, `enable`, `revoke`, `attest` |
| adoption execution (`adoption_execution.py`) | executions and their transitions | `request_execution`, `process_next` of a worker, `append_transition` |
| sandbox executor (`sandbox_executor.py`) | files: the journal and `current.json` | `validate`, `execute`, `rollback` |
| C4 (`architecture*.py`) | input sets, candidates, reviewer roots, reviews, publications, baselines | `freeze`, `create_candidate`, `accept_reviewer_root`, `admit_review`, `publish`, `admit_baseline` |
| C5, C6, C7 (`execution_plan.py`, `red_team.py`, `final_pack.py`) | plans, assessments, packs | `admit_plan`, `admit_assessment`, `admit_pack` |
| creative jobs (`creative.py`) | jobs | `request` |
| cockpit (`cockpit.py`) | snapshots, sessions, commands | `admit_snapshot`, `create_session`, `authenticate`, `authorize_command` |
| deployment (`deployment.py`) | bundles, nodes, assignments | `seal_bundle`, `enroll_node`, `authorize_assignment` |
| release candidate, external evidence | assessments, evidence records | `admit_assessment`, `admit_evidence` |
| composition root, CLI (`program.py`, `cli.py`) | none | wiring; one service method for each command |

### How they interact

* **Shared database.** Every service writes through `Database.transaction`. Two
  processes are serialized there and nowhere else: a read outside of a
  transaction may be stale when the transaction that uses it begins.
* **Shared ledger.** A row and the event that describes it are written together,
  so that `verify` can compare them later.
* **Outbox.** Adoption executions, marathon partitions and creative jobs are
  enqueued in the transaction that requests them. Workers claim them for a time,
  may lose the lease to `recover_expired`, and settle them with
  `succeed_in_transaction` or `fail`.
* **Decisions.** Sensitive steps consume a decision of the trust plane. Missions
  keep the consumption in their own transitions, all others in
  `continuity_authorization_consumptions`.
* **Evidence chain.** C2 to C7 each take a verified snapshot of the record before
  them and admit a record that binds the snapshot's digest.
* **The file system.** Only the sandbox executor writes files. A file write and a
  database transaction are never atomic together.

### What is hard

* *Interleavings.* `process_next`, `complete_partition`, `close`, `claim` of the
  marathon and the `prepare`/`admit` pairs read in one transaction and write in a
  later one, or read in none.
* *Crashes.* A worker may die between a file write, a ledger append and the
  settlement of the effect. The retry finds whatever was written.
* *Time.* Leases, grants and decisions expire. Timestamps are text that SQL
  compares as text and Python as instants.
* *Retries.* Every request may be repeated with its idempotency key after the
  state has moved on.
* *Single use.* A grant, a decision, a certificate may stand behind one step only.
* *Promises over time.* A certificate, a proof, a digest has to stay valid while
  the evidence below it goes on growing.

What would be wrong, at which line, and which property watches it, is listed under
`hazards` in `PROJECT.json`.

## 2. The modules

| Module | Models | Composed with |
|---|---|---|
| `LeaseQueue` | what the outbox promises: a timeless queue of effects with a retry budget | |
| `DurableOutbox` | `durable.py` in full: rows, streams, leases, textual timestamps | refines `LeaseQueue` |
| `SandboxExecutor` | `sandbox_executor.py`: journal entry, pointer, the order of the writes | |
| `ExecutionRecord` | what `adoption_execution.py` promises to readers: each execution goes forward to one end | |
| `AdoptionExecution` | `adoption_execution.py`: service and worker processes | `LeaseQueue`, `SandboxExecutor`; refines `ExecutionRecord` |
| `TrustPlane` | `trust.py`: rules, grants, decisions | |
| `ProofEngine` | `proof.py`: claims, verdicts, certificates | |
| `MissionKernel` | `mission.py` | `TrustPlane`, `ProofEngine` |
| `ResearchCampaign` | `research.py`: attempts and their evidence | |
| `ResearchMarathon` | `research_marathon.py`: workers, coordinators, journal | `LeaseQueue`, `ResearchCampaign` |
| `ConsumedDecisions` | the table of consumed decisions that `continuity.py` shares with the services above it | |
| `Continuity` | `continuity.py`: incidents, trust roots, reviews, publications, their verification | `ConsumedDecisions` |
| `ExecutorRegistry` | `executor_registry.py`: descriptors, qualifications, transitions, attestations | `Continuity` |
| `Qualification` | `qualification*.py`, `adoption.py` and what the stages above read of an execution | `ConsumedDecisions`; refines `ExecutionRecord` |
| `EvidenceChain` | `architecture.py`, `execution_plan.py`, `red_team.py`, `final_pack.py`: baseline, plan, assessment, pack | `Qualification` |
| `ArchitectureLine` | `architecture_input.py`, `architecture_candidate.py`, `architecture_review.py`, `architecture_publication.py`: from executions to a published architecture | `Qualification` |
| `Census` | `recollection.py`, `census.py`, `certification.py`: binding, identities, certificate | `ResearchCampaign` |
| `CreativeJobs` | `creative.py`: the request of a job and its effect | `LeaseQueue`, `ConsumedDecisions` |
| `Deployment` | `deployment.py`: bundles, nodes, assignments | `ConsumedDecisions` |
| `Cockpit` | `cockpit.py`: snapshots, sessions, commands | `ConsumedDecisions` (decisions only) |
| `ReleaseEvidence` | `external_evidence.py`, `release_candidate.py`: evidence that expires, assessments | |
| `MCServices` | the instance of the six modules above | |
| `MCWorkerServices` | the instance of `DurableOutbox` and of `ExecutorRegistry` with `Continuity` | |
| other `MC...` | the instances TLC checks | |
| `...Proofs` | the theorems | |

A transaction is one action. What a service reads before its transaction is an
action of its own whenever something the code later relies on can change in
between. An operation that raises rolls its transaction back, so it is no step.
`map` in `PROJECT.json` gives the source lines of every definition.

### Durable outbox

`rows[e]` is the row of `durable_effects`, `stream[e]` the events of
`durable:effect:<id>`, `held` the `EffectLease` objects of the workers, `clock` the
clock of the machine. `Claim`, `Succeed`, `Fail` and `RecoverExpired` take a
timestamp that may be older than the clock: a caller reads the time and then waits
for the write lock. `recover_expired` and `claim` compare timestamps as text (`Rank`),
`_require_lease` as instants (`Instant`); the two differ for a text without
microseconds, and with formats `{"us"}` they agree.

### Adoption execution

`worker[w].at` is the place of a worker in `process_next`: claimed, gate, attest,
start, validate, execute with its two file writes (install, journal), rollback with
its two (restore, mark), append, settle. A worker may die at any of them; an I/O
error is possible where files are touched. `enabled` and `source`, the registry's
answer and the state of the source tree, change at any time. Abstractions: the
release id stands for the execution it was installed by; defects of stored evidence
are left out of `verify_execution` (nobody edits rows); a worker whose build is not
the registered one is another build that was configured with the same executor id.
`process_next` passes one timestamp to claim and succeed, so its lease cannot look
expired to itself: only a recovery takes it away.

### Trust plane, proof engine, missions

A policy pattern is the set of requests it matches. `decisions` is a sequence in the
order of `authorize`, and a decision notes the grant it spends. Evidence, verdicts and
the certificate of a claim are one record. Idempotency keys are numbered in the order
of their first use. `trust.authorize` and `missions.transition` are only called from
`cli.py`, so their callers may do anything.

### Research campaign and marathon

The campaign is a record for each request key: wave, receipt, number of observations,
cursors. Of receipt outcomes the code distinguishes `SUCCESS` from all others. A
worker of the marathon holds one lease and is in one call at a time; `claim`,
`begin_partition_attempt` (two transactions after its checks), `complete_partition`
and `fail_partition` are split where their transactions are. `close` is split in the
checks and the transaction. `complete_partition` reads the evidence of all mapped
attempts row by row outside of a transaction; it is collected in one step here, which
loses nothing for the properties because evidence only grows. That the caller of
`admit_plan`, `start`, `pause` and `resume` holds a decision is left to the trust
plane's model, and the admitted C7 pack is taken for granted.

### Continuity and executor registry

Both services act on decisions of the trust plane, which are immutable and may be old
when they are used; `Decisions` is therefore a constant, the allowed decisions that
callers hold. `consumed` is the table both write: its two unique keys (the decision;
kind and id of the operation) are the guard of `Consume`. The continuity kernel compares
subject, action and object of a decision, the registry its context (`terms`) as well.

An operation that only looks ahead at rows that never change, and looks at the state
again in its transaction, is one action: all of the kernel's, and `register`,
`accept_qualifier_root`, `qualify` and `enable`. `revoke` is `RevokePrepare`,
`RevokeReread`, `RevokeCommit`, because its transaction compares the state with the
second of its readings and its decision was compared with the first. `attest` is
`AttestBegin`, `AttestVerify`, `AttestState`, `AttestHead`: `verify` reads transitions
and then qualifications, `attest` then the state and then the head of the stream, in no
transaction. What `verify_trust_root`, `verify_incident` and `verify` ask of rows are
operators; a signature stands for the key under which it verifies, a ledger event for the
row it was written with. Timestamps are left out: the chronology checks only refuse calls.

### Evidence chain

A row is the form of a signed document and a snapshot of what it was signed about; since
rows never change, a digest of rows is the rows. The forms an instance may bring are
constants, proper ones and ones that somebody who took part before would sign. `labs`,
`artifacts`, `bindings`, `verdicts`, `adoptions`, `executions`, `baselines`, `plans`,
`assessments` and `packs` are the tables. What `verify_...` asks is an operator
(`DecisionVerifies` up to `PackVerifies`), and each asks the one below it.

`admit_...` takes a snapshot and checks the document, then opens its transaction and does
both again: `Prepare...` is the first half, kept in `call[c]`, `Admit...` the second,
`Refuse` what happens when the two disagree. `authorize_adoption` and `request_execution`
look again at all they rely on in their transaction and are one action. Anybody may record
evidence for a run at any time, and an execution moves on its own: these are what makes a
snapshot stale. `Resolved` is how C5 finds a baseline, by its id or by the name of its
architecture, which is not unique. `_identity_related`, which compares names by parts, is
the constant `Related`. Left out are dates (a document is after what it is about, before
its admission), the trust root a signature verifies under, and what documents say beyond
the verdict, its grounds and who signed.

### The second line of C4

`freeze` reads the executions three times: for the authorization (`PrepareFreeze`), for
the rows (`ReadMembers`) and in the transaction (`Freeze`), which compares the first
reading with the third and stores the second. That this is enough, because an execution
that has ended never moves on, is what `LineVerifiesUntilStale` says. The other operations
of the line repeat in their transaction all that they did before it and are one action.
A manifest is a record of its parts, and `ManifestStands` the conditions that the
`_normalize_...` methods put on them; who an author is (`Hands`) is computed from the rows.

### Census and certification

The campaign is that of `ResearchCampaign`, and everybody may begin attempts in it and
record evidence while identities are counted and certified; `backdated` are attempts
begun with a stamp that lies before the binding, which `verify` refuses for ever.
`PrepareIdentity` and `RegisterIdentity`, `PrepareCertification` and `AdmitCertification`
are the halves of an operation before its transaction and in it. The first transaction asks
only for the keys of the table, the second for everything. `Target` is 800 or more in the
code.

### Creative jobs, deployment, cockpit, release evidence

`RequestJob` inserts the job and enqueues its effect in one transaction; an effect that is
there with the same payload is taken as it is, whoever enqueued it. `verify` wants the
effect as it was first enqueued, which `JobVerifies` expresses by the attempts: every
lease replaces the ledger event that `verify` looks for.

`Deployment` has no state beside its rows, which nobody retires. A decision about an
assignment names bundle and node by ids and digests (`PairTerms`), and anybody may take
the ids first.

A command of the cockpit comes by a call (`AuthorizeCommand`, at a time of the caller's)
or by HTTP: `Authenticate` reads the session at the clock, `StampCommand` takes the time,
`CommitCommand` is the transaction, and the clock may go on between any two of them.

In `ReleaseEvidence` evidence is good up to a day (`until`), and what admits it is dated
by its caller; an assessment is of a version and derives its verdict from four lists and
the categories it says are proven.

## 3. The runs

| Run | Instance | Shows |
|---|---|---|
| `worker_services` | the outbox: 2 effects, 2 workers, 2 attempts, clock 0 to 1.5 s, stale stamps; or the registry: 1 executor, 2 processes that revoke and attest, 2 incidents over one archive, 13 decisions | exclusive live leases, ledger agrees with row, only the latest lease settles, only expired leases are recovered, implements `LeaseQueue`, which ends every effect within its budget; legal lives, enablements and revocations decided on what was recorded before, everything written verifies, what was attested was enabled, one review recovers one incident |
| `outbox_formats` | stamps with and without microseconds | **violation**: a lease is recovered up to a second early |
| `execution` | 1 execution, 3 workers, leases recovered under a working worker, 1 crash, 1 fault | outbox and history agree, effects are announced, a success was journalled; implements `ExecutionRecord`: every execution goes forward to one end and its effect is completed only then |
| `execution_recovery` | 2 executions on one sandbox, 2 workers, 1 crash, 1 fault, recovery only of dead workers | every request ends; no success of a rolled back journal entry; a rolled back release is not active |
| `execution_false_success` | 2 crashes, 2 builds | **violation**: `SUCCEEDED` from a journal entry that was rolled back |
| `execution_no_effect` | 1 crash, 1 fault | **violation**: `FAILED_NO_EFFECT` although an earlier attempt installed the release |
| `governance` | 2 missions, 2 kinds of request, 2 grants, 3 decisions, 2 times, 1 claim, 3 people | no move without a decision of its own, single use of grants, DENY drains, journals tell the state; certificates stay valid and a success stands on a certificate about the mission that three people made |
| `marathon` | 1 partition, 2 attempts, 2 workers, 2 coordinators, 1 outsider in the campaign | outbox and completions agree, proofs keep their backing, attempts belong to their leaseholder, journal legal, complete means settled |
| `marathon_late_evidence` | as `marathon` | **violation**: a completion's digest does not cover evidence that arrives later |
| `job_replay` | 1 creative job, 1 decision, nobody else enqueues | **violation**: the exact replay of a request is refused once its effect was leased |
| `chain` | 2 runs that claim one architecture, 3 baselines, 2 plans, a failed and a passing assessment, packs, late evidence, an execution, 2 callers | what is admitted verifies; once stale always stale; people of a pack are separate; a failed assessment is final; a pack verifies exactly while what it froze is so |
| `services` | one service at a time: 2 runs and 3 candidates of one architecture, 6 reviews; 4 identities over 2 attempts; 3 jobs, of which 2 share a key, and outsiders; 4 nodes for 2 ids and keys; 2 sessions and 2 requests at once; 5 pieces of evidence and 3 assessments in 3 days | what is published was adopted and was reviewed by a stranger, once; a line verifies until it is stale; certificates hold as long as their campaign; jobs keep an effect with their plan, and their defects; assignments and commands are what was decided; nothing that expired is renewed |

The type invariants (`TypeOK`) are proved and not checked again.

### Why the bounds are enough

* Two workers, and one recoverer or one death, are what an overtaking needs: the
  worker that was overtaken and the one that overtook it. Two attempts give one retry
  and one exhausted budget.
* In `worker_services` a behaviour belongs to the outbox or to the registry, which share
  no row (`OutboxAlone`, `RegistryAlone`). The outbox instance has stamps before, at and
  after the expiry of a one-second lease, the grant of the next one, and one stale stamp
  across them.
* In the execution model the budget is the code's own 3 attempts. One crash separates
  what the design tolerates from what it does not: with two, a false success
  appears. `NoFalseSuccess` and `RolledBackIsGone` hold up to one crash only, which is
  the hypothesis of their theorems (section 5).
* Two requests that differ, two grants of which one expires and is used once, and
  three decisions let decisions be swapped, spent twice and outlived.
  Under `OneHalf` the rule that allows everything and the rule that denies a run never stand
  together; `DenyDrains` and the other theorems have no such bound.
* The registry's processes hold one decision to revoke for each state, so that either may
  be overtaken by the other, by a qualification or by an enablement; two decisions and
  two reviews compete for one incident, and a third decision is about its twin. One
  executor is enough for what rows of one executor say; the theorems cover any number.
* With one partition the outsider's attempt contends for waves and cursors as the
  attempts of another partition would; partitions share nothing else but the
  marathon's state. The theorems hold for any number.

* In the chain, run 1 goes from evidence to pack; run 2 exists to take over the name of the
  architecture with a baseline of a smaller id; plan 1 fails its assessment and plan 2, of
  the same architecture, would pass. Under `SecondRunFirst` the evidence of run 2 is there
  before run 1 has a laboratory: up to then the two runs share nothing, and the steps of one
  commute with those of the other; the decision and the baseline of run 2 come at any time.
  Two callers let every admission be overtaken by
  another one, by late evidence and by each step of the execution. The improper documents
  (a maker who recorded evidence, a reviewer who admitted the decision, an assessment whose
  verdict is not the derived one, a verifier who assessed) never get in.

* In `services` a behaviour belongs to one service (`Alone`). The services share no row but
  those of `consumed`, whose two keys are the decision and the kind and id of an operation:
  the kinds differ, and a decision authorizes one action of one service. A product of their
  states would show nothing new. `Focus` lets the second laboratory come after the first has
  executed, the line after both, and lets a request cite a decision about its command.
* The architecture line has an execution that succeeded and one that may fail, a candidate
  that passes a component off as another run's, one author who has a key, reviews of each
  verdict. The census has one observation under two names and a certifier who counted. In
  deployment two nodes want an id and two a key, one lacks memory. One session of the
  cockpit ends at 1 and one at the last time, so that a request outlives the first. Of the
  evidence about one subject the first lapses before the second is there.

### Fairness

Nothing in `src/` calls `recover_expired`, and workers are driven from outside. So
liveness is conditional, and stated where a request depends on all of it, in the execution
model: `execution_recovery` assumes
that a worker that is up takes its next step, that somebody keeps asking for work, and
that leases of dead workers are recovered. No liveness is claimed for the outbox by itself,
missions, the campaign, the marathon, the registry, the chain or the services beside it: their
next step is always somebody's choice.

## 4. What the code does not do

Five runs show a disagreement between the code and its documents or tests, quoted
under `findings`: early recovery of leases stamped without microseconds; an execution
that reports a success that was rolled back, after two crashes; an execution that
reports no effect after an effect; completions whose digest later evidence
invalidates; the exact replay of a creative job's request, which its design says returns
the record
(`docs/superpowers/specs/2026-08-21-creative-job-authority-design.md:45`), refused as
corruption from the first lease of its effect on. That refusal never ends, for a lease
replaces the ledger event that `verify` looks for, and it begins with the request where
somebody else had enqueued the effect. No worker in `src/` asks for the topic of creative
jobs; one that names no topic is given any.

The models also show behaviour no document excludes. A preview
(`consume=False`) of a decision is a decision one can use. A decision attached to a
transition that needs none is consumed. Missions and the other services keep
consumption in separate tables. `authorize` has no idempotency key: a repeated call
is a second decision. A DENY rule or an expiry after a decision does not withdraw it.
`max_parallelism` of a marathon plan is not enforced by `claim`. An attempt of wave 2
by anybody in the campaign ends all further attempts of the marathon. A partition that
failed for good leaves the marathon running for ever. In the chain, whoever created the
laboratory run or signed the certificate may not decide, but may design, plan, assess or
package. `prepare` of C4 to C7 describes a decision that `admit` never asks for. Late
evidence makes a decision and all above it stale for good, an execution that moves after
the baseline makes baseline, plan, assessment and pack so, and each has a unique key that
keeps another from taking its place. A baseline of another run takes the name of an
architecture over, and with it the plan stops verifying. A failed assessment cannot be
repeated: it takes another architecture, hence another run.

In C4's second line a review that is not an acceptance ends its architecture, since a
candidate has one review and an architecture one candidate; who publishes may be anybody,
the reviewer included. The reviewer has to name all who had a hand in the candidate, no
more and no fewer. An attempt begun in a bound campaign with an early stamp ends the
campaign's certificates for ever.

Some documents say more than the code does. The cockpit's design
(`docs/superpowers/specs/2026-08-21-secure-cockpit-design.md:26`, `:49`) speaks of
commands on the current snapshot and of stale ones that are reported; any admitted
snapshot will do. It promises that an exact replay returns the original record (`:33`);
once the session has expired it is refused, unless the caller dates it earlier. The design
of the registry (`docs/superpowers/specs/2026-08-14-c3-executor-registry-v4-design.md:67`)
binds the decision of a revocation to the state it ends, and promises (`:133`) that an
exact replay returns the record. `revoke` compares the decision with one reading of the
state and commits on a later one, so that a revocation may be recorded on a state its
decision does not name, though never on one the executor had not come to
(`DecidedOnTheRecord`); a repeated `enable` is refused once the executor is revoked.
`admit_evidence` refuses the exact replay of evidence that has expired. `snapshot` of
external evidence for a day before the evidence was captured can say `PROVEN`;
`captured_at` may lie in the future; the operator or the reviewer may admit their own
evidence. The external statuses of a release candidate are what its payload says: nothing
compares them with the evidence on record. Evidence of a subject that expired cannot be
renewed, for a subject has one record of a kind, and a version that was assessed as
blocked stays so, for it has one assessment.

## 5. The theorems

All are proved for every value of the constants under the named assumptions
(`OutboxAssumption`, `ExecutionAssumption`, `MarathonAssumption` and so on), which TLC
evaluates in the runs.

**`DurableOutboxProofs`.** `TypeCorrect`; `BudgetNeverExceeded`: `claim` does not look
at the budget, the invariant is that a `PENDING` effect has an attempt left;
`LeasesAreExclusive` for stamps with microseconds: a lease that is held and live is the
row's, because whoever took the row away did so after its expiry; `RecoveryIsDue` from the
same assumption; `SettlementIsFenced`; `LedgerIsTheRow`: each step appends to a stream what
replaying it makes of the row;
`ImplementsLeaseQueue`: every step of the outbox is a step of `LeaseQueue` or a stutter.

`EffectsSettleForGood` is what workers have of it: a settled effect is never leased,
settled or forgotten again.

**`AdoptionExecutionProofs`.** `TypeCorrect` (inductive with the budget and with what
a worker that concludes knows); then one inductive invariant, `Safe`, for four
properties: histories are legal (`HistoriesAreLegal`), the effect's result is the last
status of the history, the sandbox only changes for executions announced `RUNNING`, a
success was journalled. What makes it inductive is what a worker *knows*: the status it
read may be stale, but the history has passed through it.

Two refinements say what the service is to others. `ImplementsLeaseQueue`: it uses the
outbox as `LeaseQueue` offers it, and `DurableOutbox` implements `LeaseQueue`.
`ImplementsRecord`: with the last status of the history for `status` and the phase of the
effect for `outbox`, every step is one of `ExecutionRecord` or a stutter. The abstract
module is then where it is argued once that executions go forward (`ExecutionsGoForward`)
and that a completed effect belongs to an execution that has ended
(`CompletionsFollowTheEnd`). Both need `Safe`, and both hold however often workers are
overtaken or die.

The last five theorems are about what dying workers leave behind. They assume
`Overtaking = FALSE`: a lease is recovered only when nobody works under it any more, which
is what a lease longer than the work means. Three invariants carry them. `Course`: a worker
at work holds the lease of its effect, alone, and where it is in `process_next` tells what
the journal says (`Truthful`, `Undone`); hence `RefusalsMeanOvertaking` and
`OneRetryNeverLies`, for any number of crashes. `Counted`: the attempts at an execution
exceed the crashes by at most one, and if one worker died all retries are of one execution;
hence `NoSuccessIsFalse` for `MaxCrashes <= 1`. `Pointed`: what the pointer names
when no other execution was interrupted; hence `LoneRollbackRestores`, and
`RollbacksAreGone` for `MaxCrashes <= 1`. The bound on the crashes is no convenience: with
two, `execution_false_success` shows the first of them violated.

**`MissionKernelProofs`.** Moves are authorized; grants are spent once (spendings are
unique and cited decisions exist); DENY drains; certificates stay valid and
successes are proved (claims are sane: a certificate is issued over verdicts that are
final); journals tell the state.

**`ResearchMarathonProofs`.** `TypeCorrect` and all safety invariants of the run.
`OneStory`: only `Complete` touches a proof or makes a success, and it makes both.
`LegalJournal`, `CompletionIsFinal`: success is final, so what the checks of close saw
is still so when it commits. `MappedToHolder`: grants are counted by the attempts, so
a worker in a call was granted the lease with its number, whoever holds the latest
one. `ProofsKeepBacking`: evidence is never taken back, so what was collected before
the transaction is on record in it and ever after. `ImplementsLeaseQueue`: all partitions
are enqueued in one step and every later one is an operation of the outbox, so
`PartitionsSettleForGood` although calls trust a lease they checked a transaction earlier.

**`ExecutorRegistryProofs`.** `TypeCorrect` and every property of the registry, by one
invariant, `Sound`, in three layers, and two beside it. `Life`: a call is about a known
executor, a revocation under way has a decision about it, and a recorded revocation is
never without the consumption that stops a second one; with that, `StepShape` shows that a
step leaves the lives alone or appends one row that may follow, and `LegalLifecycle`
follows. `Traced`, for `DecisionsFitTheRecord`: each qualification is repeated by a
transition, so that an executor found in qualification was qualified by its last one
(`QualifiedIsLast`), which is the one an enablement decides on; and the state that a
revocation under way was decided on stays in its executor's past. `Backed`: incidents,
reviews, publications and roots stand on each other (`RecoveryBacked`). `Verified`: each
row verifies when it is written, and goes on doing so because no table ever loses a row
(`NothingIsReported`). `AttestationsAreTrue` adds that a caller that has read `ENABLED`
can be at most one revocation late.

**`EvidenceChainProofs`.** `TypeCorrect`, with the rows that calls under way carry.
`FailureIsFinal` from `Sound`: plans are unique by architecture
and assessments by plan (`Keyed`), each row above is about a row on record and packs are of
passes (`Linked`); two rows found by one name are one row. `DutiesAreSeparated`: whom a
stage excludes contains, by the digest it compares, everybody below, as the tables are now.

`PacksAreCurrent`: as long as what a pack froze is as it was, every row below it verifies
(`CurrencyInv`). `StalenessIsFinal`: evidence and consumptions only grow and an execution
never returns to an earlier status (`Forward`), so a row that no longer verifies cannot
verify again; what was admitted verified in its transaction.

`ChainKeepsRecord`: the executions of this model, which move on their own, implement
`ExecutionRecord` as those of `AdoptionExecution` do. So the stages above are shown no
status, and no order of statuses and effects, that the service does not promise.

**`ArchitectureLineProofs`.** `StrangersReview` and `ComponentsAreAdopted` from one invariant,
`LineInv`: rows are unique by each of their keys, and each stands on rows that were
verified when it was written. Executions may go stale below them; but an execution that has
ended keeps its status, and rows never change, so the people and the components are still
those that were compared.

`LineStalenessIsFinal` adds what the rows rest on (`Grounded`): a decision's evidence was
there when it was made, adoptions and executions name rows that are there and decisions
that are consumed, and a caller in the middle of a freeze holds a decision about what it
read first. Evidence and consumptions only grow, so what verifies after a step did before
it. A freeze compares its first reading with the third and stores the second; the two are
equal (`ReadingsAgree`) because executions that may be frozen have ended, and an execution
has one adoption: that the second goes uncompared does no harm.

**`ServiceProofs`.** `AssignmentsAreDecided` (`FabricInv`: what verifies keeps verifying,
and keys name one row), `SessionsCommand` (`CockpitInv`, with what a stamped request
knows: its time may be old, but the session it names never changes), `EffectsOfJobs`
(`JobInv`: a job's effect carries its plan; whoever enqueued it is on record from then on,
and its attempts only grow), `CertificatesStand` (`CensusInv`: what is linked stays
linked, because observations are never taken back; the keys of the census give a
certificate as many names and observations as it has members), `LapsedStaysLapsed`
(`ReleaseInv`).

Only model-checked: liveness (`EveryRequestEnds`), which is out of the prover's reach; every
other property of a passing run is a theorem.

## 6. The plan

Done: the outbox; executions; missions, trust and proofs; research; the registry over the
continuity kernel; C2; C3 to C7; both lines of C4; creative jobs, cockpit, deployment,
release evidence; a theorem for every property but the one named above; the two ends of the
outbox and of the executions joined by the abstract modules between them.

Left:

1. To replace `enabled` in the execution model by the registry's own steps, so that the
   time between an attestation and the effect it permits is seen in one model.
2. The chains of C2 and C3 composed: the certificate of a run is a constant of
   `Qualification`, and what `Census` promises of it is proved beside it.

## 7. Not modelled

The composition root and the command line wire services and call one method each. Parsing,
canonical JSON, digests, the hash chain of the ledger and signatures are abstracted: a
digest stands for its content, a stream for its events and a signature for its signer,
which is what every property needs and nothing more. The static pages and headers of the
cockpit, and everything that only refuses a malformed call, are left out.
Tampering with rows or files from outside is not modelled: `verify` operations are
modelled by what they ask of rows the services wrote. Pragmas, schema migrations and
the command line have no state of their own.

Some hazards are listed without a property, because the model could only restate them:
the executor may be revoked between its attestation and the effect (`adoption_execution.py`);
an answer of `authorize` that is lost has spent its grant, and a previewed decision can be
used (`trust.py`); a decision attached to a transition that needs none is consumed
(`mission.py`); a marathon that is paused between two reads of `claim` still grants the
lease, and a second wave in its campaign ends its attempts (`research_marathon.py`); a
revocation is refused when its executor moves on between its readings
(`executor_registry.py`).
