# Promethyn: verification project

TLA+ specifications of Promethyn's enforcement core, model-checked with TLC and,
where it matters most, proved with TLAPS. Paths below are relative to the
package `src/src/prometheus_protocol/`. `PROJECT.json` maps every definition to
the lines it translates.

## 1. The system

Promethyn places an authorization layer between a proposer (a model, a swarm, a
workflow) and effects on the world. A proposal is verified, the gate decides, a
human may have to approve, and only then does an executor act; every step leaves
an entry in a hash-chained ledger whose tip is anchored elsewhere. For database
migrations there is a second, narrower path, the *chokepoint*: a runner that is
the only holder of the credential and that executes one signed, single-use
approval at a time.

| component | state it keeps | operations | talks to |
|---|---|---|---|
| migration runner (`chokepoint/runner.py`, `ownership.py`) | flock on the approval store, consumed nonces (SQLite), the locals of a call | `execute`, `reconcile_unfinished`, `postgres_executor`, `postgres_receipt_lookup` | audit chain (intents and outcomes), PostgreSQL (advisory locks, migration and receipt in one transaction), deadline |
| execution deadline (`chokepoint/admission.py`) | `opened_wall`, `elapsed_deadline` | `open`, `admit`, `timeout_ms`, `connect_timeout_s` | two host clocks; asked by the runner at five boundaries |
| controller and pending holds (`execution/`) | `pending_actions`, `executions`, `spent_authorizations` rows | `submit`, `approve`, `reject`, `retry_execution`, `sweep`, `invalidate_superseded` | gate, re-observation of the target, ledger, sandboxed executor |
| spend record (`ledger/spend.py`) | none: folded from chain entries | `spend_state`, `retry_verdict` | controller |
| receipts and guarded reads (`ledger/receipts.py`, `readers.py`) | none: rows compared with chain entries | every authoritative read | controller, pending service |
| audit chain and anchors (`ledger/`) | table `audit_chain`; the anchored tip in a file, an object-lock store or a log | `record_chained`, `verify_chain`, `TipAnchor.write` | everything above |
| recorded signing authority (`chokepoint/recorded_authority.py`, `authorization_journal.py`, `signer.py`) | journal of decisions and sign results | `authorize`, `record_decision`, `record_sign_result` | KMS or local signer |
| signing reconciliation (`chokepoint/reconciliation.py`, `reconcile_gate.py`, `audit_source*.py`) | none | compare provider audit events with the journal | provider audit log |
| gates, verifiers, policy (`gate/`, `verifier/`, `policy/`) | trust store, policy snapshots | aggregate, decide, promote, resolve, re-observe | controller, workflow, skill loop |
| orchestration and swarm (`orchestration/`, `swarm/`) | workflow runs, debate rounds | run a DAG, debate, synthesise | controller through the gateway |
| runtime, forge, memory, registry | skills | the propose, verify, mine, promote loop | promotion gate |
| sandbox (`sandbox/`) | container, namespaces, cgroup | start, wait, classify the end | executor, verifiers |
| transport, provider, attestation, CLI, conformance, benchmarks | none of their own | one exchange, one report | |

The hard behaviours: several *processes* share the SQLite files, the flock, the
anchor and the database without any other coordination; a process may die, an
append fail, or a reply be lost between any two commits; approvals and holds
expire while a call waits; the target may move, and move back, while a decision
is on its way; and the recovery code has to conclude from what is durable alone
whether an effect happened. `PROJECT.json` lists these under `hazards`, each at
the line where it bites, with the properties that would catch it.

What makes the parts correct:

* runner: an approval's migration commits at most once; the chain never
  contradicts the database; nothing is spent on top of an unresolved execution;
  no contact without spend and intent; nothing behind a deadline boundary for an
  approval that lapsed before it; recovery ends.
* deadline: no clock behaviour gives an invocation more time than it had; no
  timeout is ever "unlimited".
* held execution: one authorization runs once; nothing runs without a chained
  human approval; decisions are final; the fold of the chain is right about what
  happened; a claim that outlives its call has an outcome, a lost race or a dead
  call to explain it; lapsed holds expire.
* chain: an honest ledger is never accused; an append happens once or not at
  all; a valid verdict means that nothing acknowledged is gone.
* signing: no signature before its anchored record; no approval without its
  anchored result; the reconciler's forgery signal is never raised by the gate's
  own signatures, a clean report accounts for every signature of its range, and
  UNWITNESSED is final.
* sandbox: no fault of the harness becomes a verdict and no failure of the
  candidate a fault; isolation is what the settings ask for; an authorized action
  takes effect once.
* agents: nothing is done that the policy in force does not cover by authoritative
  verdicts, nothing on an ungraded message; concurrent drivers execute a packet
  once; a skill is promoted only against the registry as it stands.

## 2. Modules

| module | models |
|---|---|
| `MigrationRunner` | `runner.py`, `ownership.py`: guard, reconciliation, single-use store, intent and outcome, PostgreSQL client and server side, crashes, reboots, store replacement |
| `ExecutionDeadline` | `admission.py` with the runner's five boundaries and the waits of `postgres_executor` |
| `Spend` | `spend.py`: the fold and the retry verdict (pure operators) |
| `HeldExecution` (extends `Spend`) | `controller.py`, `pending.py` and the ledger operations they share |
| `AuditChain` | `record_chained`, `verify_chain`, `verify_rows`, the three anchor targets |
| `Signing` | `recorded_authority.py`, `authorization_journal.py`, `signer.py` and the signing service of `audit_source_model.py` and `kms_model.py` |
| `Reconciliation` | `reconciliation.py`, `reconcile_gate.py`, `audit_source.py`, the normalizations and the saved exports of `cli/reconcile.py` (pure operators) |
| `SigningAudit` (extends both) | an auditor that reconciles while the gate goes on |
| `SingleUse` | abstract: what an authorization promises |
| `SandboxRun` (extends `Spend`, implements `SingleUse`) | `sandbox/`, `verifier/runner.py`, `verifier/sql.py`, `execution/executor.py` |
| `VerifierBank` | `verifier/bank.py`, `aggregate.py`, `trust.py`, `store.py`, the advisors |
| `Policy` (extends `VerifierBank`, `Spend`) | `policy/`, `gate/authorization.py` |
| `Swarm`, `Workflow` (extend `Policy`), `SkillLoop` (extends `VerifierBank`) | `swarm/`; `orchestration/`; `runtime/orchestrator.py`, `gate/promotion.py`, `forge/miner.py`, the registry |
| `Agents` (extends the three, implements `SingleUse`) | the three runtimes with their policy supplier |
| `MC*` | instances for TLC: constants, symmetry |
| `ExecutionDeadlineProofs`, `AuditChainProofs` | proofs about the module of that name |
| `MigrationRunnerProofs` | proofs about `MigrationRunner` and its refinement of `SingleUse` |
| `SpendProofs` | lemmas about the fold of `Spend` |
| `HeldExecutionProofs`, `SandboxRunProofs` (extend it) | proofs about `HeldExecution` and `SandboxRun`, and about their refinements of `SingleUse` |
| `AgentsProofs` (extends `SpendProofs`) | proofs about `Agents`, hence the bank, policy, swarm, workflow and learning cycle, and about its refinement of `SingleUse` |
| `SigningAuditProofs` | proofs about `SigningAudit`, hence `Signing` and `Reconciliation` |

### MigrationRunner

`pc` walks a runner process through one call: `guard` (`execution_guard`), `read`
and `recon`/`settle` (`_reconcile_owned`, one intent at a time in seq order),
`admit1` (the first boundary), `claim` (`ConsumedApprovals.claim`), `intent`, `admit3`, then the client side of
`postgres_executor`: `connect`, `dblock`, `receipt`, `sql`, `commit`, `ack`, and
`record` for the outcome. The database server acts on its own: it grants the
session advisory lock to one session per `execution_id`, commits migration and
receipt together, fails a commit, or closes an abandoned session. An abandoned
session is not closed at once, which is the point: between a client's death and
its rollback a successor must not conclude anything from a missing receipt.

The approval store is a file: `store[r]` is the inode a process has open, `inode`
the one now at the path. The flock and the set of consumed nonces belong to an
inode and a host. `ReplaceStore` copies the store to a new inode under processes
that keep the old one open. `Record` is one audit append with its three
outcomes: recorded; failed; or committed and then reported as failed because the
anchor write failed. `Age` moves an approval from current through the clock
margin to expired; `late[r]` remembers in which stage of a call that happened, by
the boundary that stage leads to. `AdmitSpend` and `Claim` are two steps, since the
insert of the nonce may wait for the store: an approval that lapses in between is
spent, and refused at the next boundary.

An operator's `assume_owner_dead` is modelled only where it is true of the
intent it is applied to (no process is still inside that call). A false
assertion is documented in the code as the operator's responsibility.

### ExecutionDeadline

True time `now`, a wall clock `now + skew` that may be stepped at any moment, and
an elapsed clock that does or does not count suspends (`aware`). Each reading of
the two clocks is two steps, with time free to pass in between. `Admit` is asked
at the boundaries 1 to 3 of the runner and at 2a and 2b of the executor; the
waits carry the timeouts computed from the budget of 2a (connect, both locks) and
2b (the artifact).

### HeldExecution and Spend

A driver is a process with its own connection. Every commit, chain append and
guarded read of a call is one step; `pc` names it. `Condemned` and `Readable` are
the guarded reads: a pending row without its `pending.hold` entry condemns every
authoritative read, a decision without its receipt the reads of that hold. The
conditional UPDATEs (`resolve_pending_action`, `claim_pending_execution`,
`mark_state_moved`) and the primary key of `spent_authorizations` are what the
code relies on for mutual exclusion, and they are conditions of the actions.
`Crash` ends a call between any two of its steps; it also stands for an append
that raises. `observed` holds the observation entries made when a hold is
approved: without one the execution is refused (`pre_approval_receipt_missing`).

### AuditChain

Appenders read the tip, insert under UNIQUE(seq) and start over on a collision
(`MaxTries` for the code's 16), then read the anchor for `check_monotonic` and
write it, four steps that interleave with other appenders. `verify_chain` reads
the anchor first and the rows afterwards. A hash is the sequence of what it
commits to, so it has no collisions and nothing else is assumed of it. `Damage`
is what the chain exists to show: an older copy restored, a row lost, a row
edited in place, or the whole table written again with matching hashes.

### Signing, Reconciliation and SigningAudit

`pc` walks one `authorize` call through its steps: `Decide` and `AnchorDecision`
(`record_decision`, whose anchor write follows the commit and may fail),
`CheckThenCall`, `SignReturns`, `RecordResult`, `AnchorResult`, `HandOut`. A
request to the service stays in `flight` until it is served or older than
`SignAttempt`, whatever has become of its caller; `ServeSign` writes an event to
the service's own trail, at the service's time. `drift` is the distance of the
gate's clock. `ForeignSign` is a signature nobody recorded, which is what the
reconciler looks for. An id and a nonce are fresh for every call, so an approval
digest is the attempt it belongs to.

The auditor pins the journal (`Checkpoint`), reads the rows (`ReadRows`), and
then reads the anchor and the trail and compares (`Audit`). The trail it reads
lacks what was not delivered yet, what retention or a gap dropped and the pages
that did not come, and may be an export saved earlier; the anchor may be a
history saved at the checkpoint. `Report` is the whole of `reconcile`: windows,
extension of the query, required coverage of the gate, fatal and open problems,
matching of events to records, settling. With a live anchor the coverage test of
the gate is backed by the order in which rows and anchor are read; with a saved
history it is what `NoFalseAlarm` rests on, as its mutant shows. Entries of
CloudTrail carry no digest (`Normalized`), so such a trail is never conclusive.

### SingleUse and SandboxRun

`SingleUse` is the promise of `ledger/spend.py`: an authorization is open,
claimed or done, takes effect at most once and only while claimed, and is given
back only while it has had no effect. Four modules implement it, each with a
record of its own: the sandbox with its executor and the swarm in runs of TLC and
theorems, the gateway (`HeldExecution`) and the runner in theorems, whose mappings
are next to them in the proof modules (section 4).

`SandboxRun` follows a run from `build_sandbox` (`Build`) through the launched
process (`Announce`, `Exec`, `SetupFails`, `ExecFails`, `Die`, `CandidateEnds`) to
the host's reading of it (`Return`, `WallClock`), and from the `SandboxResult` to
what the code verifier, the SQL verifier with its reference and candidate runs,
and the executor make of it. `said` holds the tokens the bootstrap has written;
the candidate shares the streams but not the nonce. `WallClock` ends the process
of the namespace and unsafe adapters; with the container adapter it ends the
client only, and the process goes on. The SQL runner's answer is the file it leaves,
which the verifier reads whatever the exit status, so `SqlEndings` has every
combination of the two, and `Die` may find the file complete. `probe` is the cached answer of the
namespace probe while `host` may change. Under the mapping to `SingleUse` the
record is the fold of the spend entries and an effect is a run of the action that
reached the candidate, counted for the adapters whose processes end with the
wall clock; the run `sandbox_loose` is about the other one.

### VerifierBank, Policy, Swarm, Workflow, SkillLoop and Agents

`VerifierBank` aggregates outcomes as the code does, with log-odds kept as exact
odds, and calibrates soft verifiers by hard ones. `Policy` is the path from a
profile to a decision: `Resolve`, coverage, `Assess`, `Authorize`, the gate; every
entry point resolves again from the policy that is `selected` at that moment, and
`Rotate` may change it in between. A swarm driver proposes, plans, verifies,
assesses, authorizes and then reads the spend state, claims, executes and
settles as separate steps, since drivers are processes over one ledger. A
workflow takes its steps in the order of `Workflow.order`, halts whatever depends
on an ungraded step, and submits an approved action through the gateway; the
controller behind it is `HeldExecution`. The learning cycle measures, mines,
decides on each candidate and measures again after a promotion. The registry is a
folder that outlives the process: `LoopInit` starts from any registry and
`NextCycle` hands what a cycle left, with the advisor's statistics, to the next.

`Agents` composes them. Drivers, workflow and learning cycle share only the
policy supplier, so the instance deploys them one kind at a time
(`Deployments`); the rotation meets each of them.

## 3. Runs

| run | instance | shows |
|---|---|---|
| `runner_one_host` | 2 processes of one host, 2 approvals that may expire, 2 failures | single use, truthful outcomes, finality of not_committed, order of the phases, the deadline boundaries |
| `runner_apart` | 2 hosts, 1 approval, store replaced once, executions and an operator's `assume_owner_dead`, 1 failure | truthful outcomes where no flock is shared |
| `runner_recovers` | 2 processes, 1 approval, 2 failures, fairness | every intent is eventually settled |
| `held_one_key` | 2 drivers, 2 holds and the auto-approved path on one key, 3 calls, 1 crash, 2 target states | single use, truthful fold, approval before execution; a claim left behind is explained |
| `held_settles` | 2 drivers, 2 holds and the auto-approved path on one key, 2 calls, 1 crash, a policy rotation, 2 target states, fairness | decisions are final; lapsed holds are decided unless a row differs from the chain for good |
| `chain` | 2 appenders, 1 verifier, 3 appends, every anchor target, 1 failure, 2 changes to the rows | no false accusation, exactly-once appends, valid means nothing lost |
| `deadline` | both elapsed clocks, skews both ways, suspends, uncertainty 1 | window, expiry and timeouts |
| `signing_audit` | 1 attempt, 1 foreign signature, skew both ways, 5 states of the trail, live and saved reads | record before sign, no false alarm, clean and UNWITNESSED mean what they say |
| `sandbox` | every adapter and setting, 2 runs, code, SQL and action | verdicts, isolation, `SandboxRun` implements `SingleUse` |
| `agents` | 2 drivers on a packet; a workflow of 3 steps; any number of cycles from any registry, 2 training and 2 held-out tasks; 1 rotation; 3 profiles that load and 3 that do not | coverage, halting, promotion, the swarm implements `SingleUse` |
| `held_history`, `sandbox_loose` | smallest instance that shows it | the statements of section 6 that the code does not keep |

Why the bounds are enough. Two processes are needed for every race the code
defends against, and a third would only repeat what one of the two can do again
after it returns: calls are unbounded, the failures are what is counted. Two
failures allow the cases that matter in recovery: an owner dies and then its
successor dies, or the owner's reply is lost and its outcome append fails. One
replacement of the store gives two inodes, hence two flocks and two spent sets.
Three calls on one key are a hold approved, a second hold approved, and a retry
(or an automatic submit) in between; sweeps are not counted. A crash is a death at
any step, or an append that raises. `held_settles` has two calls beside the sweeps and
invalidations, to stay within reach of the liveness check: a hold made and decided,
two holds made, or a submission that dies beside a hold. Two humans who decide one
hold are covered by the theorem `DecidedOnce`. Three appends by
two processes reach a collision, a retry, a collision that exhausts the two
tries, and an anchor written out of order; two changes to the rows allow a
truncation followed by an extension. In `deadline` ticks are finer than both
timeout units, so rounding down to zero and the clamp to one unit both occur.
Approvals do not expire in `runner_apart` (`Aging = {}`): expiry is checked on
one host, where it meets two approvals. Executions reconcile without
`assume_owner_dead`; every `reconcile_unfinished` of that run asserts it, since one
that does not concludes no more than an execution's reconciliation does.

`signing_audit` has one attempt. The comparison is made record by record, so what
a second one could add is two events that compete for a record (the foreign
signature does that, with the digest of the attempt or another) and a gap in the
journal's order, which is the subject of `chain`; instances with two attempts
have millions of states and were not completed. Time runs to 7: an attempt starts
by 1 and ends by 2; its window, with skew and request life, ends at 5, 6 or 7 by
the drift of the gate's clock, and the auditor pins early or late and compares
before or after it has settled (never, in the last case).
Two runs of a sandbox are what the SQL verifier needs (reference, then query),
and what a second execution after a release needs. In `agents` two held-out tasks
make a rate that rises, falls or ties; the graphs are a chain, a join and a cycle;
cycles follow one another until the registry and the statistics repeat. The samples
of an advisor are counted up to two (`MaxSamples`), which reaches both signs of its
weight.

Symmetry: runners of one host and approvals are interchangeable; in
`runner_apart` the two runners only together with their hosts (`Swap`). Drivers,
holds of one key and appenders are interchangeable. No run with fairness uses
symmetry. The two drivers of `agents` are interchangeable. Deadlock is not
checked where the modelled work ends: in `deadline` and `signing_audit` time
stops at `MaxTime`, in `sandbox` the runs are used up, and in `agents` every
runtime ends.

Fairness. `MigrationRunner!Fairness`: a process inside a call keeps running (the
runner has no unbounded wait: the flock is nonblocking, the database waits carry
timeouts), a dead process is restarted, `reconcile_unfinished` is called again,
and the server finishes or closes its sessions. Nothing is assumed of failures
other than that they are finitely many (`MaxFaults`), nor of the arrival of
executions. `HeldExecution!Fairness`: a call that has begun goes on, and every
driver sweeps again and again, as `list_pending`, `approve` and every start of a
controller do.

## 4. Proofs

All theorems are for any number of processes, approvals, hosts, holds, keys,
attempts and bounds, subject to the named ASSUME of the module. Those are typings
of the constants and, where a proof needs more, what the code fixes: `TicksPer...`
and uncertainties are what `admission.py` computes with; `TimesAssumption` lets
time start where no clock reads less than zero; `AuditAssumption` says that the
bounds pinned in the reconciliation policy dominate the real ones (`SignAttempt <=
AttemptBound`, `Skew <= SkewBound`), which is what `docs/reconciliation.md` asks of
whoever pins them; `SandboxAssumption` that `None` is not one of the code's words;
`ProfilesAssumption` that a profile is a table of lists of requirements and that one
loads, without which no composition root can be built. `StepsAssumption`,
`PacketsAssumption`, `LoopAssumption` and `RotationsAssumption` are typings.
TLC evaluates each of them in the runs. The invariants below were checked with TLC
on the instance of their run where it can evaluate them (`CoverRun` has a
quantifier it cannot bound).

Two techniques recur. A module with many actions first gets a lemma that says what
a step of one call may do to the state the invariants speak of (`QuietStep`,
`LedgerEffect`, `Effect`, `Grown`), and the invariants are proved from that lemma.
And where a fact is about every element of a sequence, the proof takes the least
number for which it fails (`LeastNumber`, from the well-foundedness of the
naturals), because the library's induction theorems cannot be instantiated here.

**Runner.** `TypeInv` adds `CallShape` to `TypeOK`: a call past reconciliation has an
approval, a result to record is an outcome, and the intents still to visit are
entries of the chain.

* `CommitsAtMostOnce` does not follow from the spent set alone, since the store may
  be replaced: the argument is the receipt under the session lock. `OnceInv` says
  that a key (approval and inode) has one client (`OneOwner`, from `StoreShape`: a
  nonce is claimed once per inode), that the session of a client past its lock
  phase no longer waits for the lock (`LockGranted`), that one session per approval
  holds it (`OneHolder`), and that a session that may still commit belongs to an
  approval without a receipt (`Fresh`).
* `ChainIsTruthful`, `RefusalIsFinal`, `ContactLeavesATrace` rest on `TruthInv`. Its
  centre is `Final(k)`: the transaction of key k has not committed, no call is
  left to commit it, and its nonce is spent, so that none will come. A
  `not_committed` on the chain (`ChainTrue`), in the hands of a reconciler that is about to
  write it (`LookupTrue`) or of a call (`ResultTrue`) means `Final` of its intent.
  The reconciler may conclude that from a missing receipt because it holds the
  advisory lock, or knows the owner dead, and because an intent belongs to one
  claim (`OneIntent`) and names the process that made it (`MineNamed`).
* `SettledBeforeSpend` and `OneMigrationAtATime` add `Visited`: whoever holds a flock
  and is past its reconciliation has left no unsettled intent of that flock but
  its own.
* `DeadlineRespected`: `InTime` follows the stage in which an approval lapsed through
  the boundaries. Each of them stops what lapsed in the stage before it, and the
  stages leave nothing out between two boundaries. What the theorem does not say is
  that a lapsed approval is never spent: between the first boundary and the insert
  of the nonce it may lapse, as `runner.py:2014-2019` says, and then gets no intent.
* `RunnerKeepsPromise` proves that the runner implements `SingleUse`. An approval is
  open until some store file has spent it, claimed from then on, and done with an
  outcome in the chain: a committed one, and where the store cannot be replaced
  (`MaxInode = 0`) a not_committed or not_attempted one too. After a replacement
  such an outcome closes one file's use of the approval, not the approval, which
  may commit under the new file: the mapping says so rather than the theorem
  leaving replacement out. `RecordSteps` sums up a step: it spends, replaces the
  store, commits, or adds to the chain at most. `CommitIsOpen` is the heart: a
  commit finds its approval spent and not concluded, since a committed outcome has
  its receipt (`ChainTrue`) and, with one store file, an approval with an outcome of
  absence has none, before the commit or after it (`NotCommittedIsFinal`). Nothing
  is ever given back.

**Deadline.** `DeadlineInv`: the elapsed deadline is the first elapsed sample plus
what was left on the wall clock read after it (`DeadlineFixed`), and an unstepped
wall clock is the true time (`ClockRight`). `TimeoutInv` carries the positive budget
of boundary 2b to the watchdog; the rest of `TimeoutsAreBounded` is that a quotient
clamped to one unit neither vanishes nor exceeds the greater of budget and unit.

**Chain.** `HonestInv`: without damage the rows are linked, and every tip that is
anchored, about to be anchored, or pinned by a verifier names an entry of the
chain, because the row is committed before its tip is anchored and because the
verifier reads the anchor before the rows. `AppendLinks` is where UNIQUE(seq) is
needed. `CallsInv` and `WrittenInv` follow a call from its number to the one row it
leaves, over collisions and retries (`AppendedExactlyOnce`). `ValidLosesNothing`
holds in spite of every `Damage`: `PinnedInv` says that an append-only target has
every acknowledged tip and that a verifier has pinned those acknowledged when it
began, and `HashCommits` that two linked chains with the same hash at some
position agree up to it (a hash is what it commits to; the first difference
would contradict it).

**Held execution.** `CallsOK` ties the locals of a call to its phase. `MutexInv` is the
primary key of `spent_authorizations`: one holder for each key, and a used key is
never free again, which gives `UsedAtMostOnce`. `ChainTellsTheTruth` needs `ChainInv`,
which is subtle because the row is deleted before the release is appended: between
the two another call may take the key, spend and run. The late retraction then
meets a record with two unsettled spends, which is malformed and stays so; hence
it can never make a used key read as released. `ApprovedBeforeRun` needs `Claims` (one call has the
claim of a hold), `Approvals` (a moved hold keeps its claim, and no call but
the one that found out goes on) and `Executions`. `DecidedOnce` is an action property.
`SpendProofs` has what these proofs use of the fold: states along a record exist,
are unique, and appending an entry is one more `Fold`.

`HeldKeepsPromise` proves that the gateway implements `SingleUse`. The record of a key
is read off its row and the outcomes chained for it, not off the fold: the fold
reads malformed once a late retraction meets a second spend (section 6), and the
promise is kept all the same. `OutcomeInv` says that a key with an outcome keeps its
row and has no holder left; with `MutexInv`, whoever runs has the row, alone and with
no outcome before it, and whoever gives the row back has not run.

`ClaimsAreSettled` is `ClaimMeansOutcome` for any number of drivers, holds and crashes and
any sharing of keys. A claim that no call is settling is `Stranded` unless its target
moved, its authorization is spent, or another attempt with that authorization is
on record, to which its call lost the race; there are at most as many stranded
claims as calls that died. What makes this inductive is `Listed`, that a call about to
give its key back has left a row under its own hold: the explanation of another
hold's claim therefore outlives the key it rested on (`ExplainedStep`). Every step but
a crash then strands nothing (`StrandedShrinks`), and a crash strands the one
hold its call was settling (`CrashStrands`).

**Signing and its audit.** `RecordComesFirst` is read off `SigningInv`: a request in
flight, and an event of the gate's, has its authorised decision anchored
(`FlightInv`, `OwnInv`), and both lie within the window that the decision's time, its
life, the length of a request and the drift of the clocks leave. The other three
theorems are about `Report`, the whole of `reconcile`:

* what a read returns (`TrailRead`): every event of an interval that the claimed
  coverage, frontier and gaps leave no doubt about. An event's rank in its page
  order is an injection of the read's events into a segment of the naturals, hence
  onto it, so that pages `1..k` hold exactly the events of rank up to `k` pages, and
  an event that was not delivered yet moves the frontier down to its time or earlier;
* what the rows cover (`PinInv`): a signature before the `covered` instant of
  the checkpoint has its decision at or below the pinned tip, because the record
  precedes the request; with it the matched record is found and `AlarmInv` follows:
  a signature of the gate's is UNEXPLAINED only beside a foreign one that took its
  record (`AlarmsAreForeign`);
* the first conclusive event of a record is matched to it (`FirstIsMatched`), so that an
  UNWITNESSED record had none, and its window, extended by the pinned bounds, was
  over when the auditor looked (`WitnessInv`): no event can come later
  (`UnwitnessedForGood`). A clean report is likewise about a range that is over
  (`CleanInv`, `CleanIsComplete`).

**Sandbox.** `RunInv` says of every run what its bootstrap may have said by how far it came
(`Spoken`), who is alive (`Attended`) and where its verdict comes from (`Founded`): from a
process that ended, from the wall clock, or from no process at all. `IsolationAsAsked`,
`VerdictsEarned` and `OwnEndJudged` follow. For a query the verdict is founded on the file
its runner left within the wall clock, not on how the runner ended: `AnswerLeft`.
`SandboxIsSingleUse` proves the refinement:
initial states map to initial states, and `SpendInv` (the authorization is claimed
while its action is under way, nothing had an effect when it was claimed, and what
is refused had none) makes every step one of claim, act, give back, settle, or a
stutter.

**Agents.** The runtimes share only the selected policy, so each has an invariant of
its own.

* `ToldByGraded`: `OrderSorts` says that the topological sort lists a step of any graph
  once, and after what it depends on. `ToldInv` follows the order along a run: the steps to come are to do,
  and what they depend on is done or comes before them. The cascade of halts does
  the rest.
* `ActsOnCover`: `CoverRun` says that a run with an authorization was judged on
  results that cover the snapshot it is authorized under. From `Approved`, an approval
  means a verdict PASS at 3/4 or above; the one way for a FAIL to hide behind a PASS
  is a tie of two hard verifiers, 19 : 1 against 1 : 19, and a tie is not sure
  enough (`HardTie`, `TieIsUnsure`). What the recursive definitions of the bank compute is
  proved for the one or two outcomes these runtimes have (`SortOne`, `SortTwo`).
* `SwarmIsSingleUse`: `Effect` sums up what a driver's step does to keys, entries and
  runs; `UseInv` says that whoever uses a key has its row, and alone, and that a key
  with an outcome keeps its row. Every step is then one of claim, act, settle, give
  back, or a stutter.
* `PromotionsAreEarned` is an action property, over any number of cycles: `CycleInv`
  ties the measurements to the phase of the cycle. The baseline is of the registry
  whenever a candidate goes to the gate, which is what measuring again after a
  promotion is for, and no other step touches the registry. Nothing is assumed of
  what the registry holds at the start, the candidate included. `HardDecides`: a
  verdict of the hard verifier is the bank's, whatever the advisor says, so that
  where it gave every verdict both rates have the same denominator and the better
  one has more passes.
* `AgentsTyped` collects these and adds that the bank never changes what it knows about
  the hard verifier.

Only model-checked:

* the liveness properties `EveryIntentSettles` and `LapsedHoldsExpire`, which need
  fairness;
* `SpendHistoryFolds` and `RefusedMeansNothingRan`, which are false.

## 5. Abstractions and what is not modelled

Each module's header lists its abstractions. Signatures verify or do not, and
approvals enter the runner verified. Individual fields of receipts are not
compared one by one. Ledger payloads that cannot be decoded, columns that are
missing, and other consequences of hand edits to the database are reduced to
`Damage` in `AuditChain` and left out elsewhere.

Left out on purpose:

* signing: canonical encodings, lengths and the rounding of binary64 seconds; two
  overlapping attempts; a journal without an anchor, which the code allows.
* sandbox: the best-effort write of the start line is taken to succeed; a decision
  presented directly to `consume_authorization` has no action of its own; exceeding the
  process limit is a failing end; output that cannot be decoded raises out of
  `subprocess.run`; under the container adapter the SQL verifier never gets a
  payload, and the model says so.
* agents: what a model answers is a choice; retrieval takes every skill of the
  registry; ablation, unanimous sampling, the confidence of a chain, ranking,
  `requested_checks` and the escalation of an advisor are not modelled; the trust
  store belongs to one process. `escalate_below` has its default of 3/4, although
  `config.escalate_below` may set another (`factory.py:411-414`): that no FAIL hides
  behind an approval (`ActedOnCovered`) relies on it, since a lower threshold would
  let a tie of two hard verifiers pass. A skill is its name: its body and version,
  and edits of its document, are left out, and each cluster has one training task.

Not modelled at all, with status `not_modelled`:

* HTTP anchors, transport, provider: exchanges with a service over a socket; what
  would be checked is the parsing of answers and one sum of timeouts.
* substrate: a static description of identities and grants; its checks are pure
  functions of a configuration.
* attestation, core types and configuration, the factories, the command line
  other than `reconcile`: sequential code that reads, validates, wires or renders.
* git tools: the behaviour is git's.
* conformance, benchmarks: harnesses and recorded data.

## 6. What the checks found

Statements of the repository that its code does not keep, each with a run:

1. `release_authorization` deletes the mutex row before it appends the release;
   a claimer in between leaves spend, spend, release, which folds to malformed
   for good, "a history that cannot have happened" (`held_history`). Swarm drivers
   use the same release.
2. `ContainerSandbox.run` ends only the docker or podman client when the wall
   clock strikes (`container.py:375`). If the start line had not been relayed, the
   executor refuses, "the candidate never did, so nothing ran"
   (`executor.py:137`), the controller gives the authorization back, and the
   container may still run the candidate (`sandbox_loose`).

Noticed while modelling, without a run of their own:

* `runner.py:2098-2101` says that the outcome of an approval that lapsed after
  its intent "resolves the intent truthfully rather than leaving a phantom".
  `_reconcile_owned` does not take `not_attempted` for terminal and the entry
  carries neither target nor artifact, so the intent stays unsettled until the
  next reconciliation settles it by the receipt.
* `pending.py:318-320` says that the TTL expires a hold whose chain append failed.
  Its row condemns the guarded read with which every sweep begins, so it never
  expires, nor does any other hold of that ledger. The same window makes an
  ordinary `hold()` in progress read as tampering (`receipts.py:124-126`).
  `held_settles` reaches this, and `LapsedHoldsExpire` says so: a lapsed hold is decided
  or some row is `Unchained`.
* The driver that loses `claim_authorization` keeps the claim on its hold. When
  the winner's execution is refused and released, the loser's approved hold can
  never run, although a refusal is said to leave an approved hold "retry-eligible"
  (`controller.py`). `held_one_key` reaches this, and `ClaimMeansOutcome` names the
  lost race among the reasons for which a claim is kept.
* An approval may lapse between the first boundary and the insert of its nonce and
  is then spent, never to be used (`runner.py:2014-2019` accepts this).
* `SqlVerifier` never reads the exit status: a runner that is killed, or fails, after
  its `result.json` is complete still gives a PASS, or serves as the reference
  (`sql.py:284-288`, `384-418`). `VerdictsAreEarned` therefore asks of a query that its
  rows were written within the wall clock, not that its runner ended well.
* The forge does not look into the registry (`miner.py:84-96`), which outlives the
  cycle. A skill that is registered already may be mined again when its task fails
  once more; baseline and candidate are then measured with the same skills, and a
  proposer that answers differently the second time gets the skill "promoted"
  without any lift of its own. `PromotionIsEarned` says what the two measurements were
  of, and no more.
* `AnchorRewind` says "the chain has shortened"; two honest appenders that anchor
  in the other order than they committed raise it.
* `runner.py:748-750` says that neither lock can block past the deadline; the
  `lock_timeout` at 821 is computed from the budget taken before the connect, and
  each lock gets all of it. Boundary 2b refuses afterwards, so no SQL runs late.
* A replaced store lets one approval be claimed once in each file, so two intents
  carry one `execution_id`. Outcome entries name the execution, not the intent: a
  `not_committed` recorded for one of them also settles the other, whose orphaned
  transaction may still be open. The advisory lock and the receipt still keep the
  migration from committing twice (`AppliedAtMostOnce`, proved without any
  condition on the store), but `OneMigrationPerLock` is stated for a store that
  was not replaced.
* `PendingService._expire` raises `StateError` when another driver has decided
  the hold since the sweep's read, although `sweep` is described as a no-op then.
* `FileTipAnchor.write` reads the held tip and replaces the file in two steps, so
  an older tip can end up over a newer one. `ValidMeansNothingLost` is therefore
  stated for the append-only targets only.
* `recorded_authority.py:242-246` gives the reason `unbound_authorization`, which
  `REASONS` lacks, so the record says `invalid_request`.
* `read_gate` reads the rows before the anchor's history (`reconcile_gate.py:143`).
  An append between the two reads gives `gate_integrity_failure` on honest data,
  which `docs/reconciliation.md:126-128` does not expect; the report is then
  inconclusive, not wrong.
* When the hard verifier abstains an advisor decides whether a task passed, and a
  fresh advisor's FAIL ties to PASS, although `docs/judge-quality.md:4` says that
  the model judge never decides a verdict. `PromotionIsEarned` compares the hard
  verdicts only where there is one for every task for this reason.
* Under the baseline profile a structural FAIL against a code PASS ties 19 : 19 and
  aggregates to PASS at 0.5 with a conflict; `escalate_below` routes it. Workflow
  grades are bound as `workflow.grade`, which no committed profile permits, so
  every workflow action is unavailable under them.
* The swarm's `_record` writes "executed" for a refused replay. The trust store
  reads, changes and writes in steps that two processes could interleave.

## 7. Plan

Sections 2 to 4 are done. Left to model: the HTTP anchors as a fourth target of
`AuditChain`, the transport's deadline, and two overlapping attempts in `Signing`.

To prove next: what the fold of the bank computes for any number of outcomes, with
the least-counterexample argument of `OrderSorts`, and the premises of the liveness
properties that are safety.
