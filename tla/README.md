# A TLA+ verification of praxis

praxis is an MCP server through which a language model observes and operates a
fleet of hosts. What makes it safe to run is not the tools but the machinery
around them: one audited path that every call takes, single-use approvals for
what changes a host, budgets, a kill switch, a hash-chained audit log with
Merkle evidence over it, and an append-only fact store. This project models
that machinery, checks it with TLC on small instances, and proves what matters
most with TLAPS.

All paths below are relative to `src/src/praxis/` unless they start with `docs/`.

## 1. Inventory

| Component | Source | State | Operations |
|---|---|---|---|
| Policy | `execution/policy.py`, `execution/patterns.py` | none (bound at start) | `check`: deny list, mode ceiling, tier of a probe |
| Approval registry | `execution/contract.py` | pending nonces with binding and deadline, consumed nonces | `mint`, `validate`, `consume`, `_purge` (expiry, eviction at `_MAX_PENDING`) |
| Budget tracker | `execution/contract.py` | actions and wall seconds per session | `charge`, `record_spend` |
| Kill switch | `execution/runner.py` | a flag, a sentinel file | `trip`, `reset`, `is_tripped` |
| Credential broker | `actuation/credentials.py` | grants by handle | `grant`, `revoke`, `kill_all`, `authorized` |
| Audited path | `execution/runner.py` `run()`, `tools/` | the taint latch of a session; everything above | the ten steps of `run()` |
| Audit log | `execution/audit.py` | the file and what its buffer holds, the chain head, the degraded flag | `record`, `close`, `_recover`, `verify_chain` |
| Evidence | `audit/evidence.py`, `audit/merkle.py`, `audit/session.py` | pending counter, evidence file, anchor file | `on_record`, `finalize`, `make_checkpoint`, `write_anchor`, `verify_evidence` |
| Fact store | `store/`, `model/facts.py` | the `facts` and `edges` tables | `put_fact`, `put_fact_if`, `supersede`, `put_edge`, reads |
| HTTP transport | `http_server.py` | the bounded, idle-evicting session registry | `create`, `get`, request dispatch |
| Drift engine | `drift/`, `tools/drift.py`, `collectors/cis.py`, `tools/collect.py` | none of its own: known-good and observed rows of the store, the waivers in the code | `drift_scan` (two reads, `diff`), `seed_cis_baseline`, `cis_drift`, the CIS ingest |
| Actuation | `tools/actuate.py`, `actuation/` | the child process of a call | `build_request`, `actuate`, `run_subprocess`; per adapter `build_argv`, preconditions |
| Other collectors, skills, governance, config, redaction | the rest | none, or static | pure functions and manifests |

How they interact. A tool handler builds an `ExecutionRequest` and calls
`run()`. `run()` redacts the arguments, reads the kill switch, asks the policy,
arms the taint latch for untrusted input, decides whether an approval is
required and consumes one, evaluates preconditions (among them the credential
scope), charges the budget, executes, records the wall time, mints a nonce
after a successful gated dry run, and writes exactly one audit record. The
record's post-write hook is the evidence scheduler. Over HTTP every request has
a thread of its own: registry, budget and taint latch belong to a session and
are shared by its threads, while kill switch, broker, log, evidence and store
are shared by all. Each object has a lock of its own and no lock spans two
steps of `run()`.

What is hard. Threads interleave between any two steps of `run()`; what a step
read may be stale when a later one uses it. A process may stop between any two
steps, or in the middle of a write; only files and the database survive. Hooks
run outside the logger's lock. Paths are resolved several times on the way to a
command, and a child process may hang, fail, or leave others behind. A scan, a
seed and an ingest are several statements each. Nonces expire, are evicted, and
are presented again. Several store instances share one database. `PROJECT.json`
lists these hazards, each at its line.

What makes each component correct:

* approvals: a nonce is honoured at most once, where and for what it was
  minted, before its deadline, and the table is bounded;
* audited path: nothing that needs an approval executes without one; nothing
  executes unaudited, over budget, or under a stop;
* audit log: append-only, complete, and verifiable whenever nothing was torn;
* evidence: every checkpoint holds of the log, and after an orderly shutdown
  the last covers it;
* actuation: a host is only changed by the command that was approved, on a host
  type the adapter may touch; a call that was answered has left no child, and
  no child holds up its call for ever;
* drift: a finding is true of the store at some moment of the scan, and
  evidence is judged by what it says, not by how it is written;
* sessions: one client never affects another except through the store, the log
  and the stop; a session ends only when idle or oldest, and for good;
* store: an append-only log with one active row per key; compare-and-set loses
  no update.

## 2. Modules

| Module | Models | State and actions |
|---|---|---|
| `Policy` | classification | operators only; `Attr[a]` is what the patterns say of an action |
| `Nonce` | what an approval promises | `status` and `uses` of each nonce; `LapseAndDraw`, `Use` |
| `Approvals` | `ApprovalRegistry` | `pending`, `consumed`, the clock; `Mint`, `Validate`, `ConsumeOK`, `ConsumeRefused`, `ForgetApprovals`, `Tick` |
| `Budget`, `KillSwitch`, `Credentials` | the objects `run()` consults | one operator per method |
| `Runner` | `run()` and the tools that enter it | composes the four modules above; `pc[c]` is the step a call takes next, one action per step of `run()`, the operator's actions, `Restart` |
| `Actuation` | `run_action` and the adapters | extends `Runner`; what each order's path resolves to, how far a call's request is built, its child process; `Submit`, `Prepare`, `EnterRun` (the three builds), `CheckAdapterPre`, `Spawn`, `Communicate`, `Timeout`, `ReplyAction`, `Repoint` |
| `AuditLog` | `AuditLogger` | the file as lines, the head (`seq`, `prev`), `degraded`, the line that a failed write left in the buffer (`held`); `Start`, `WriteRecord` (with `WriteFails`, and a stderr that fails as well), `CloseLog` (which flushes what is held), `Crash`, `CrashInWrite` |
| `Evidence` | scheduler, anchor, `serve()` | extends `AuditLog`; `pend`, the checkpoint in progress, the evidence and anchor files with their torn and unended lines; `OnRecord`, `AppendCheckpoint`, `FailCheckpoint`, `WriteAnchor`, `Finalize`, `Close`, `Die` (both of which may come within an append) |
| `Sessions` | `SessionManager` and the HTTP handler | the session table, whose objects each context refers to, per thread the message and the context it was given; `Post` (with `Create`), `Found`, `NotFound`, `Dispatch`, `Turnaway`, `Refuse`, `Tick` |
| `FactLog` | what the store promises | `facts`; `Put`, `Invalidate` |
| `FactStore` | `SqliteStore`, `PostgresStore` | the committed rows, and per instance the statement it issues next, what it read, locked and computed; one action per statement, and `Busy`, `Fail`, `Die` for one that times out, fails, or is the last |
| `Drift` | `drift_scan`, `diff`, the CIS baseline, its collector | the active observed and known-good rows, the waivers, the facts an ingest or a seed has still to store; `ReadObserved`, `ReadKnownGood`, `BeginIngest`, `StoreObserved`, `BeginSeed`, `StoreKnownGood`, `Abort`, writes of others, `Restart` |
| `MC...` | - | the instances TLC checks |
| `...Proofs` | - | the theorems about `Approvals`, `Runner`, `Actuation`, `AuditLog`, `Evidence`, `FactStore`, `Sessions` and `Drift`; each extends its module, `RunnerProofs` also `ApprovalsProofs`, `ActuationProofs` also `RunnerProofs`, `EvidenceProofs` also `AuditLogProofs` |

The grain. Where a method holds a lock throughout (the registry, the tracker,
the logger) it is one action. `run()` holds none, so each of its steps is an
action. A checkpoint reads the log, appends to one file and then to another:
three actions, of which each append may be torn. A store method is several SQL statements: one action each. A
scan is its two reads, a seed or an ingest one action per fact.

How they compose. `Actuation` adds to the steps of `Runner` what `Runner` takes
as given: which request is built, whether the adapter's preconditions hold, and
what `execute` does. An action of `Actuation` that is a step of `run()` is that
action of `Runner` with further conjuncts, so `Runner`'s type invariant is part
of `ActuationTypeOK`. Its scope and operator actions (grants, the switch,
restarts) are left to `Runner`'s own runs. `Drift` starts from what is proved
of `FactStore`: a write takes its whole effect on the active rows in one step
(`StoreCallsAtomic`), and a key has one active row (`StoreOneActive`);
`list_active` is one statement.

Abstractions. A token is the number of its mint, a hash the number of its
record, a Merkle root the lines it covers: `secrets`, SHA-256 and uuid4 are
taken to be ideal. An `Action` stands for everything that an approval is bound
to (tool, command, target, arguments), with the verdict of the regular
expressions as data. A line of the log is what its bytes amount to for a
reader: a record, a record whose text holds a Unicode line separator, a torn
piece, or undecodable bytes. A fact's content is what `content_hash` covers.
An adapter's argv is the real-run command it stands for, or `Refused`; which
paths lead where is `place`. A setting of a CIS control is a scalar or a list
of texts made of tokens, with or without the blanks and capitals that
`normalize_value` removes; a control's documentation (title, rationale,
remediation) is left out, its scope and desired value kept.
Histories (`executed`, `origin`, `answer` and others) are read by no action;
they are named so in the modules. Definitions whose comment starts with
"Mutant:" are deliberate errors: nothing uses them but the check that each
property can fail.

## 3. Runs

| Run | Checks | Distinct states |
|---|---|---|
| `approvals` | two sessions, two actions, three mints, two pending, expiry and restart: `SingleUse`, `HonouredAsMinted`, `PendingBounded`, and that the registry implements `Nonce` | 63 thousand |
| `runner_gate` | three calls of two sessions (T1, T2, read, ingest), expiry, a table of one: `ApprovedOnce`, `GatedWhereRequired` | 1.7 million |
| `runner_limits` | three calls at ceilings of one action and one tick, a denied command, emergency stop, sentinel faults, restart: `BudgetExact`, `OneRecordPerRun`, `StopHolds` | 1.3 million |
| `runner_live` | fairness; two calls, an exhausted budget, grants, restart: `EveryRunAudited`, `EmergencyStopTakesHold` | 124 thousand |
| `actuation` | fairness; two calls of six orders (a playbook whose file is swapped, a tofu workspace, a Talos upgrade, a reset of two nodes, ssh to Talos, a runbook without a root), ingest and stop: `ChangedAsApproved`, `AnsweredMeansEnded`, `AnnouncedWasMinted`, `HungChildEnds` | 157 thousand |
| `drift` | two nodes, a node control and a control-plane control, waivers that change at restart, overlapping ingests, four events besides the scans: `ScanTrueAtARead`, `EvidenceJudged`, `SeedAgrees` | 2.7 million |
| `evidence` | three records, three starts, every kind of torn write to each of the three files, a failing stderr, failing checkpoints and anchors, closes of a log that holds a line back, both transports: the log's `SoundLogVerifies`, `RecordsKept`, `HeadIsTail`, `AppendOnly`; the evidence's `CheckpointsHold`, `AnchorNotAhead`, `NothingForgotten`, `VerifiesAtRest` | 1.4 million |
| `fact_store` | two instances, both backends, two keys, two contents, four calls with lock timeouts, failing statements, lost answers and crashes: `ImplementsFactLog`, `CasNoLostUpdate`, `AnswersAreTrue`, `NoWaitCycle` | 1.6 million |
| `sessions` | two threads, three sessions in a table of two, idle expiry, five messages (initialize, reads, dry and real runs, stop, notifications, refused requests): `Isolated`, `StopIsGlobal`, `NeverRevived`, `LeavesIdleOrOldest`, `NotificationsOnlyTouch` | 2.7 million |

Deadlock is not checked: in every model the bounded calls run out, and then the
system rests.

Each module has one type invariant, checked in one run; those of `Approvals`
and `Runner` are part of `ActuationTypeOK`, and that the session table is
bounded is part of `SessionsTypeOK`.

Three runs expect a violation. Each states what a comment or a docstring says
and finds a behaviour of the code that does not keep it (`findings` in
`PROJECT.json` quotes the line):

* `log_separator` (`WrittenLinesVerify`): a record whose text holds U+0085,
  U+2028 or U+2029 is written as one line and verified as two.
* `log_unended` (`RestartContinuesChain`): after a crash that cost only the last
  newline, the first record of the next process is glued to the last line.
* `waived_alerts` (`WaivedNeverAlerts`): a control that was seeded or ingested
  and is waived afterwards keeps its rows, and `drift_scan` goes on alerting.

Where a property has an exception for one of these, or for a case below, it is
spelled out in the property, so that the run shows the rest holds. The log's
are `joined` (a start on a last line without its newline), "split" (a record
with a Unicode line separator) and `muted` (a record whose write to stderr
failed after the one to the file had). The evidence's are `failed` (the last
checkpoint or its anchor failed, with a warning), `glued` (a checkpoint was
appended to an evidence line without its newline, or the last anchor line to
such a one) and `mended` (the close of a degraded log finished a torn line that
a checkpoint covers).

Also met while modelling, described here and not checked by a run of its own:

* A call past step 2 of `run()` when the switch is tripped still executes;
  `StopHolds` is about calls that enter after the stop.
* A call that the adapter's argv builder refuses never enters `run()` and
  leaves no audit record (`RefuseToBuild`).
* The reply to a dry run works out again whether a token was minted, after the
  latch may have changed and without the exception for T3 on several targets:
  such a dry run is told of a token that `run()` does not mint.
  `AnnouncedWasMinted` shows that this is the only case: every adapter floors
  at T2, where the latch does not decide. An adapter with the base class's
  floor of T1 would have the race.
* Whether the credential scope is enforced is `has_grants()`: when the last
  grant is revoked it is off again, although `tools/actuate.py` says that "once
  the operator issues a grant, every actuation must be covered by one".
* `_write` swallows an `OSError` of the stderr fallback too: a record whose
  write fails on both sinks is lost although `record()` returned, and the next
  record is chained to it (`muted` in `RecordsKept`).
* `_degrade` announces itself with a `print` that nothing guards: on a broken
  stderr `record()` raises, although its docstring says "Never raises on write"
  (`Raises`). The chain does not advance. A tool then reports an error for an
  action that was executed; if the record was the one that binds the session,
  the process ends. `Runner` takes a record as written. The same `print` in the
  constructor may end a start, which leaves nothing behind and is no action.
* A failed flush may leave the rest of the line in the buffer of the file, and
  `close()` of the degraded logger writes it after all. A checkpoint that
  covered the torn line (of a hook that waited for the scheduler when the write
  failed, or the last one, of `finalize`) then fails with "merkle root mismatch
  (tamper detected)", although nobody tampered (`mended` in `CheckpointsHold` and
  `VerifiesAtRest`). The record may then be in the file and on stderr.
* An evidence line that lost only its newline, by a crash or a failed append,
  still verifies. The next checkpoint is appended to that line, and from then
  on every verification and every checkpoint fails (`glued`). The same happens
  to an anchor line: "anchor unreadable", until an anchor is written to a line
  of its own. So `VerifiesAtRest` does not hold of every crash, but of every
  one that left these two files with ended lines.
* A failed checkpoint has already reset the counter, so `finalize` sees nothing
  pending and leaves the tail uncovered ("Checkpoint any uncovered tail").
* Between the commit of `put_fact` and its second read another instance may
  supersede the row: the caller gets "invariant violated: just-inserted fact is
  not active" for a write that was done. An exception of that second read, or a
  lost answer to the COMMIT, also reports a failure of a write that was done
  (`Fail`, "unsure"); `AnswersAreTrue` promises nothing of those.
* A path is resolved three times before `run()` is entered: for the approval's
  action id, for the argv and for the request. The call is refused when the
  first and the third differ, but a path that is swapped and swapped back runs
  the second (`raced` in `ChangedAsApproved`); it still lay inside the root.
  `tofu apply` is bound to its workspace, not to the plan that was previewed.
  For a dry run the request is built from two argvs, so its path is resolved
  once more, between the preview that is classified and the key that is
  approved; `EnterRun` takes the two as one.
* Two upgrades of two nodes may both pass the health check and run together:
  the one-target rule is per call.
* A process that leaves the child's process group survives the timeout; the
  call ends all the same.
* A scan may report, of a key whose observed and known-good row both changed
  between its reads, what was true at neither moment.
* `normalize_value` does not split the items of a list, so an item that holds a
  comma keeps its order (`Flat` in `EvidenceJudged`).
* The CIS collector does not look at scopes: evidence of a control-plane
  control from a worker is stored, and reported as unexpected.
* `verify_chain` raises on a file that is not UTF-8 (`VerifyChain` = "raises").
* A checkpoint whose anchor write failed verifies if an earlier head is anchored.
* Over HTTP, `finalize` does not wait for worker threads (`Joins`), so
  `VerifiesAtRest` is claimed for stdio only; a thread that records behind the
  close finds a closed file and degrades, as one whose write failed before it.
* The comment in `_dispatch` says that a notification "must have no side
  effects". It has two: `get` runs before the message is found to be a
  notification, refreshes `last_seen` of the session that the header names, and
  deletes that session if it is idle past the TTL. `NotificationsOnlyTouch` is
  what does hold: a notification mints no session, evicts none to make room,
  reaches no context, and touches no session but that one in no other way. No
  run of its own refutes the comment.
* `create` and `get` of one `initialize` are two lock sections: when the table
  is full and the other sessions were served in between, another `initialize`
  evicts the new session, and its client is told to initialize first.
* A client that initializes again has a clear latch and a full budget; the
  isolation is per session, not per client, as `session_context` says.
* On PostgreSQL a collision on `seq` with a writer of another key ends
  `put_fact_if` with a `VersionConflict` for a key nobody touched, or with the
  raw error if the key had a row.

### Bounds

Each bound is a CONSTANT with a comment, and enough for the case it is there
for. Three calls are a dry run and two real runs that race for its nonce, a
delivery of untrusted content with two calls around it, or a stop with a call
before and one after it. A table of one nonce evicts at the second mint. Three
starts are a process that tears a line, one that recovers it, and one that
recovers from the result; with `Every` = 2, three records are an interval and a
tail, or an interval and a record during its checkpoint. Four store calls are a row and three writers of it, of
which two run at a time; two keys let two transactions collide on `seq` alone.
Five messages are two sessions, untrusted content or a dry run in one, and two
calls of the other; a third session in a table of two evicts; with a TTL of one
tick, two ticks are an idle session, or one kept alive by a call in between.
Two actuations are a dry run and the real run that presents its nonce, or two
real runs side by side; a path with two places can be swapped and swapped back;
a child leaves nothing, a process on its pipes, or one outside its group. Four
events of the drift model are a seed, a waiver with a restart, a second seed
and an ingest or a blessing between them; scans are not counted. Ingests overlap, as they
may over HTTP: another begins when those under way have at most `Backlog` facts
left to store. The run's documents name one control each, so that two of them
under way are also one that names two.

Symmetry is declared over calls, sessions, threads, writers, instances,
keys and contents, which no definition tells apart, and in no run with a liveness
property.

### Fairness

`runner_live` assumes weak fairness of each call's next step of `run()`. The
code justifies it: no step waits for another call (locks are held for bounded
work only, a refused consume or charge returns at once), an actuation
subprocess is killed at its timeout, and threads are scheduled by the
operating system. `actuation` assumes the same of `CallStep`, in which the
deadline of `communicate` is a step of the call: that a child, or what it left
behind, ever exits is not assumed (`ProcessEnds` is not fair). A restart is not
fair, and ends a call as "lost". Nothing is assumed of the operator, the clock
or the arrival of calls.

`NoWaitCycle` takes the place of a liveness property for the store: while
calls are being served some statement can be executed without a timeout. `Waits`
collects the guards of the statements that wait (`CanWrite`, `RowFree`,
`KeyFree`, `SeqFree`), so that the property can be proved; for a call in flight,
`~Waits(i)` is `ENABLED Issue(i)`, which TLC confirmed with three calls, two
instances on both backends and three on PostgreSQL. As a call has at most eight
statements (`StoreGoesOn`), calls then end if statements do.

## 4. Proofs

Every invariant and every action property of the passing runs is a theorem, with
one (`EvidenceJudged`) split into a proved part and a part about data. The theorems hold for every value of the constants: any number
of sessions, calls, threads, writers, instances, keys and messages, any ceiling,
TTL and table limit. `theorems` in `PROJECT.json` lists them with the property
each one states.

### Assumptions

Only the ones named in the modules, which TLC evaluates on the instances too:
the types of the constants; positive limits (TTL, table limits, `Every`); that
placeholders are not values (`Main \notin Writer`, `Nobody \notin Instance`,
`NoContent \notin Content`: a `content_hash` is never `None`); in `Runner` that
`emergency_stop` classifies at T0 and is not denied (it passes no command, and
the name of the tool matches no pattern), on which `EmergencyReachable` depends;
in `Drift` that controls and predicates have
different names; and in `Actuation` that every command an adapter builds has
kind "act" and floors at T2, which is what each of the five adapters declares
(`base_tier`). That last one is what `AnnouncedIsMinted` depends on: see the
note on the reply in section 3.

### The method

The properties speak of what happened in the end (executed, honoured, verified)
and are not inductive. Each proof module states what a component in mid-flight
carries from the step that decides to the step that acts, a conjunct per idea;
their conjunction is the inductive invariant, which TLC checked on the instance
of the run before it was proved. A lemma per action (or kind of action) shows
that it is kept; the theorems follow from it.

**Approvals** (`ApprovalsInv`, `BoundInv`). `SingleUse` says nothing of a nonce
that is pending. The invariant adds that a pending entry repeats what was
recorded when it was minted (`PendingIsOwn`), that records are about tokens
drawn and one per token (`OriginDrawn`, `OriginUnique`), so that a token sits in
one registry, and that a pending or undrawn token is unused. There is a lemma
for each kind of step: a mint, a step that only drops entries (refusals, purges,
restarts), a successful consume. `PendingBounded` needs that the entry evicted
is there (`Smallest`) and that its removal makes room (`RoomMade`), by
cardinalities of finite sets. The refinement of `Nonce` maps a token to fresh,
live, void or used; that a step maps to *one* step of `Nonce` even when a purge
and a mint happen together is why `LapseAndDraw` does both.

**Runner** (`RunnerInv`). On top of `ApprovalsInv`: what the step a call is at
says about what it did (`PhaseInv`); the record is written at "audit" and
nowhere else (`LogInv`); a call past the gate that needed an approval was
marked, and the latch that had to be armed by then was (`GateInv`); a gated real
run past the gate holds a nonce of its own that is used, while a pending one is
nobody's (`NonceInv`); a session's counter is the number of its charged calls
(`BudgetInv`); a standing stop is seen by `is_tripped` and halted calls are no
further than the switch (`StopInv`). `PathImplementsRegistry` shows that `run()`
is a correct user of the registry (`Spec => ApprovalsSpec`), so all theorems
about approvals hold on the path. Two theorems are the safety behind the
liveness properties: `RunGoesOn`, that every step of `run()` takes its call to a
later step and none takes a call back, and `EmergencyReachable`, that an
emergency stop is turned away by nothing but a switch that is tripped already
(it is T0, so `EstopInv`: never gated, and has no nonce to wait for). The lemmas are stated for `PathNext`, in which
a request's approval may name another action than it runs: that is what
`Actuation` needs.

**Actuation** (`ActInv`). Every step of `Actuation` is a `PathNext` step or
leaves the path alone (`ActIsPath`), so `RunnerInv` and its five properties hold
with the adapters on the path (`AdaptersKeepPath`), and so do the two theorems
about progress (`AdaptersKeepGoing`). Added are: what has been
built so far is what was asked for, and inside its root (`BuildInv`); past the
preconditions the host is supported and an upgrade probed (`PreInv`); a process
belongs to a call in or after `execute` and has ended when `execute` returned
(`ProcInv`); an allowed dry run has minted by the time it is audited
(`MintedInv`).

**AuditLog** (`AuditInv`). `HeadIsTail` alone does not survive a torn write.
`LinesInv` says which lines can be torn: only the last can be unended, and a
logger that is up and not degraded has an ended file, unless a start met a torn
one (`joined`). Each record then continues the chain that is in the file.
`HeldInv` says what a close can do to it: a line is held back only by a logger
that is degraded; a last line that is unended is that line itself or cannot be
read, so finishing it takes no record away; and if nothing was torn, the line
held back continues the chain.

**Evidence** (`EvidenceInv`). First, every step of the server is a step of the
log or leaves it alone (`ServerImplementsLog`), so the log's theorems carry
over. Then: who holds the scheduler's lock (`LockInv`); a checkpoint in the
making is over a prefix that is there and no shorter than the last (`CoverInv`;
that a close changes only the last line, and sets `mended` when a checkpoint
covers it, is what keeps it); the head to be anchored is newer than the anchor,
whatever became of the lines before it (`AnchorInv`); unless the last checkpoint
failed, the evidence is complete whenever nothing is owed, where what is owed is
the counter, a hook to come or a checkpoint in progress (`SettleInv`: a record
written during a checkpoint has a hook that waits for the lock). Complete
(`Settled`) means that the last checkpoint covers the log, and that evidence and
anchor can be read unless a line was glued. A stdio shutdown has waited for the
writers (`JoinInv`), and a process that serves has ended its first line
(`EndedInv`).

**FactStore** (`StoreInv`). That a commit of interleaved statements is one step
of `FactLog` rests on: rows are numbered without gaps (`RowInv`), only the
latest row of a key can be active (`LatestInv`), a held row is active and has
one holder (`HeldInv`), at most one call per key is in the index on active rows
and holds whatever row is active (`IndexInv`), a seq that is in the unique index
is the next (`SeqInv`). For compare-and-set, `CasInv` carries the version that
was compared to the commit. `StoreAnswersTrue` and `StoreCasExact` are proved
together on top of it. `StoreNoWaitCycle` needs who has SQLite's write lock
(`LockInv`): every transaction that has written or compares, and nobody outside
one; so the holder waits for nobody, and without a holder there is nothing to
wait for. On PostgreSQL a wait for the index on seq is for a call that commits;
a wait for the index on active rows or for a row ends, if not at a call that can
go on, at the holder of the key's one active row, which does not wait for that
row. What the users of the store rely on follows: one active row a key
(`StoreOneActive`), a call's whole effect on the active rows in the step of its
commit (`StoreCallsAtomic`, with the `Stored` and `Without` of `Drift`), and
rows that keep what they say (`StoreHistoryKept`).

**Sessions** (`SessionsInv`). A session's context consists of its own objects
and its client's ceiling, and it is idle exactly if it was ever found idle
(`TableInv`); the context a thread was handed is that of the id it looked up
(`ThreadInv`), so a call dispatched after its session was evicted still acts on
that session only; what a session owns is about it (`LedgerInv`, `RanInv`). That
the table is bounded, and that the session evicted was served least recently,
needs that a set of numbers has a smallest.

**Drift** (`DriftInv`). A finished seed is still in place, and of a running one
what is not to be stored any more (`SeedInv`); an observed row with evidence
behind it is that evidence, normalized (`EvidenceInv`). `NormalizeValue` is left
open: `EvidenceNormalized` proves that a control is reported exactly if evidence
and baseline normalize differently, and `EvidenceJudgedIfFaithful` that evidence
is then judged by what it says if `NormalizeFaithful` holds of the constants.

### Only model-checked

* Liveness: `EveryRunAudited`, `EmergencyStopTakesHold`, `HungChildEnds`. The
  prover has no rules for fairness and ENABLED. What the first two rest on,
  forward steps only and an emergency stop that nothing turns away, is proved.
* `NormalizeFaithful`, what `normalize_value` makes of each setting: it is about
  the texts themselves, which would take induction over them. The `drift` run
  checks `EvidenceJudged` outright for the settings of its instance.
* The three claims that the code does not keep.

Proving found two places where a module said less than the code: the answer of
`Reread` had overlapping cases, of which a reader could not tell which was
meant, and nothing excluded a content equal to the placeholder for "none".

## 5. Not modelled

* The secondary audit sinks, RFC 3161 stamps and the log's file permissions:
  best-effort copies and cryptography.
* The usd axis of the budget, postconditions and `RetryPolicy`: no caller.
* `history`, `edges_from`, embeddings: reads, or without invariants of their own.
  A fact that is given with `t_invalid` would be inserted as no longer active;
  nothing in the package sets it on a fact it stores, and `NewRow` is active.
* `parse_tofu_plan`, `parse_ansible_check`, `DriftFinding.to_fact` and the
  convergence plans: nothing in the server calls them.
* The parameters of adapters that `run_action` never passes (`system_labels`,
  runbook arguments), and the text of an argv.
* The stdio loop: it reads one message at a time and dispatches it, so what it
  adds to the calls of `Runner` is parsing and refusals that touch no state.
* Collectors but the CIS one (parsers), skills, governance, configuration, the
  SSRF guard, redaction: pure or static. What the audited path must expect of
  them (redaction fails, a read returns observed facts) is in `Runner`; what
  the other collectors store is `WriteObserved` in `Drift`.
* The sockets of the HTTP transport: I/O. In `Sessions` a dispatched call is
  one step and a nonce does not expire by the clock (a refusal may take it at
  any time): `Runner` and `Approvals` have these in full, for contexts that are
  already there.

## 6. Plan

1. Done: approvals and their abstract nonce; the audited path; log and
   evidence; the fact store; the HTTP sessions; actuation with its adapters and
   child processes; drift detection; the theorems of section 4.
2. Possible: the Merkle tree as a pure algorithm against a reference
   definition; the framing of the stdio loop.
3. Out of the prover's reach: the liveness properties themselves, and what
   `normalize_value` computes for every text.
