# TLA+ models of db-migrate

db-migrate runs SQL and JavaScript migration files against MariaDB and MongoDB:
versioned files (DDL), each recorded once in a changelog on the database, and
repeatable files (DCL: users and grants), run again when their content changes.
It is a command-line program: no daemon, no lock of its own. What makes it hard
is what happens *between* its awaits: other runs, developers editing files,
killed pods, statements that commit one by one, retries and timeouts.

This directory holds TLA+ modules that model it, TLC configurations that check
them on small instances, and proofs that the TLA+ proof system (TLAPS) checks
for all instances. Paths below are relative to the repository.

## 1. The system

| Component | State | Operations | Where |
|---|---|---|---|
| MariaDB versioned migrations | `schema_migrations` (id, checksum), the database objects | `status`, `up`, `upWithSanityCheck`, `rollbackPlan`, `down`, `baseline`, `resetChangelog`, `repairChecksum` | `src/adapters/mariadb-adapter.js` |
| MongoDB versioned migrations | changelog collection (fileName, checksum) | the same | `src/adapters/mongodb-adapter.js` |
| Lock Guard | session variables, attempt counter | `executeWithLockGuard` | `src/adapters/mariadb-adapter.js`, `src/core/sql-statements.js` |
| CLI and gates | memory of one run | `up`, `sync`, `down`, `baseline`, `reset`, `status`; gates R0–R3, checksum, consistency, validation | `src/cli.js`, `src/core/validation-gate.js` |
| Sanity checker | run result | pre-check, up, post-check, auto-rollback, all under timeouts | `src/core/sanity-checker.js` |
| Repeatable runner | checksum table, accounts, generated passwords, credential events | `runMariaDB`, `runMongoDB` | `src/core/repeatable-runner.js` |
| DCL verification, plan, scaffold | captures of two runs | `dcl:verify`, `dcl:plan` | `src/core/dcl-*.js` |
| Validation rules | verdict per file, approvals, policies | `validate`, `applyApproval`, `applyRulePolicy` | `src/core/base-adapter.js`, adapters |
| Notifications | directory of saved emails | save, prune | `src/core/reporter.js` |
| Multi-instance commands | one adapter per instance | `up-all`, `dcl-all`, `test-instances` | `src/cli.js` |
| Schema comparison, up-down-up | two snapshots | diff, `runUpDownUpTest` | `src/core/schema-diff.js`, `src/core/base-adapter.js` |

**Interaction.** A command makes an adapter (`getAdapter`), connects, asks the
adapter for `status()`, runs the gates on that answer, and then calls `up()`,
`down()` or `baseline()` — which ask for `status()` *again*. All of them share
the changelog (through SQL) and the migration directory (through `readdir` and
`readFile`, at every call). `up()` and `down()` hand the SQL of a section to Lock
Guard. Nothing keeps two runs apart but the primary key of the changelog and, in
Kubernetes, a preflight script that refuses an overlapping Job
(`k8s/preflight-check.sh`, `k8s/README.md:61`).

**Hard behaviours, and what must hold.**

* DDL commits statement by statement, so a failure or a crash leaves half a
  section in effect. It must not be recorded, and must not go unnoticed.
* The changelog row and the section it stands for are written separately (row
  last in `up`, row first in `down`). A row must never claim more than what ran.
* Gates judge an earlier read than the one `up()` uses.
* Files change while a run is under way, or between a migration and its rollback.
* Statements are retried after lock wait timeouts, under limits that are session
  state and outlive the file that set them.
* Operators issue any sequence of up, down, baseline, reset and override flags.

* Passwords that a run generates exist only in its memory until an email is
  written, whatever fails before.
* Validation judges text it does not execute, as sets of names, for instances
  that are not equally far; its verdict is only as good as that abstraction.
* Commands for many instances must not let one failure hide behind another.

`PROJECT.json` lists each of these hazards at its line ("hazards"), with the
properties that cover it, or why none does.

## 2. Modules

| Module | What it is |
|---|---|
| `MariaMigrate` | the MariaDB commands of several CLI runs on one database |
| `LockGuard` | `executeWithLockGuard()` with retries, batches and time limits |
| `StatementOrder` | abstract: the statements of the sections take effect once, in order |
| `MongoMigrate` | the MongoDB commands of several CLI runs on one database |
| `ExecuteThenRecord` | abstract: what the MongoDB changelog promises |
| `SanityRun` | `up --sanity-check` on either database |
| `DclRun` | `dcl`, `dcl-all` and `dcl:verify`: accounts, passwords, emails |
| `Notifications` | the directory of emails and its cleanup; part of `DclRun` |
| `Schema` | what a MariaDB server does with DDL (external) |
| `Validation` | the validation of MariaDB files, and the hint of a refusal |
| `InstanceRuns` | `up-all`, `sync`, `validate`, `validate-all`, `test`, `test-instances`, `test-all` over `Schema` and `Validation` |
| `MC…` | constants of each of these for TLC |
| `MariaMigrate_proofs`, `LockGuard_proofs`, `StatementOrder_proofs`, `MongoMigrate_proofs`, `SanityRun_proofs`, `DclRun_proofs`, `InstanceRuns_proofs` | theorems |
| `OrderLemmas` | what they need to know of sorted listings, sums and selections |

How they fit together. `MariaMigrate` executes a section one statement at a time
and lets any statement fail; that this is all that can happen is what `LockGuard`
establishes by implementing `StatementOrder`. `MongoMigrate` implements
`ExecuteThenRecord`. `SanityRun` takes one batch through the checker and leaves
selection and gates to those two. `MariaMigrate` takes the verdict of validation
as a property of a content; `Validation` computes it, and `InstanceRuns` compares
it with what the server of `Schema` then does. `DclRun` extends `Notifications`.

### MariaMigrate

One CLI invocation is a run `r`; `pc[r]` says where it is, `mem[r]` is its
memory (the rows `status()` selected, the files left to process, the content it
read), `applied[r]` what it reports. `changelog` is the table, `disk` the
directory. Every await that reaches the database or the files is a step:

| Code | Actions |
|---|---|
| `connect()`, changelog table, first query | `Start`, `QueryFails` (R0) |
| `status()`: the SELECT, then the loop over files | `ReadRows`, then the second half as part of `PreflightScan`, `UpScan`, `DownScan`, `BaselineScan`, `StatusScan`; it writes too: NULL checksums are adopted (`Adopt`), possibly only some before an error (`StatusFails`) |
| consistency and checksum gates (R1) | `PreflightScan`, `RepairChecksum` (with `--allow-checksum-drift`) |
| validation gate | `Validate` |
| runtime gates R2, R3; `down`'s question | `RuntimeGates` |
| `up()` | `UpScan`, `UpNext`, `UpStatement`, `UpStatementFails`, `RecordUp`, `RecordFails`, `Finish` |
| `down()` | `DownScan` (`rollbackPlan`), `DownNext`, `DeleteRow`, `DownStatement`, `DownStatementFails`, `RestoreRow` |
| `baseline()`, `resetChangelog()` | `BaselineScan`, `Mark`, `Reset` |
| a killed process; a developer | `Crash`, `Edit` |

History variables (`ran`, `via`, `torn`, `waived`, `moved`, and the field
`checked`) record what the properties speak of; no guard reads them.

Abstractions. A file is its place in the sorted listing; its content is one of a
few kinds, of which only the number of Up and Down statements, the Up marker
and the verdict of validation are known. SHA-256 is injective. `status()` is two
steps, its SELECT and the rest, so rows can change in between but files are seen
at one moment per call. The configuration is valid and the same for all runs.
`--dry-run` is `status`: it writes nothing. A statement either takes effect or
fails; a connection lost after the effect shows as the effect followed by a crash.

### LockGuard

The sections of one `up()` or `down()` one after the other over one connection.
`section`, `next` and `attempt` are the loop counters, `session` is the
session's `max_statement_time`, `previous` the value to put back, `error` an
exception on its way through the `finally` block. The server answers each
statement as it likes: success (`StatementRuns`), errno 1205
(`LockWaitTimesOut`), or anything else (`StatementFails`), which includes a
connection lost after the statement took effect. Whether `splitSqlStatements()`
is sure of its split is free per section; if it is not, or the guard is off, the
section goes out as one batch. `Crash` ends the process anywhere.

`took` is the log of effects on the server. The refinement mapping is
`log <- took`; `outcome` is shared. Retries, limits and section ends are
stuttering steps, an answered statement is `Execute`, a lost answer
`ExecuteAndStop`, and the last section's end `Complete`.

### MongoMigrate

The changelog is a sequence of documents (`docs`), without a unique index, in the
order of their `appliedAt`. The order of writes is the opposite of MariaDB's
`down`: execute, then write, both ways. A file is read twice, as text for the
checksum (`ReadText`) and as a module (`Import`).

| Code | Actions |
|---|---|
| `connect()` with its check that the database exists (R0) | `Start` |
| `status()`: readdir, find, loop over files | `ReadFiles`, `ReadDocs`, then part of `Preflight`, `UpScan`, `Plan`, `BaselineScan`; `StatusFails`, `ScanFails` |
| gates; runtime gates | `Preflight`, `RepairChecksum`, `Gates` |
| `up()`, `_applyOne()` | `UpScan`, `ReadText`, `Import`, `UpCompletes`, `FunctionThrows`, `Insert`, `WriteFails`, `Finish` |
| `down()`, `_rollbackOne()` | `Plan`, `ReadText`, `Import`, `DownCompletes`, `FunctionThrows`, `Delete`, `WriteFails` |
| `baseline()`, `resetChangelog()` | `BaselineScan`, `FindEntry`, `Skip`, `Mark`, `Reset` |
| a killed process; a developer | `Crash`, `Edit` |

Abstractions: an `up()` or `down()` function completes or throws, possibly with
some effects (`torn`); a timeout of an operation is a throw. `--target` and
`--only` are those of `MariaMigrate`. For the refinement the documents become the
set of files that have one, and `owes` says which run has executed a file and not
yet written its entry.

### SanityRun

One batch of pending files. `kind` chooses the adapter, whose closures differ in
what they read again and in what a rollback without Down does. A check that lost
its race against the timer (`CheckTimesOut`) goes on: `late` counts the statements
it has yet to send and `busy` says that it occupies MariaDB's one connection, which
the rollback then has to wait for. A check only reads; Up and Down are one step.

### DclRun and Notifications

A run works through the instances of its `queue` (one, or all for `dcl-all`). Per
instance: runtime gates and removed files (`Gate`, `Forget`), the capture before
(`CaptureBefore`), `runner.run()` (`Begin`, `NextFile`, `Look`, `Execute`,
`FileDone`, `Record`, `FileFails`), the capture after and the events (`After`), and
the email (`Copy`, `Replace`, `ReadCopies`, `RemoveCopy`, `SaveFails`).
`dcl:verify` runs every file twice (`VerifyNext`, `VerifyCapture`).
`accounts` maps each account to the password in force: a generated one is
identified by the run, file and statement that made it, so it can be followed from
the statement into `mem[r].events` and an email (`fate`).
`Notifications` keeps the copies of a name in the order of their run ids, in which
a late writer may come anywhere, and prunes from a directory read earlier.

Abstractions: an account has a name and a password; grants, hosts, expiry and
`customData` are left out, and so are the summary email of `dcl-all` and the copy
at the fixed path. SHA-256 is injective.

### Schema, Validation, InstanceRuns

A statement is an operation on a table and, for keys and renames, another one.
`Schema` says what the server refuses and what a statement leaves. `Validation`
follows `validateContent()`, `tablesBeforeEachFile()`,
`validateCrossFileFKDependencies()`, `applyRulePolicy()`, `applyApproval()` and
`checkMigrationsToRun()`: findings with their code and severity, made from *sets*
of the names in a section, as the regular expressions collect them. One operation
stands for each kind of rule (`SET_GLOBAL` for the forbidden, `TRUNCATE_TABLE` and
`RENAME_TABLE` for the dangerous ones).

In `InstanceRuns` a project (files, config, what is applied where, command and
flags) is chosen at the start. `pc[i]` is the stage the command is in with
instance `i`; a file is one step of `UpFile`, `DownFile` or `SanityFile`, which
stops where the server refuses. `Stops` leads an error to where the code catches
it. `RunAgain` is an operator who follows the hint of a refused `up-all`. Files and
changelog belong to this run alone; races and crashes are `MariaMigrate`'s.

## 3. Runs

| Run | Instance | Checks |
|---|---|---|
| `maria_serial` | 3 runs one after the other, 2 files, 3 kinds of content, all six commands, `--target`, 1 edit | `TypeOK`, `RecordedWasRun`, `ContiguousApplied`, `TornAccountedFor`, `ExecutesOnKnownHistory`, `ValidatedBeforeRun`, `RollbackWasReviewed` |
| `maria_overlap` | 2 overlapping runs of up, sync, baseline, status, 1 edit at any moment | `ContiguousApplied`, `ReportedOnce` |
| `maria_ends` | 2 overlapping runs of up, down, baseline, reset, with `--only` | `RunEnds` (liveness) |
| `maria_drift` | 3 serial runs of up and down, 1 file, 1 edit | finds `NoSilentDrift` violated |
| `maria_unvalidated` | 2 overlapping runs of up and down | finds `ValidatedBeforeRun` violated |
| `lock_guard` | 4 statements in 3 sections (one holds only comments), 3 attempts, 2 limits | `TypeOK`, `AttemptsBounded`, `OwnLimit`, `LimitPutBack`, `ImplementsOrder`, `StoppedForGood`, `CallsEnd` |
| `mongo_runs` | 2 runs, any commands, serial with 2 edits or overlapping, 2 files, 2 contents, changelogs of earlier runs or of migrate-mongo | `TypeOK`, `EntriesMatchEffects`, `OneEntryPerFile`, `UpInOrder`, `RollsBackNewest`, `NoSilentDrift`, `ImplementsOrder`, `CreatesNoDatabase` |
| `sanity_run` | 2 files of 4 kinds, both adapters, with and without auto-rollback, 1 edit, checks that answer late or never | `TypeOK`, `AppliedWasChecked`, `StopsAtFailure`, `DownOnlyForCompleted`, `ReportIsTrue`, `RunEnds` (liveness) |
| `sanity_email` | the same | finds `RollbackFailedWasTried` violated |
| `dcl_runs` | 2 runs, a MariaDB and a MongoDB instance, 2 files in three layouts, 3 contents, 2 accounts, 1 fault; serial with 1 edit, or overlapping | `TypeOK`, `HandedOver`, `MailIsTrue`, `NewestKept`, `ExitZeroMeansApplied` |
| `dcl_lost` | the same, serial | finds `NotGeneratedIsTrue` violated |
| `instance_runs` | 11400 projects of 1 or 2 files over 2 tables, 1 or 2 instances, 1 fault | `SoundVerdict`, `NothingUnreviewedRuns`, `HintReleases`, `ExitZeroMeansApplied` |

**What the properties say.**

* `RecordedWasRun`: a row written by `up()` carries the checksum of a content
  that ran to its last statement and was not rolled back.
* `ContiguousApplied`: what `up()` recorded is preceded only by recorded files.
* `TornAccountedFor`: a half-executed section belongs to a run that is still in
  it, or that stopped there without reporting success.
* `ExecutesOnKnownHistory`: while `up` executes, all that `up()` ever recorded is
  on disk with a content that ran (gate R1).
* `ValidatedBeforeRun`: only validated content executes.
* `RollbackWasReviewed`: a Down section comes from content that ran, or the
  operator overrode the refusal.
* `ReportedOnce`: of overlapping runs, one reports a migration as applied.
* `ImplementsOrder`: retries and lost answers notwithstanding, statements take
  effect at most once, in order, all of them if success is told.
* `StoppedForGood`: a statement the server stopped or refused is not sent again.
* `OwnLimit`, `LimitPutBack`: a file's time limit applies to that file alone —
  unless putting it back failed, which the code ignores (`leaked`).

* `EntriesMatchEffects`, `OneEntryPerFile`, `UpInOrder`, `RollsBackNewest`,
  `NoSilentDrift` (MongoDB, runs that do not overlap): an entry stands for a file
  that ran as it was recorded, but for files cut off between execution and entry;
  one entry per file; `up` in order, `down` the last entry first.
* `ImplementsOrder` of `MongoMigrate`, overlapping or not: an entry comes or goes
  only after that run executed the file, by a baseline, or by a reset.
* `CreatesNoDatabase`: a missing database is not created by writing to it.
* `AppliedWasChecked`, `StopsAtFailure`, `DownOnlyForCompleted`, `ReportIsTrue`:
  the result of a run with sanity checks agrees with changelog and database.
* `HandedOver`: a generated password that is in force was mailed or is still in
  the memory of its run; each way to lose one is named in the property's comment.
* `MailIsTrue`: an email shows the passwords in force, and "unchanged" is true.
* `NewestKept`: concurrent cleanups leave the newest copies.
* `ExitZeroMeansApplied` (in `DclRun`, and in `InstanceRuns` for the commands on
  many instances): exit code 0 means that everything was done everywhere.
* `SoundVerdict`: what the gate lets through is not refused by the server over a
  table the check claims to have tracked.
* `NothingUnreviewedRuns`: no table is lost or emptied, and no forbidden statement
  executed, unless somebody decided so.
* `HintReleases`: a refusal's advice, followed, leads to a run that passes.

**Bounds and why they are enough.** Two files are the least with an order
between them; three kinds of content (two statements each way; an empty Up and
no Down; no Up marker) reach every branch on content, two statements being the
least that can be left half done. Three serial runs allow up, down, up and every
other change of mind; one edit suffices for each drift the gates look for. For
overlap two runs suffice to race for each shared row. In `lock_guard`, a middle
section without statements, a batch next to a split section and three attempts
reach every branch, and two different limits tell a leaked one from one's own.
`Serial = TRUE` is the deployment that `k8s/` arranges; `Serial = FALSE` is what
happens without it. Symmetry is over runs, and not used for liveness. Deadlock is
not checked: once every run has ended, nothing is left to happen.

Overlapping runs are checked for what the code can still guarantee then. `down`
and `reset` are left out of `maria_overlap`: both delete rows behind an `up()`
that has chosen its files, which breaks `ContiguousApplied`, and another run's
`down` between the last statement and the INSERT breaks `RecordedWasRun` too.
TLC finds both as soon as the commands are added; the preflight script that
refuses overlapping Jobs is there for this.
`ReportedOnce` is stated for runs that delete no row. Options in
`maria_overlap` are left out because `--only` is meant to break contiguity.

In `mongo_runs` the policy is part of the state: one run at a time, as the jobs in
`k8s/` arrange it, with two edits anywhere in them; or two that overlap, without
edits. Two contents are enough to tell an edit, two files for order; the second
edit takes a file back to what it was, which one edit cannot. In
`sanity_run` the four contents are the least with and without each of pre-check,
post-check, Down and Up; `CheckLen = 2` lets a late check send once more after an
answer. In `dcl_runs` the three contents create two accounts, rotate a password,
and drop and recreate one; the layouts put the file that drops before and after
the one that creates; `Keep = 1` makes every email a reason to prune; one
failing step per behaviour reaches every error path, crashes come on top.
`instance_runs` chooses from nine families of projects: all pairs of 13 files on
instances that are equally far or not, with `existingTables` told or not; each
kind of finding with every annotation, flag, config entry and setting that may
release it; and test projects with each expectation, Downs that rename or drop what is not
theirs, and a custom rule under the code of a structural error. Two tables are enough to have
one that is there and one that is not, and two files for what one does to the
next. One fault reaches every error path; a second would need an error path that
itself fails, of which the model has the failure email and the clean-up.

**Fairness.** `FairSpec` of `MariaMigrate` is weak fairness of each run's steps:
a Node process whose query or read returns or throws goes on; no operator is
obliged to start anything. `FairSpec` of `LockGuard` is weak fairness of the
guard's steps: a lock wait is bounded by the timeouts it sets, other queries are
answered or the driver reports the connection lost, and `setTimeout` fires.
Neither assumes that any statement ever succeeds. `FairSpec` of `SanityRun` is
weak fairness of the run's own steps, among which is the timer but not a check's
answer, and, on MariaDB only, of the answers to a check that lost its race: the
rollback queues behind them on the same connection. `RunEnds` thus says that a
check that never answers does not hold up a run. `MongoMigrate`, `DclRun` and
`InstanceRuns` have only safety properties and state no fairness.

## 4. What the runs found

* `maria_drift` (`NoSilentDrift`). When a Down section fails, `down()` puts the
  row back with `INSERT IGNORE ... (id)`, without checksum
  (`src/adapters/mariadb-adapter.js:1619`). `status()` takes a NULL checksum for
  a row older than checksums and adopts the file as it is. So: up, a failing
  down, an edit of the file, and the next `up` proceeds, where `README.md:24`
  says it refuses.
* `maria_unvalidated` (`ValidatedBeforeRun`). The validation gate looks at the
  pending files of the preflight `status()`, and `up()` selects again. A
  concurrent `down` makes a file pending in between; it executes unvalidated,
  where `src/core/validation-gate.js:4-6` says "exactly the migrations this run
  will execute". Run after run, one at a time, the property holds
  (`maria_serial`).

* `sanity_email` (`RollbackFailedWasTried`). `formatDDLFailureDetails()`
  (`src/cli.js:174`) takes every sanity result that is not rolled back for a failed
  rollback, also that of a failed pre-check, before which nothing ran: the email
  calls for manual intervention.
* `dcl_lost` (`NotGeneratedIsTrue`). A file that fails after its CREATE USER leaves
  an account with a generated password nobody has. The email of that run lists it
  as one whose credentials "were not auto-generated" (`src/core/reporter.js:384`).

Differences between text and code that were met while modelling, and that no run
is about:

* A rollback of a MariaDB file without Down executes nothing, leaves its row and
  reports `rolledBack: true` (`src/adapters/mariadb-adapter.js:1233-1242`;
  `docs/EXECUTION-FLOW.md:26,48`). `ReportIsTrue` is stated for files with Down.
* A file's row is written before its post-check, not after
  (`mariadb-adapter.js:1228`, `mongodb-adapter.js:503`; `docs/EXECUTION-FLOW.md:24-27`).
* `validation.rules: { X: 'error' }` makes a warning an error that no `--allow` or
  `@allow` releases, since the policy is applied after the releases;
  `docs/VALIDATION-RULES-REFERENCE.md:119-120` and the comment at
  `src/core/base-adapter.js:163-164` say it can be released, and the hint of the
  refusal suggests it. `HintReleases` excepts it.
* The approver is asked for only once an operation is released, so with
  `requireApprover` the first refusal's hint is not enough. Excepted as well.
* The checks see a section as sets: `DROP TABLE t; CREATE TABLE t` in one Up
  yields no finding, where `docs/VALIDATION-RULES-MARIADB.md:182-189` says that
  it is data loss; nor does a RENAME followed by a DROP. An empty Up section is
  taken for the whole file (`upSQL || content`), so the tables its Down creates
  count as known. A table that a file creates and drops stays known for the DROP
  checks and is gone for the checks on keys. `SoundVerdict` and
  `NothingUnreviewedRuns` are stated for files in which order does not matter.
* `validate` and `validate-all` do not put the codes of `--allow` in upper case;
  the gate of `up` does.
* `test-instances` and `test-all` go on to the Up-Down-Up test when validation
  failed. A fixture that expects a rollback ends `test-all`'s sanity run, so later
  files of its directory are not looked at. The roll-back in front of the sanity
  checks is not looked at either: if it stops half way, on an error or because the
  server refuses a Down, the checks find less or nothing to run, and exit code 0
  then says nothing (`RollBackUnnoticed`).
* When anything after `up()` throws in `sync` (the second snapshot, say), the
  email says "failed" with nothing applied although files were applied
  (`src/cli.js:1070-1082`).

* A MongoDB DCL file is listed from one reading and imported in another. Listed
  without the password placeholder and edited to one with it in between, it runs
  with the placeholder itself as the password, as no password was generated for the
  text that was listed. `MailIsTrue` excepts it; `dcl_runs` reaches it.
* What an email says of an account comes from what was there before the file and
  from the last event with a password, not from the server. A file that creates an
  account a second time with IF NOT EXISTS (which does nothing), and a run in which
  one file drops an account that another then creates with a fixed password, make
  the email show a password that is not in force. `HandedOver` is stated for files
  that create an account once (`CreatedOnce`), `MailIsTrue` also for files none of
  which drops an account that another fixes (`FixedStay`).

Attempting the proofs found statements that the runs had let pass because
their bounds hid the case; the models and the runs now include it:

* `NoSilentDrift` of `MongoMigrate` spoke of the file edited *now*; a file edited
  and taken back after its text was read has a checksum that agrees with a content
  that never ran. `mongo_runs` allowed one edit, which cannot do that. It allows two,
  `past` records the earlier contents, and the property says which files it means.
* `MailIsTrue` of `DclRun` did not hold for the placeholder above, which no layout of the files reached.
* `HintReleases`: a custom rule may have the code of a structural error that no
  `--allow` releases (`MISSING_DOWN`, say); nothing checks for that
  (`src/core/base-adapter.js:181-195`). `classifyCodes()`
  (`src/core/validation-gate.js:26-39`) goes by the code alone, so if both are
  found, the hint says that `--allow` is enough. `Ambiguous` excepts such rules.
* `ExitZeroMeansApplied`: the roll-back in front of the sanity checks was taken to
  stop only on a failure. A Down that the server refuses stops it as well; the
  history variable `kept` now tells, for either reason.
* The rules look at DROP in a Down and not at RENAME. A Down may rename away a
  table that its Up did not create; the Up-Down-Up test passes, although the table
  is gone: it counts files and does not compare schemas
  (`src/core/base-adapter.js:438-443`). `TakesOthers` excepts it, as it does a DROP
  that somebody let pass.
* A fixture with `@expect-sanity: rollback` but no checks is skipped, not judged
  (`src/cli.js:2510-2513`): `test-all` passes although nothing was rolled back.
  `ShownRolledBack` speaks of files with checks.

## 5. Proofs

All proofs are for every value of the constants that satisfies the named
assumptions of the modules, which TLC evaluates on its instances: any number of
runs, files, contents, statements, edits and faults. The invariant that is proved
is nearly always stronger than the property; each module names its parts.
Assumptions beyond those of the modules stand in the theorem (`ASSUME ... PROVE`).

**MariaMigrate_proofs**

* `TypeCorrect`: `TypeOK`, strengthened by `FileInHand` (a run that executes or
  records holds a file it has read): without it `changelog[cur[r]]` could not be
  typed. For any number of overlapping runs.
* `TornIsAccountedFor`: `TornAccountedFor`, also for any overlap. It rests on
  every exit out of an executing run being `failed` or `crashed` and on `cur`
  staying at that file.
* `RecordedRan`: `RecordedWasRun`, assuming `Serial` or that `"down"` is not
  among the commands. The property alone is not inductive: the INSERT of
  `RecordUp` needs that the content in memory ran (`RanInHand`), a `down` must
  find its own row gone while it executes (`GoneRow`), and no other run may be
  under way then (`Alone`, or `NoDownRun`). `RecordedInv` is their conjunction.
* `ExecutesOnKnownGround`, `OnlyValidatedExecutes`, `OnlyReviewedIsUndone`:
  `ExecutesOnKnownHistory`, `ValidatedBeforeRun` and `RollbackWasReviewed`, assuming
  `Serial`. All three are about a decision that a later step relies on, so the
  invariant `SerialInv` says what the decision still is worth: the rows read are
  those of the table (`SnapIsFresh`), past gate R1 every recorded row is known or
  waived (`HistoryIsKnown`), what `up()` selects afresh is what was validated
  (`ToDoIsValidated`), the rollback plan holds known or waived files
  (`PlanIsReviewed`), and the file in hand is the next of them (`HandIsNext`).
  Without `Serial` the second is false: `maria_unvalidated`.
* `ReportedByOne`: `ReportedOnce` for any overlap, assuming neither `down` nor
  `reset`: the row of a reported file stays (`ReportedIsRecorded`), and the primary
  key lets only one run write it.
* `PrefixIsContiguous`: `ContiguousApplied`, assuming that no run is given `--only`
  (which is meant to break it) and that rows are safe while a run selects and
  executes (`RowsAreSafe`: `Serial`, or neither `down` nor `reset`). What lies before
  a file to do is to do or recorded (`NoGapBelow`), above one to undo all is to undo
  (`NoGapAbove`), and what was seen recorded still is (`SeenIsRecorded`).

**MongoMigrate_proofs**

* `IInv` is `TypeOK`, what a run at work has in hand and owes (`Hands`), what it has
  read against what the developer replaced since (`Bodies`), and gate R0
  (`Connected`). It holds for any overlap and gives `TypeCorrect`,
  `NoDatabaseCreated` (an action property) and `ExecutesThenRecords`, the refinement
  `Spec => ImplementsOrder`, one case per action.
* Runs that do not overlap keep `ApartInv` in addition: `Alone`; no file twice
  (`Distinct`); `Watched`, that is, the listing and the documents a run has read are
  current but for files moved since, what `up` has left is exactly what has no entry,
  in order (`YetToRun`), what `down` has left is the end of the changelog
  (`YetToUndo`), and the effects of an execution are there until its write
  (`EffectsOf`); `Checksums` and `Matching` between entries and effects. From it:
  `NoFileHasTwoEntries`, `ChangelogMatchesEffects`, `ChecksumsAreOfWhatRan`,
  `FilesRunInOrder`, `NewestGoesFirst`.

**SanityRun_proofs**: `IInv` joins where the loop stands (`Progress`: files before the
one in hand are applied, later ones `Untouched`), that all readings of the file in
hand are of one content unless it is an edited MongoDB file (`Readings`), and how far
that file has come (`Stages`). From it: `TypeCorrect`, `AppliedFilesWereChecked`,
`FailureStopsBatch`, `DownFollowsUp`, `ReportsAreTrue`.

**DclRun_proofs**, for any number of overlapping runs unless said otherwise:

* `TypeCorrect`, from `Basic` (`TypeOK` and what a run has in hand, `Hands`).
* `NewestCopiesStay`: `NewestKept`. What was deleted, and what a cleanup has marked,
  has `Keep` newer copies (`VictimsOld`); copies are only added, so it keeps them.
* `ExitZeroIsApplied`: an action property. `ClaimsGood` says of every file of a
  run's listing that it was executed, is pending, or that the run is bound not to
  end with 0 (`Claims`), and that a checksum is of an executed content (`SumsAreGood`).
* `HandedOverHolds`: `HandedOver`, assuming `CreatedOnce`. A password in force whose
  fate is open is in the events of its run, or will be when the file in hand is done
  (`Told`, `WillTell`), and the run still gets to its email (`Reports`); `KeptAll` is
  the invariant. A statement that leaves the password must be `Harmless`.
* `MailHolds`: `MailIsTrue`, which is about runs that do not overlap, assuming
  `CreatedOnce` and `FixedStay`. `MailGood` follows a password from the statement to the
  email: only the run's own (`Rows`), of this instance (`Fresh`), not mailed before
  (`Unmailed`), none in the email of a failed command (`Apology`); what the file in
  hand has done so far explains what its events will say (`InFile`), what the
  events show is in force, dropped for good or lost (`Tells`), and `no_change` is said
  of no account that was set (`Honest`).

`CreatedOnce` and `FixedStay` are properties of the migration files, not of the
code, which does not enforce them; section 4 says what happens without them. The
contents of `MCDclRun` satisfy both.

**InstanceRuns_proofs**, for any project: any number of files, statements, tables,
instances and faults, any config, flags and annotations, whatever is applied where.
`ProjectAssumption` says only what shape a project has.

* `TypeCorrect`, with changelogs that are initial segments of the files. All
  invariants below contain `Core`: types, what the second attempt was given
  (`FlagsFit`), and which command is in which stage (`StagesFit`).
* `ReviewedRuns`: `NothingUnreviewedRuns`. What is pending past the gate passes
  (`Reviewed`), what was begun or lost was decided (`HistoryReviewed`); that a file
  that passes has a decision for each such finding goes through the releases, the
  policy and the approval.
* `VerdictsAreSound`: `SoundVerdict`. The check knows tables as sets of names
  (`KnownHolds`): the ones it counts on are in the schema before the next file to run,
  at the start whatever was applied (`KnownAtStart`), and after each file
  (`KnownStep`). `Behind` is this for the instance; `StuckOk` says what the server then
  cannot have refused.
* `HintsRelease`: `HintReleases`. A hint is what the first attempt was refused for
  (`HintFits`), and more codes take findings away and bring none (`FoundShrinks`,
  `KeysShrink`), so the codes named are enough (`HintIsGood`).
* `ExitZeroIsEarned`: `ExitZeroMeansApplied`. `Progress` is what is known in each stage
  as long as nothing is recorded as failed: complete files before and in the first up
  (`FirstUp`), what it reached (`Reached`), and when files are applied again, that
  they give the same tables (`Again`), because the last statement that touches a table
  decides whether it is there, whatever the schema was, if the server accepts them all
  (`TouchDecides`). `Untouched`: no table is lost that no file touches. `Result` is
  the property itself, for one instance that is done.

`After`, `Reach`, `Applied`, `KnownBefore` and `AvailableBefore` are recursive
functions. What they yield is proved without an induction theorem: two graphs of such a
function agree, and there is one, since there is no least number where either fails
(`AfterSteps`); properties that every step keeps follow in the same way, each from a
least counterexample (`NatMinimum`).

**LockGuard_proofs**

* The inductive invariant `IInv` joins where the loop stands (`Position`: what
  took effect is exactly 1 .. next-1), how exceptions travel (`Control`), how
  often the current statement was sent (`Counting`), and which limit will be put
  back (`Limiting`). Each action keeps it: one lemma per action.
* From it: `TypeCorrect`, `AttemptsAreBounded`, `LimitsAreKept`, `LimitsArePutBack`,
  and for steps `StoppedIsFinal`.
* `KeepsTheOrder`: `Spec => ImplementsOrder`, the refinement, one case per action.

**StatementOrder_proofs**: `AlwaysInOrder`, what the abstract specification
promises: the effects are the first statements of the script, each once.

**OrderLemmas**: a set of naturals has a least element (from the library's `WFMin`,
which takes no operator), and ordering a finite set by an injective key lists each
element once, by rising keys (by the pigeonhole theorem of the library).
`up()`, `down()`, `baseline()` and the cleanup of emails rest on them.

**Only model-checked.** Liveness, since TLAPS has no support for fairness and
ENABLED: `RunEnds` of `MariaMigrate` and of `SanityRun`, and `CallsEnd`. The four
runs that find a violation show a behaviour and are not about proofs. Every safety
property that a passing run checks, invariant or about steps, has its theorem.

## 6. Plan

The components with state are modelled, and their safety properties proved. What a
next version of this project could add, most useful first:

1. A crash between the steps of `InstanceRuns`, which has failures but no crash;
   `MariaMigrate` has the crashes but no schema.
2. The rules for MongoDB modules and DCL files in `Validation`, and with them the
   DCL halves of `validate-all` and `test-all`.
3. `dcl:verify-all`, and what `dcl:verify` should say when a capture fails
   (`src/core/dcl-idempotent-checker.js:111`), once that is decided.

## 7. Not modelled

* Scanning SQL and JavaScript text (`src/core/source-scan.js`, `sql-columns.js`,
  the regular expressions of the rules, the SQL splitter): character-level
  parsing whose outcome the models take as given. With it, rules of finer grain
  than `Validation` has (column types, ALGORITHM, charset, size of a table) and
  the rules for MongoDB modules and for DCL files.
* Blocked statements of `dcl --validate` are a property of a content (`Blocked`);
  errors of that validation that are not blocked statements are left out.
  `dcl:verify-all` and the DCL halves of `validate-all` and `test-all` call the
  verification that `DclRun` has, file by file.
* `create`, `init`, `dcl:plan`, scaffolding, the layout of reports and emails,
  advice that the runtime preflight prints, schema snapshots of MongoDB: no
  state that another step reads. `src/check-db.js`, the container entrypoint and
  the Kubernetes manifests: I/O around the CLI; the preflight script is the
  reason for `Serial` and for `policy = "Forbid"`.
* Effects that the server completes after the client has given up on a batch are
  not followed beyond the statements answered or lost.
* `up-all`, `sync` and the tests of `InstanceRuns` do not combine overlapping
  runs with schemas: the product of `MariaMigrate` and `Schema` is beyond TLC,
  and no gate looks at both.
