# A TLA+ development of ID'er

ID'er takes a DJ mix (a URL, an upload or a local file), cuts it into clips, asks recognition
services what is playing, fuses the answers into a tracklist and publishes the result as an
immutable bundle. A web process accepts requests; worker processes run them from a durable SQLite
queue. Recognition costs money, services rate-limit and fail, and any process may die anywhere:
the state that has to survive this, and the protocols over it, are what this directory models.

Paths below are relative to `src/src/`. Line numbers are in `PROJECT.json` (`map`).

## 1. The system

| part | state | operations | talks to |
|---|---|---|---|
| durable job queue, hosted worker (`idea_web/jobs/worker.py`) | tables `jobs`, `analysis_runs`, `run_subscribers`, `run_settlements`; a worker's own copy of its job and claim token | insert, claim, heartbeat, wait, fail, terminal, cancel/detach, reconcile, expire, intake commit, settle | SQLite, the service, breaker, bundles |
| money authority (`worker.py`, `id_detector/run_ledger.py`, `attempts.py`, `money.py`, `paid_clip.py`) | the run's USD reservation, append-only `provider_attempt_events`, the JSONL journal projected from them, settlement rows | admit a dispatch, record prepared / dispatched / resolved, fold, settle, transfer the payer, reproject | AudD, the queue's fence |
| shared Shazam breaker (`idea_web/breaker.py`) | breaker row, event ledger cursor | record an attempt, open, cool down, latch, re-enable | every worker process |
| local jobs (`idea_web/jobs/local.py`, `id_detector/webapp/jobs.py`) | supervisor lock, worker process, offers waiting for an answer | start, restart, submit, answer, cancel, shut down | the queue |
| job store and submissions (`id_detector/jobs.py`, `submission.py`, `scan.py`) | leased rows of one SQLite file, one writer task, submission states | acquire, submit, reconcile, poll, release | ACRCloud |
| service and pipeline (`id_detector/service.py`, `pipeline.py`, `orchestrate.py`) | nine phase checkpoints, artefacts on disk | run, checkpoint, resume, cancel | all engines |
| accounts (`idea_web/auth.py`) | users, sessions, single-use links, per-IP windows | sign in, out, set password, issue link, expire | web application |
| bundles (`id_detector/present/bundles.py`, `compat.py`, `refusion.py`) | bundle directories, the pointer to the latest one | publish, serve, refuse | queue, pages |
| retention, backup (`id_detector/retention.py`, `idea_web/backup.py`) | staged trees, manifests | plan, delete, recover; back up, verify, restore | work tree, database |
| migrations (`idea_web/database.py`) | schema version | up, down | all SQLite users |
| recognition and sweep (`id_detector/recognise.py`, `shazam.py`, `paid_clip.py`) | token bucket, per-clip outcome, cache | dispatch, retry, stop | engines, breaker |
| fusion (`id_detector/windows.py`, `fuse/`, `semantics.py`) | none (pure) | schedule windows, build episodes, resolve identities | pipeline |
| truth of the test sets (`id_detector/truth.py`, `truth_review.py`) | the truth of a set, up to three annotations of it, a recovery journal, two records of shown predictions | seed, first and second pass, resolve, review, reveal, recover | nothing while it runs |
| playlists, pages, hints, genre, calibration, command line | files and HTML | - | - |

What is hard here: two workers that both believe they own a run (a lease ran out while one slept); a
crash between two transactions that belong together; users that join and leave a shared analysis in
any order while it is being paid for; events of two processes that race into one ledger; a request that
waits for a mechanism that will never look at it. What makes each part correct:

* **queue**: one writer per run, one settlement per run that agrees with how it ended, exactly one
  payer, no lost, immortal or doubled run, every request ends;
* **money**: nothing is sent that the reservation does not cover, nothing that may have been billed is
  sent again by itself, what is reported spent is never below what may have been;
* **breaker**: no start while it is open, it opens on the failures of all processes, a re-enable
  forgives what came before it and nothing after it;
* **local jobs**: at most one worker process per database, a lost one is replaced, a cancel or an
  answer reaches the job it was meant for;
* **job store**: a submission whose answer was lost is reconciled before it is repeated;
* **checkpoints**: a phase is skipped only if its artefacts are there;
* **sweep**: a clip is never asked again that may have been answered, and what was asked fits the allowance;
* **truth**: its files agree whatever was interrupted, and what was not independent never counts as such;
* **accounts**: a used, expired or superseded link or session opens nothing;
* **bundles, retention, backup**: what is published is complete and never changes, an interrupted
  deletion or restore is finished or undone.

## 2. Plan

| module | abstraction | state |
|---|---|---|
| `JobQueue` | `FencedRuns` | checked; all its safety properties and the refinement proved, four of them where reads succeed (section 7) |
| `PaidRun` | `Purse` | checked; all its safety properties and the refinement proved; left: the hosted journal and its backfill, account caps |
| `Breaker`, `Accounts`, `LocalJobs`, `JobStore`, `Library`, `Retention` | - | checked (section 5), their safety properties proved |
| `Sweep`, `Additive`, `Truth`, `Backup` | - | checked (section 6), their safety properties proved |

What is left, in this order:

1. proofs: the action properties that are not checked yet, such as what may change a sealed bundle or an
   ended row, and the refinements of the abstractions below;
2. an abstract submission (at most once unless somebody acknowledges) that `JobStore` implements, and one
   breaker that sees every outcome at once, which `Breaker` implements up to the overshoot;
3. connector jobs, which share the store of `JobStore` and resume from a cursor;
4. backups over an interrupted restore, once the code decides what they should do.

Each module is one component; constants carry named assumptions where a proof needs them; no RECURSIVE
operator anywhere.

## 3. The queue: `JobQueue.tla`

**State.** `jobs` is a function per column (`state`, `run_id`, `attached`, `cancel_requested`,
`attempt`, `leased`, `claim_token`). A run is named by the job that started it (`status`, `fence` =
`analysis_runs.claim_token`, `payer`, `key`, `settlement`), a subscription by its job (`reservation`,
`detached`, `seq`). A worker remembers what `run_once` holds in local variables: where it is (`phase`),
`job`, `token`, the copy of the job it last read (`seenState`, `seenRun`) and the result it is about
to report.

**Actions.** One per transaction, because every method opens one `BEGIN IMMEDIATE`:
`Enqueue` `insert_job`; `RequestCancel` = `Detach` (`_detach`, `_transfer_payer`) or `FlagCancel`;
`CancelUnclaimed`; `Claim`/`ClaimNothing` (`_claim` with `_quarantine` and `_rotate_run`);
`ReconcileAttached`; `ExpireDeadLetters`; `Wait` as used by `BreakerWait`, `SourceBusy`,
`ProviderWait`; `Fail` as used by `RefusePaid`, `WorkerFails`, `ReadFails`; `CommitIntake` =
`ServeStored`, `RefuseQuota`, `AttachToRun` or `StartRun`; `BeginAnalysis`; `ReadJob`; `Settle`;
`CancelBeforeStart`; `FinishJob` (`terminal`); `GiveUp` (every write that finds its claim gone);
`Crash`; `LeaseLapses`. Between any two of them any other actor may act.

**Abstractions, and why they lose nothing the properties speak of.** A lease is a Boolean; renewal
keeps it, the clock passing it is an action that may always happen. A token is a value nobody refers to
any more (a fresh uuid). Jobs are numbered in creation order and their key is fixed. A stored bundle may
or may not be servable, an account may or may not have the minutes, a pipeline may do anything. Not in the
model: rows that cannot be parsed, rows from before migration 0005, `dismiss` (it rewrites only the progress
document), drain, the progress document itself. A run is driven by one job only, so the branch
of `_claim` that gives a claim back because another job drives the run cannot be reached and is left out.

**Abstract specification: `FencedRuns.tla`.** Without jobs, leases and tokens: a live run is in the
hands of at most one worker, only the holder settles or ends it, it ends once and with the outcome that is
settled; a run nobody holds may be abandoned. `JobQueue` implements it (`ImplementsFencedRuns`, checked and
proved) with the holder of a run being the worker that passes `require_run_fence`.

**Runs.** One worker per database is what the hosted supervisor starts; the fence does not rely on it,
and after a restart or a pause there are two, so the model has one or two.

| run | instance | shows |
|---|---|---|
| `queue_fencing` | 2 jobs of one key, 2 workers, 2 attempts, failing reads | `FenceExclusive`, `SettlementAgrees`, `NobodyCancelsForYou`, the proofs' `TypeOK` and `OwnershipInv`, refinement of `FencedRuns` |
| `queue_coalescing` | 3 jobs of one key, 1 worker that may die, 1 park | `RunHasDriver`, `EarliestPays`, `OneSettles`, `OneRunPerKey` |
| `queue_liveness` | 2 jobs, free or paid, 2 workers, 1 attempt, 1 park, failing reads, fairness | `EveryJobEnds` |
| `queue_stranded` | 2 jobs, fairness | violates `CancelledAttachmentEnds` (finding) |
| `queue_immortal` | 1 job, failing reads | violates `RunHasDriver` (finding) |

*Bounds.* Three jobs are what a payer transfer between others needs (payer, successor, latecomer); two
workers and two attempts are what a stale claim and its replacement need, before the row is exhausted. The token pool is as large as rows and workers refer to at one
time in these instances, so a claim is never blocked for want of a token. `MaxWaits` bounds
parks, which give the attempt back and would otherwise be endless: it says that a provider is down
finitely often. The runs use shared keys, the ones that coalesce; a private key (a user's own tenant
scope) only removes attachments, and `PrivateKeys` is empty to keep the instances small. The proofs of
section 7 hold for any. `CHECK_DEADLOCK FALSE` because all requests may be finished.

*Fairness.* `run_forever` polls: an idle worker keeps claiming and reconciling, one that holds a claim
keeps going (`WF(Proceed)`: the pipeline's own timeouts end it). A lease that nobody renews runs out, a
dead letter expires after a day. Users, crashes and pauses owe nothing.

*What `EveryJobEnds` leaves out.* Two rows are excepted by name. `Stranded` is the first finding below.
`Forsaken` takes a failed read with attempts left: `fail()` puts the job back to intake although its run
exists, a second intake is served or refused, the job no longer names its run, and whoever
attached to that run waits. It needs two attempts, so in `queue_liveness`, with one, it excuses nothing.

**Findings.**
`queue_stranded`: a cancel that lands while the job's intake is running is only a flag; the intake
commit does not read it and may attach the job. The row is then passed over by claims (attached) and
by reconciliation (cancel requested), and waits until it is cancelled a second time. Migration 0002
describes and repairs precisely this row for older databases.
`queue_immortal`: if the read after the intake commit fails on the last attempt, `fail()` works on the
copy of the job from before the commit, whose `run_id` is still None, so the run is not abandoned.

*Why `queue_coalescing` has no failing reads.* What that finding leaves behind is a live run nobody drives, and
`EarliestPays`, `OneSettles` and `OneRunPerKey` are about live runs and who drives them: none of them survives it. With
attempts left, `fail()` puts the job back to intake without its run; its second intake may be refused
by quota or served, and the run lives on with whoever attached to it. TLC shows it when the
cfg has `ReadFaults = TRUE`; for `OneRunPerKey` with two attempts and three jobs, the third of which finds the run
without its driver and starts one of its own. Two jobs are too few for that, so a run with two would show nothing
about failing reads.

## 4. The money of one run: `PaidRun.tla`

**State.** In SQLite: the job row (`jobState`, `owner` of the claim, `attempt`, `cancel_requested`), the
run's `reservation`, the rows of the dispatch authority (`dispatches`), the settlement (`row`, with
`located` for its `journal_path`), the checkpoint of a finished sweep (`concluded`). In files: the
attempt `journal` and whether its tail is `torn`, the raw answers (`cache`), the last settlement `line`
of the run, and whether the `media` can be reached. In memory: the `phase` of the pass, the admitter
(`remaining`, `spent`, `outstanding`), one `task` per clip with its `ordinal`, `retries` and the
provider's `reply`, the `halted` sweep, and the settlement `entry` about to be written. And the truth nobody
in the code can read: `charged`, what the provider bills.

**Actions.** A pass: `Claim`; `StartSweep` (the recovered fold, `Authorised` or `Reserve`, `Restore`) or
`SkipSweep` for a concluded one; per clip `Take` (stored answer, resume rule, skip), `Prepare`, `Admit`
(dispatch row, then journal line, in the code's order), `Refuse`, `Exhausted`, `Send`, `Resolve` with its
retry, `StoreAnswer`; `EndSweep`; `Settle`, `Project` (the line beside the media), `EndJob`. What stops it:
`Cancel`, `LeaseLapses` noticed as `LostClaim`, `StopSweep`, `NeverAsked`, `SourceBusy`, `MediaBusy`,
`StorageFault`, `ProjectionFails`, `Crash`. What ends a stopped job: `StopSettles`, `StopEnds`,
`DeadLetter`; and the sweep of settlements: `SweepSettles`, `SweepAttaches`, `SweepReprojects`.

**Abstractions.** An attempt is `<<clip, ordinal>>`, of which the code's id is a hash; outcomes are the four
classes the code tells apart, and that an outcome of the class "free" was not billed is an assumption about
the provider. A claim is who holds it, not its token (`JobQueue` has tokens). At most one pass runs at
a time: the media lock sees to it. A crash may cut the line being appended, and the torn tail
swallows the next one, as `parse_journal_lines` reads it. Between the journalled answer and the stored one a crash
may fall: that one answer is then lost to the run, but never asked for again. Not in the model: a price
or cap that changes between passes, `--refresh`, offers and confirmations, the restart of a degraded
run, adopted rows and lines of older versions, the sweep's memory of what it has done, SQLite errors, and
the hosted refusal.

**Abstract specification: `Purse.tla`.** A budget fixed once, before the first charge; a clip charged at most
once and within the budget; a report that covers what has been charged and never goes back.
`PaidRun` implements it (`ImplementsPurse`, checked in `paid_money` and proved), so no clip is charged
twice and none beyond the reservation; `NeverTwice` by itself is a theorem too, and checked with retries in
`paid_liveness`.

| run | instance | shows |
|---|---|---|
| `paid_money` | 2 clips, 2 tasks, 2 claims, failing journals and media | `AdmitterMatchesLedger`, `SettlementCoversCharges`, `NothingAdmittedAfterStop`, refinement of `Purse` |
| `paid_liveness` | 1 clip, 1 retry, contended media, every fault, fairness | `NeverTwice` with retries, `StoppedRunIsSettled`, `ProjectionCatchesUp` |
| `paid_unreported` | 2 clips, 1 task | violates `StoppedRunReportsAll` (finding) |
| `paid_contended` | 2 clips, 1 task, contended media | violates `SettlementCoversCharges` (finding) |

*Bounds.* Two clips and two tasks race for the admitter and one journal; two claims give a pass, its crash
or loss, and a resumed pass. `Unit = 5000` with a cap of two cents makes room for both clips; the reservation
is per plan and rounded up, so a resumed pass with a larger plan can meet its end. In `paid_liveness` the
unit is 1, so that rounding up leaves room for the retry that a single clip needs. Media contention is off in
`paid_money` because `paid_contended` shows that it breaks the property there.

*Fairness.* `WF(Progress)`: the worker's loop polls, its tasks run, the sweep of settlements is part of the
loop, and media that went away come back (a disk that never returns leaves its line unwritten by
design). Users, faults and crashes owe nothing. `CHECK_DEADLOCK FALSE` because a settled run has
nothing left to do.

**Findings.**
`paid_unreported`: a pass settles its run and the process dies before the job ends; the next pass is
charged and is lost; the stop sees a row and leaves it, and the sweep only compares row and line, so
the second pass's money is in neither.
`paid_contended`: on a resumed run, `media_dir` is known before the media lock is taken and the money is
folded after it. If another program holds the lock, the failure path settles without the recovered money.

## 5. Beside the queue and the money

Six modules, one per part, composed by `MCBeside.tla`. The parts meet in the code (a worker publishes a
bundle, retention collects what it left, a backup copies both), but through narrow doors that each
module models for itself: Retention knows that something is published, Backup that a pass writes its
files in order, Breaker that a request is answered or not. What one module abstracts another holds in full.
So they share no variable here, and a product of their states would show nothing new: in the run `beside` a
behaviour picks one part and the others rest. `TypeOK` is the conjunction over the part that runs.

**`Breaker.tla`** (`idea_web/breaker.py`, `id_detector/shazam.py`). *State*: the row, the resolved
and the dispatched events of the ledger, the configured generation, the clock, and for each requester the
time it took and what it saw. *Actions*: `View` judges outside a transaction (`refusal`), `JudgeAgain`
inside one with the older time, `Dispatch` appends its row, `Resolve` an outcome, `GiveUp`, `Configure`,
`Reenable`, `Tick`. *Shows*: `FleetKeepsBudget`, by how much a budget can be exceeded, and
`TripsAreCounted`: a trip is counted once per incident. Production dispatches the first sweep as `running_free`
(`pipeline.py:993`), which is counted and never refused; held requests are the end-of-sweep retries
(`recognise.py:774-779`). A judgement that spans midnight may set the row's day back, which the model does
too: no property speaks of the day.

**`Accounts.tla`** (`idea_web/auth.py`, `idea_web/hosted.py`). *State*: the version of the password, links and
sessions in the order of issue, the cookie of each browser, and each request with what it has read.
*Actions*: one per transaction: `Verify` and `StartSession` of a log-in, `Redeem`, `Authenticate`, `Rotate`,
`Page`, `TurnAway`, `Logout`; `IssueReset`, `SetPlan`, `Expire`; `Arrive` and `Lose` of an answer. *Shows*:
`ResetIsFinal` (nothing that was under way when a reset committed gives a session or leaves a link that
opens) and `CookieSurvives` (answers of parallel requests that cross a rotation do not sign the owner out).

**`LocalJobs.tla`** (`idea_web/jobs/local.py`). *State*: the queue's row of each job with its offer, the
supervisor, the workers with what they remember. *Actions*: `Submit`, `Cancel`, `Approve`, `Skip` of any
window; `TakeOver`, `StopOne`, `Spawn`, `StopWorker`, `Closed`, `Killed` of the one that holds the lock; a
worker's `Claim`, `Execute`, `Publish`, `PlanPaid`, `ToldToStop`, `Settle`, `HandsBack`, `Exits`; `Dies`,
`LeaseLapses`, `Orphaned`. *Shows*: `OneAnswer`, `NotResumed`.

**`JobStore.tla`** (`id_detector/jobs.py`, `scan.py`, `providers/`). *State*: the row and the budget of one
file scan, where its driver is, and the provider's own account of what it accepted and charged.
*Actions*: `Open` with start-up recovery, `Prepare`, `Lease`, `Reserve`, `Start`, `Upload`; the provider's
`Accept`, `Refuse`, `AcceptLate`; `Hear`, `Unheard`, `List` (reconcile), `Submitted`, `Poll`, `Write`,
`Conclude`; `Acknowledge`, `Extend`, `Reset`; `Crash`, `Leave`, `Age`. *Shows*: `BudgetCoversCharges` and
`NoBlindResubmission`: nothing is uploaded to AudD, which cannot be asked what it holds, while an earlier upload
has neither an answer in its row nor an acknowledgement; ACRCloud, which can, never accepts twice
without one. An error counts as an answer, and the next plain scan uploads again (section 8).

**`Library.tla`** (`id_detector/present/bundles.py`, `pipeline.py`, `compat.py`, `refusion.py`). *State*: the
mutable fuse tree, frozen runs, bundles, the pointer, the versions of the installed code, and every writer
with what it holds in memory. *Actions*: of a pass `Begin`, `Served`, `RefuseStored`, `Sweep`, `Fuse`,
`PaidAnswers` or `NoPaidAnswers`; of everybody who publishes `Choose`, `Freeze`, `SealRun`, `MakeBundle`,
`SealBundle`, `Compare`, `Point`; `Upkeep`, `Acquire`, `Upgrade`, `Stops`. *Shows*: `PointerOpens`,
`PointerGoesForward`, `FrozenIsItsRun`.

**`Retention.tla`** (`id_detector/retention.py`). *State*: the journal of the mix, what is there of it, what
the sidecars say of it, whether something serves it, the pass and the collector. *Actions*: a pass
`PassStarts`, `PassPublishes`, `PassSettles`, `PassDies`; the collector's `Plan`, `Rewrite`, `MoveToTrash`,
`Leaves`, after any of which it may be stopped; `NextDay`. *Shows*: `EvidenceStaysProven`,
`NothingOwnedIsCollected`.

*Bounds of `beside`.* Breaker: two requesters and a budget of one, the least that can overshoot; three moments over a
midnight; four requests and answers together, enough for three requests (one past the overshoot) or for
two incidents, the second of which latches; one re-enable. Accounts: two requests of one browser, which
is what crossing answers need, two sessions and one link; the account starts empty or in use. LocalJobs: one job
by hand and the one its approval creates, two workers that are started one after the other, two attempts, so
that a window may die over a job, leave an orphan and be replaced. JobStore: four openings are a submission lost
to a crash, its recovery, an acknowledgement, and another loss; two units tell a partial charge from a
full one. Library: three passes or revisions, of a Deep analysis that may resume and a free one, with the
upkeep and `acquire`, over one upgrade each of page and fusion. Retention: three journal lines and four
days, past every age of the policy (one or two days). The symmetry of the run permutes
the two names that the requesters, the requests and the workers share; they never run together.
`CHECK_DEADLOCK FALSE` because every part comes to rest at its bounds. No fairness: every property
here is about safety.

## 6. The evidence: `Sweep.tla`, `Additive.tla`, `Truth.tla` and `Backup.tla`

What a mix is heard to be, what the answers are measured against, and the snapshots of it all. Composed by `MCEvidence.tla` as in
section 5: they share no state, and a behaviour picks one.

**`Sweep.tla`** (`id_detector/recognise.py`, `shazam.py`, `jobs.py`, `run_ledger.py`). *State*: the store's row
of each clip and the allowance of requests; the run's own journal of attempts and its raw bodies, which
survive the store; what each task of the pool does; the limiter that pauses the pool. *Actions*:
`PlanSweep` (start-up recovery, stored and forgotten answers, resets, `NeverResend`); per task `TakeClip`,
`StartAsk`, `PrepareAttempt`, `AcquireToken`, `SendClip`, `HearAnswer` with its retries, `WriteBody`, `FinishClip`;
`NotSent`, `RefusedDispatch`; `Drained`, `AskAgain` (the second asks at the end), `CollectAnswers`,
`CheckpointSweep`; `InterruptPass`, `SweepCrashes`, `LoseStore`, `ReleaseClip` (`idea retry`); time by `PauseEnds` and
`Silence`. *Shows*: `NeverAskedAgain`, even if the store is lost or the owner releases a clip of unknown
outcome, and in its type invariant that the allowance is never exceeded and is what the rows reserve.

**`Additive.tla`** (`id_detector/additive.py`, the rules of `present/exports.py` on what is listed). *State*: the rows
of the free fusion, the rows of the combined one that go into the Deep result, and the free rows they stand
in for. *Actions*: `ConsiderRow`, one turn of the loop of `additive_merge`, which adds a row (`AddRow`), lets it
confirm the free rows of its work (`ConfirmRow`) or drops it (`KeepFree`); `Merged` is what follows the loop, which leaves out the
rows whose id a kept free row has. The two fusions are inputs: any rows, one candidate without a catalogue entry
among them, whose title may differ between the two. *Shows*: `NothingFreeIsLost`: after any number of replacements each
free row is in the result, or a row of its work at its place that is no less sure, keeps its hint and, if the free one was listed, is
listed under its name. One way of losing a row is excepted, because the code has it (`LostToItsId`, section 8).

**`Truth.tla`** (`id_detector/truth.py`, `truth_review.py`, `truth_paths.py`). *State*: the truth of one set, its
three annotations, the recovery journal, the sidecar and the corpus ledger that say predictions were
shown; who holds the corpus lock and what it does next; what each review window has read. *Actions*:
`Seed`, `FirstPass`, `FirstPassAtThePrompt`, `SecondPass`, `Resolve`; of a window `OpenReview`, `ReadDigest`, `Save`,
`Reveal`, `CloseReview`; of whoever holds the lock `WriteJournal`, `WriteFile`, `WriteRecord`, `ClearJournal`,
`UndoFile`, `UndoRecord`, `UndoClear`, `WriteSidecar`, `AppendLedger`, `ShowPredictions`; `Recover`; `StepFails` and
`ToolDies` between any two writes; `Tidy` and `StartOver` by hand. *Shows*: `ShownIsRecorded` (once anybody saw
IDea's answers the set is exposed for good) and `PairIsWhole` (the truth is what its newest annotation
justifies, whatever failed, died and was recovered).

**`Backup.tla`** (`idea_web/backup.py`). *State*: the version of two files of a mix, of the database and of its
log; the staging tree with its journal and the originals it keeps; what a restore remembers; the server; the
capture and the snapshot. *Actions*: `RestoreBegins`, `Stage`, `OpenJournal`, `Displace`, `PutInPlace`,
`Commit`, `Raises`, `RollBack`, `RestoreLeaves`, `RestoreDies`; `Undo` and `Discard` of whoever recovers;
`ServerOpens`, `ServerStarts`, `ServerStops`, `ServerDies`, `PassBegins`, `PassWrites`; `BackupBegins`,
`ViewMix`, `CopyOne`, `Seal`, `BackupDies`. An exception may come before a step or, `Records`, after it took effect and
before the restore remembers it; a rollback may be refused steps or be interrupted. *Shows*: `AllOrNothing`: without a
journal that says otherwise the tree is what the snapshot makes of it, or every file is what it was before, however
often restore and recovery die. The files of a restore that failed and is over which that excepts are kept in the
history variable `astray`: those of an exception after its step and of an interrupted rollback (section 8).
`SnapshotIsWhole`: what is sealed of a mix was there together at a moment when nobody wrote it. No lock keeps backups and
restores apart, so one may overlap the other; what such a backup copies is not followed, and nothing is claimed of it.

| run | instance | shows |
|---|---|---|
| `evidence` | all four, as below | `NeverAskedAgain`, `NothingFreeIsLost`, `ShownIsRecorded`, `PairIsWhole`, `AllOrNothing`, `SnapshotIsWhole` |
| `sweep_resumed` | `Sweep` alone | violates `NothingRefused` (finding) |

*Bounds.* Two clips and two tasks race for the allowance and for the one probe of a paused pool. An allowance of
two requests can run out; two passes and two requests in all are an ask that fails or is lost, and the
one that follows, in the same pass or the next. A throttle, a retry and a second ask each once. The first clip may
have an earlier answer of any age. Two free rows are one that may be replaced and one that keeps it back; two paid
rows are one after the other over the same free rows. They are all in one stretch of the mix, where they may be taken for
each other; rows elsewhere are left to the proof. The credits are the ways in which two rows share a
recording, a title, both or part of one, and the one without a catalogue entry under two titles. One review window beside any number of commands, three people (first,
second, and who decides), two tracklists that may agree or not; three passes begun are those three, the last
of which may fail, or fewer and one that failed and is repeated. One row: rows only matter to who listened to
them. One pass beside a backup that may try twice, and restores of any snapshot taken, without a bound on how often a
process dies; one exception after its step (`MaxLate`), which is enough to lose a file, and any number before
one. The tasks and the tracklists carry the same two
names, which the symmetry permutes, and never run together. `CHECK_DEADLOCK FALSE` because all come to
rest at their bounds; no fairness, because every property is about safety.

**Finding.**
`sweep_resumed`: a clip fails, its error is stored as its raw body, and the pass is lost. The next pass of
the run asks again, as the resume rule says it may; only the second asks at the end of a sweep may replace an
error, so the answer is refused with `FileExistsError`, the pass fails with it, and every later pass
finds the same error in the same place.

## 7. Proofs

Eight modules. Each invariant below is inductive: it holds at first, every step keeps it, and it implies
the property named. Nearly always one lemma per action (`...Keeps`) says that the action keeps it, with a
step for each conjunct the action can disturb, and the theorem puts them together. The constants are
arbitrary within the assumptions of the component's module; those are bounds that are natural numbers, names
that are distinct, and what is listed here.

### `JobQueueProofs.tla`

For all jobs, workers, tokens, keys and bounds, with the assumptions of `JobQueue.tla` (jobs and tokens are
positive numbers, jobs are finitely many, outcomes are complete or partial). *With failing reads*:

* `TypeCorrect`: `Spec => []TypeOK`. Not just typing: an attempt never exceeds `MaxAttempts`.
* `Ownership`: `Spec => []OwnershipInv`, the inductive invariant.
* `FenceIsExclusive`: `Spec => []FenceExclusive`. Follows from `TokensDistinct`.
* `SettlementsAgree`: `Spec => []SettlementAgrees`.
* `RunsAreFenced`: `Spec => ImplementsFencedRuns`, the refinement.
* `NobodyElseCancels`: `Spec => NobodyCancelsForYou`, from `CancelsAreKept`: `Spec => []CancelInv`.
* `OnlyPayersAreCharged`: `Spec => []SettledByPayer`. Of all who subscribed to one run at most one is ever charged:
  the payer of a run that has ended. What failing reads take from `OneSettles` is the other half, that
  somebody is.

*Where reads succeed* (`~ReadFaults`): `LiveRunsAreDriven` (`RunHasDriver`), `MoneyIsKept` (the invariant of
the money), `TheEarliestPays` (`EarliestPays`), `OnlyThePayerSettles` (`OneSettles`), `KeysCoalesce`
(`OneRunPerKey`).

*Ownership.* `SettlementAgrees` speaks of ended runs; `FinishJob` ends a run with
what the worker remembers. So the invariant must say that a worker about to finish, if its fence is good,
has settled what it remembers (`SettledBeforeEnd`); that the run it settled is the one it will end
(`SeenRunIsCurrent`); that nobody else settles in between (`TokensDistinct`, because the fence holds one
token); that an ended run is out of reach (`EndedUnfenced`); and that a job's run is its own unless
attached (`DriverOwnsRun`), so that a claim's fence and its job cannot belong to different runs.

*The refinement.* The holder of a run is the worker that passes its fence. `HoldersFit`: a fence is
passed only through the job that started the run. `StartRun` is `Begin`, a claim of a job that has a run is
`TakeOver`; everything else only takes tokens and fences away (`OnlyLoses`), so it makes nobody a
holder (`NobodyGains`) and is at most `Lose`. `Settle` and `CancelBeforeStart` are `SettleRun`, `FinishJob` is
`EndRun` because it ends what was settled (`SettledBeforeEnd`), and what quarantine, expiry or a failure
does to a run is `AbandonRun`. Each action has a lemma that names its abstract step (`...Fenced`) or that it
has none (`...Quiet`).

*Why reads must succeed for the rest.* A read that fails between an intake commit and the next phase makes
`run_once` fail the job on a copy from before the commit, and the run it has just started stays alive without a
driver. That is the finding `queue_immortal`, which violates `RunHasDriver`; nothing that rests on a live run
being driven can be had with it. Lost leases, crashes, stale claims and parks are all allowed.

*Driving.* `DrivenInv` adds that a live run is driven by the active job that started it, and both
carry one token (`Driven`); that a job in intake has no run, no subscription and nobody to mirror, so that
an intake never abandons one (`RunsComeLate`); and that a worker whose claim is good remembers what
is true of its row (`SeenIsFresh`), without which a late `Fail` could put back a job whose run goes on.

*Money.* `MoneyInv` adds that attachment order is total and only a subscriber has left
(`SubscriptionsFit`), that a live run has one payer, which holds its reservation and came before every other
that stayed, and that an ended one has one settled reservation, its payer's (`RunsArePaid`). The strict
order is what makes `_transfer_payer` name one successor, who then came before all others. For
`OneRunPerKey`, a run stops being joinable for good, and one that is joinable has its driver, so that an
intake of its key attaches to it and starts none (`JoinableIsAttachable`).

*Cancels.* `CancelInv` stands on the ownership alone, so it holds whatever reads fail. A worker reports a cancel
only if one was asked for (`CancelsAreAsked`); who attached, left or started a run has subscribed, and keeps
the run it named as long as it is active (`SubscribersStay`); a reservation settles only for its payer and only after the end
(`SettledByPayer`); a driver that was told to stop drives for nobody else (`StoppedAlone`); and who is attached and waiting
has not left, holds its reservation while the run lives and, if the run was cancelled, had asked for that (`AttachedStay`).
Most actions can only move jobs, end runs and close what was held for them: one lemma (`MildTells`) does
for all of these (`Mild`), and only a cancel request, a departure, an attachment and a start need their own.

### `PaidRunProofs.tla`

For all clips, prices, caps, concurrency, retries, attempts and faults, with the assumptions of
`PaidRun.tla` (clips are finitely many numbers, a unit costs something):

* `Charges`: `Spec => []ChargeInv`; `ChargedOnce`: `Spec => []NeverTwice`.
* `BooksAreKept`: `Spec => []PaidInv`; `PaidTypes` (`TypeOK`); `BooksAgree` (`AdmitterMatchesLedger`).
* `ChargesAreSettled`: `~MediaContended /\ Spec => SettlementCoversCharges`.
* `OnlyTheBlindUnderReport`: `Spec => UnderReportsAreBlind`, what is left of it when others hold the media.
* `StopsAreFinal`: `Spec => NothingAdmittedAfterStop`.
* `ARunIsAPurse`: `Spec => ImplementsPurse`, the refinement.

*Charges.* That no clip is charged twice depends on what a pass reads when it resumes.
Whatever was charged has its dispatch row, which is written before the request leaves, and no
crash removes it (`charged \subseteq dispatches`); no journal says it was free or refused, and it is the newest
attempt of its clip (`ChargesStand`). So the resume rule does not let it be sent (`MaySendIsSafe`), and
a task that is going to ask is past every attempt of its clip, none of them charged, and its own has
no outcome yet (`TasksAreAhead`); one that has asked retries only after an outcome the provider does
not bill. `Numbered` is there because the rule takes a maximum, which exists only below a bound. Torn
lines, lost claims and lapsed leases do no harm since the argument never uses that a line arrived.

*Books.* `PaidInv` adds: a held job is waiting and was claimed (`JobFits`); the admitter counts
the flights and is the ledger, and what a pass that ends will report is the ledger or, if the media were
contended, nothing (`BooksFit`); a task that has not asked is at an attempt nobody dispatched (`TasksFit`);
the ledger fits the reservation and the rest of it is what remains (`BudgetHolds`); the settlement row
is ahead of the line beside the media and of every copy of it (`RowLeads`). Here it matters that a line
arrives: an outcome that a torn tail swallowed would leave the admitter with less than the fold. `TasksFit`
has the reason why none is: the intent, written before the request, has mended the tail by then.

*What is settled.* A resumed pass whose media are held by another program settles nothing although earlier
passes were charged; `paid_contended` shows it, so `ChargesAreSettled` supposes that nobody else
holds them. Without that supposition the damage is bounded (`UnderReportsAreBlind`): a settlement below the charges is
written only by a pass that failed before it looked at the run's money (`NeverLooked`, the exception in `BooksFit`), reports
zero and lowers no earlier report. Every other pass, the worker that stops a job and both sweeps cover what was charged
(`StepCovers`). The refinement needs no more than that: a settlement below the charges reports nothing new, and `Purse` asks
of a report that grows that it cover the charges and of every other that it not go back.

### `ProvidersProofs.tla`: `Breaker` and `JobStore`

* `RowsTellWhatWasSent` (`StoreInv`), `BudgetsCover` (`BudgetCoversCharges`), `NothingIsResubmittedBlindly`
  (`NoBlindResubmission`); a scan costs something (`StoreBounded`).
* `EveryPlaceIsCounted` (`BreakerInv`), `FleetIsBounded` (`FleetKeepsBudget`), `OneIncidentTripsOnce`
  (`TripsAreCounted`); the limits are positive (`BreakerBounded`, which `BreakerConfig.__post_init__`, `shazam_breaker.py:38`, checks)
  and requesters are finitely many.

*The store.* The budget covers the charges because what the provider charged *and may yet charge* (`Owed`: the
late and the flying submissions too) is spent or reserved, and is spent wherever the row no longer holds a
reservation (`ChargesAreCovered`). That needs where the driver is for each state of the row
(`StepsAreRows`), that a reservation is whole while somebody rests on it (`ReservationsAreKept`), and, for
resubmission, that an upload with no answer leaves the row where only an acknowledgement takes it up
(`UploadsAreKnown`).

*The breaker.* A requester that judged and has not yet dispatched may overshoot, one each. So the
invariant counts places: today's held requests and the requesters that are loose (admitted, or judging by
an earlier day) together stay below budget plus requesters (`DaysAreKept`); a judgement against a full
ledger makes nobody loose. That moments never lie ahead of the clock
(`MomentsArePast`) keeps a judgement from midnight's other side out of the count.

### `PeopleProofs.tla`: `Accounts` and `LocalJobs`

`AnswersAreKnown` (`AccountsInv`), `AccountTypes`, `ResetsAreFinal` (`ResetIsFinal`), `CookiesSurvive`
(`CookieSurvives`). An exchanged session is dead and says so (`HeirsReplace`), and what a request was
told is still true when its answer arrives: one that clears the cookie came with a dead session nobody
took over, one that sets it has a session (`RequestsKnow`). It is *because* sessions never come back to life that what was read
then is good enough now.

`OffersAndSweeps` (`LocalInv`), `OffersAreAnsweredOnce` (`OneAnswer`), `StoppedIsNotResumed` (`NotResumed`). An
offer is answered only at the end of its job (`AnsweredAtTheEnd`), so no later claim or restart can
reopen it; what a window found in flight is asked to stop or is still on its list (`IsStopped`).

### `DiskProofs.tla`: `Retention` and `Library`

* `WhatGoesIsDue` (`RetentionInv`), `SidecarsTellThePruned` (`EvidenceStaysProven`), `OnlyTheFreeGoes`
  (`NothingOwnedIsCollected`). What was due when it was planned is due until it is moved (`TargetsAreDue`), since the
  collector holds the mix (`OneHoldsTheMix`), and its sidecars are marked before the first move
  (`MovedAreMarked`).
* `PublishersFit` (`LibraryInv`), `PointersOpen` (`PointerOpens`), `RunsAreTheirOwn` (`FrozenIsItsRun`),
  `PointersGoForward` (`PointerGoesForward`). Who holds the media lock is the only one that touches `fuse/`
  (`OneHoldsTheLock`); bundles, frozen runs and what a writer has in memory name runs and results that are there
  and are its own (`BundlesFit`, `FrozenFit`, `WritersFit`); two that seal do not seal the same (`SealsApart`), which
  is why `acquire`, without the lock, cannot spoil another's bundle. For the last, starts are numbered as
  they are told (`StartsAreTold`).

### `EvidenceProofs.tla`: `Sweep` and `Additive`

* `PaidOnlyAdds` (`NothingFreeIsLost`): every row taken out has a row meant for the result that has all of it, and a free
  row of that row's work and id was taken out with it (`MergeInv`). So the filter by id leaves out only a row of another
  work under the same id, which a catalogue entry excludes (`OnlyTextIsLeftOut`). Any number of rows on either side.
* `JournalLeads` (`AskInv`), `OnlyOpenAreAsked` (`NeverAskedAgain`): clips are numbers (`ClipsAreNumbers`: the code's order
  of clips). Only the newest attempt can hold a clip back (`OlderAreOpen`), no two tasks are at one clip
  (`TasksApart`), how far a task has come says what the journal holds of its clip (`TasksKnow`), a row that failed
  or may be leased is of a clip nobody may have answered (`RowsKnow`), and between passes nothing is
  under way (`AtRest`). A lost store only removes rows, never journal lines, so the argument survives it.

* `SweepTypes` (`SweepTypeOK`): among the types, that the allowance is never overdrawn and that what it says is reserved
  is what the rows reserve. The sum is stated as a cardinality: `Reservations` has an element for each request a
  row holds, so a request that is taken adds one, a clip that is settled removes its own, and no fold has to be
  reasoned about (`AllowanceInv`, beside `AskInv`, which types the rows and says what a task's row is). The streak of throttles
  stays below its limit (`LimitsAreNumbers`).
* `MergeTypes` (`AdditiveTypeOK`), `EvidenceTypes` (`TypeOK` of the run).

### `RecoveryProofs.tla`: `Truth` and `Backup`

`EitherEndIsWhole` (`PairInv`), `TruthTypes`, `TruthIsItsPass` (`PairIsWhole`), `SeenIsSeen` (`ShownIsRecorded`). Names of people,
windows and texts are none of the module's own (`NamesAreTheirs`). Half-written pairs are reachable, so the invariant is about both *ends* of
a pending write: the old pair and the new one are whole, and the step of whoever holds the lock says which
file is at which end (`WriteIsAt`); a journal nobody holds still names both (`JournalIsWhole`), which is all that
recovery uses. `ShownIsRecorded` needs only that the corpus ledger has the set before anything is shown and
never forgets (`SeenIsInLedger`).

* `ViewsAreTaken` (`SnapshotInv`), `SnapshotsAreWhole` (`SnapshotIsWhole`): a view is a moment at which nobody wrote
  (`ViewsAreMoments`), because restore, server, pass and capture exclude one another as far as they do
  (`TheyExclude`).
* `RestoreIsOneStep` (`AllOrNothing`): the originals of what was displaced are kept until the journal goes
  (`OriginalsAreKept`), the journal says what is moved (`FollowsItsJournal`), a restore that is alive remembers
  its own moves but those that went astray (`RemembersItsMoves`), and it begins and leaves with nothing half done
  (`BeginsAndEnds`).

### `BesideProofs.tla`

`BesideTypes` and, in `EvidenceProofs`, `EvidenceTypes` are the `TypeOK` of the runs `beside` and `evidence`, which check
several components at once, one to a behaviour. They follow from the typing in each component's invariant; that a
behaviour of the run is one of each component holds by the way the two MC modules are built.

### What is only model-checked

* *Liveness*: `EveryJobEnds`, `StoppedRunIsSettled`, `ProjectionCatchesUp`. Their arguments rest on fairness and
  ENABLED, which the prover does not handle. Every invariant and every action property that a passing run
  checks is the statement of a theorem.
* *What does not hold*: `CancelledAttachmentEnds`, `RunHasDriver` with failing reads (and
  `EarliestPays`, `OneSettles`, `OneRunPerKey` with it, section 3), `StoppedRunReportsAll`,
  `SettlementCoversCharges` with contended media, `NothingRefused`: the findings.

## 8. Where the code and its documents part, without a run

Met while modelling; the modules do what the code does.

* An approval is lost when a worker dies over the approved job: `_restarted` (`idea_web/jobs/local.py:826`) builds
  the job anew without its approval, so the paid step makes an offer again (`LocalJobs.Restarted`).
* A submission that was acknowledged and sent again keeps `submitted_at`; start-up recovery looks for those
  without it (`id_detector/jobs.py:299`), so one that is lost a second time is never reclaimed
  (`JobStore.Recovered`), although `docs/PLAN.md` has start-up reclaim every old lease.
* `idea acquire` publishes without the media lock that a page refresh takes for the same call
  (`id_detector/cli.py:1102`, `present/refresh.py:53`), and may take the pointer back to a result older than one
  published while it looked links up. `PointerGoesForward` excepts results with its links by name.
* A backup takes neither the restore lock nor the supervisor's and looks for no recovery journal, so it may
  seal a tree that a restore is publishing, or that a dead one left half published. `Backup` lets the two overlap and
  claims nothing of such a copy.
* A restore excludes the window that supervises, not an analysis from the command line, a worker that
  outlives its window, or a second window.
* Jobs submitted in a window that did not get the supervisor lock run only while the other window lives.
* A run is frozen once (`present/bundles.py:408-427`). A Deep pass that publishes its free evidence and dies has
  frozen it; its next pass, under the same run id, publishes the paid answers over the frozen free ones, and
  whoever renders that result again renders the free rows, although `bundles.py:566` promises "the exact inputs
  that produced it". TLC shows it: `ExactInputs` as an INVARIANT of `LibraryOnly` (`MCBeside`).
* `backup.py:23-28` calls a restore "one recoverable boundary". It records a move after the call that makes
  it returns (`idea_web/backup.py:1638-1662`), and that call replaces the file before it flushes (341-344). If the flush
  fails the rollback does not know of the move, and the staging tree goes with the journal and with a displaced original.
  The mark of the commit may raise after it took effect in the same way, and a rollback that is interrupted (only an `OSError`
  is caught in it) leaves what it had not put back. TLC shows it: `RestoreIsWhole` as an INVARIANT of `BackupOnly`
  (`MCEvidence`). A process that dies in the same places leaves the journal, and loses nothing.
* A plain scan resets a row of `permanent_failure` (`scan.py:305-309`) and uploads again. What a row calls a permanent failure may be
  an error of a gateway whose upload the provider accepted, so the second upload may be charged too, and nobody acknowledged
  it. `JobStore.Reset` does what the code does; the budget covers both.
* What the finding of section 6 leaves behind is read as an answer: the journal says answered, the raw body is the
  earlier error and the row is of unknown outcome. If the owner releases it (`idea retry`), the next pass takes the
  error for the run's own answer and, since it holds no matches, records a no-match (`recognise.py:676-690`).
* `TokenBucket.settle` frees the probe of a paused pool whoever's request ended: a request sent before the pause
  may free it, and two probes are then under way. An answer ends the probing but no pause that
  runs, although the docstring of `recover` says it ends any.
* A first pass at the prompt keeps rows that somebody else verified and never asks whose they are
  (`truth.py:1981-2048`; the pass from a file refuses, 1953-1956), so the second pass may be given by a person who verified rows
  of the first, and the second pass re-attributes all of them to the first annotator.
* A review window reads the rows and then, apart, the digest a save is compared with (`truth_review.py`, `__init__`),
  both without the lock: what is saved between the two is overwritten by a window that never showed it (`Truth.ReadDigest`).

* A row that paid evidence adds may hide a free one, although `additive.py:371` says "a row the free evidence lists on
  its own is never removed, demoted or re-labelled". A short row listed only because its artist is solidly in the mix
  loses that as soon as another play of its track is listed, under any spelling (`present/exports.py:398-402`, read over
  the merged rows): one that the paid check found in a gap is enough. TLC shows it:
  `KeptStaysListed` as an INVARIANT of `MergeOnly` (`MCEvidence`). `additive_merge` compares listings only of a free row and
  the row that replaces it.
* A row without a catalogue node is named after its work, which may differ between the two fusions. It may then confirm one
  free row and have the episode id of another, which is kept; `additive.py:410-411` leaves it out by that id, and the row it
  confirmed is gone, although line 371 says that is never so. `NothingFreeIsLost` excepts just that. TLC shows it:
  `NoneIsLost` as an INVARIANT of `MergeOnly` (`MCEvidence`).

## 9. Not modelled

* *Database and migrations*: a migration is one transaction under the supervisor lock; the transactions
  are the atomicity of the models' actions.
* *Checkpoints of the service*: a resumed run proves every artefact by its hash before it skips the phase, so what
  is left is the correctness of a hash comparison. The phases that spend or publish are in `PaidRun` and `Library`.
* The sweep's rates and the length of its pauses, the order of its windows, later generations and the content they
  share; freezing and certification of a corpus, which this release refuses; connector jobs (`jobs.py` 877-1125), rate limits of the
  accounts, emptying the trash, results from before bundles, alias directories, corpus guards: operations of
  modelled components left out, as their entries in `PROJECT.json` say.
* *Windows, fusion, alignment, targeting, genre, enrichment, hints*: computations over floating-point times,
  scores and text similarity. Their correctness is a matter of measured thresholds; there is no state to
  interleave, and a bounded input in a model checker says little about them.
* *Pages, routing, command line, configuration*: rendering and argument handling over the components above.
* *Playlists*: every operation is one read-modify-write under one lock.
* *Calibration, benchmarks*: offline computations that one person runs at a time. These and the computations
  above are most of the repository's lines, which is why the map covers a small share of them.
