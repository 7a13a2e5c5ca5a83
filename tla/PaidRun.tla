------------------------------ MODULE PaidRun ------------------------------
(***************************************************************************)
(* The money of one paid run of a local job: its reservation, its requests *)
(* to the paid provider, the journal it resumes from and its settlement    *)
(* (worker.py DispatchAdmission and SettlementLedger; id_detector          *)
(* run_ledger.py, attempts.py, money.py, paid_clip.py, pipeline.py;        *)
(* idea_web/jobs/local.py).                                                *)
(*                                                                         *)
(* A claimed worker that gets the locks of the source and the media runs a *)
(* pass over the clips.  A pass may lose its claim, be cancelled or crash; *)
(* the next claim resumes the run.  SQLite rows are written by             *)
(* transactions, the two journals by appends that a crash may cut off, and *)
(* the provider charges when it likes.                                     *)
(*                                                                         *)
(* Abstractions.                                                           *)
(*  - A claim is who holds it (owner), not its token.                      *)
(*  - An attempt is <<clip, ordinal>>: its id is a hash of exactly these.  *)
(*  - Outcomes are the four classes the code tells apart: "answer" (match, *)
(*    no_match), "billed" (timeout_post, http_5xx, malformed), "free"      *)
(*    (connect_error, timeout_pre, http_429, http_503) and "refused"       *)
(*    (auth_error, quota_error).                                           *)
(*  - "complete" stands for complete, partial and degraded.                *)
(*  - Amounts are exact micro dollars; Unit is the price the reservation   *)
(*    recorded, which every event of the run carries.                      *)
(***************************************************************************)
EXTENDS FiniteSetsExt

CONSTANTS
    Clips,          \* the clips of the media, numbered in window order
    Unit,           \* micro dollars per request (audd_usd_e6_per_request)
    CapCents,       \* the effective cap of the recipe and the configuration
    Concurrency,    \* audd_concurrency: sweep workers
    MaxRetries,     \* max_retries of the recipe's policy for the paid engine
    MaxAttempts,    \* MAX_ATTEMPTS: claims of the job
    StorageFaults,  \* may a write to a journal fail?
    MediaFaults,    \* may the media be out of reach for a while?
    MediaContended  \* may a page refresh or the retention hold the media lock?

ASSUME ClipsAssumption == Clips \subseteq Nat /\ IsFiniteSet(Clips)
ASSUME AmountsAssumption == Unit \in Nat \ {0} /\ CapCents \in Nat
ASSUME LimitsAssumption == /\ Concurrency \in Nat \ {0}
                           /\ MaxRetries \in Nat
                           /\ MaxAttempts \in Nat
ASSUME FaultsAssumption == {StorageFaults, MediaFaults, MediaContended} \subseteq BOOLEAN

Outcomes == {"answer", "billed", "free", "refused"}
Events == {"prepared", "dispatched"} \cup Outcomes
Statuses == {"complete", "cancelled", "failed"}
InFlight == {"admitted", "sent"}
Steps == {"out", "queued", "limiting", "prepared", "answered", "done"} \cup InFlight
Phases == {"none", "sweeping", "ending", "projecting", "projected"}
NoReservation == -1
NoLine == [status |-> "none", spent |-> 0]
NoRow == [status |-> "none", spent |-> 0, located |-> FALSE]

VARIABLES
    \* SQLite: the job row, run_reservations, the "secondary" checkpoint,
    \* run_dispatches, run_settlements
    jobState, owner, attempt, cancel_requested, reservation, concluded, dispatches, row,
    \* files: the attempt journal and its torn tail, the raw answers, invocations.jsonl
    journal, torn, cache, line, media,
    \* the pass: the admitter, the tasks, what it will report
    phase, result, remaining, spent, outstanding, halted, task, ordinal, retries, reply, entry,
    \* the provider
    charged

jobVars == <<jobState, owner, attempt, cancel_requested>>
fileVars == <<journal, torn, cache>>
admitter == <<remaining, spent, outstanding>>
taskVars == <<task, ordinal, retries, reply>>
passVars == <<phase, result, admitter, halted, taskVars, entry>>
vars == <<jobVars, reservation, concluded, dispatches, row, fileVars, line, media, passVars,
          charged>>

TypeOK ==
    /\ jobState \in {"waiting"} \cup Statuses
    /\ owner \in {"none", "worker", "stopping", "stopped", "pass"}
    /\ attempt \in 0..MaxAttempts
    /\ cancel_requested \in BOOLEAN
    /\ reservation \in Nat \cup {NoReservation}
    /\ concluded \in BOOLEAN
    /\ dispatches \subseteq Clips \X Nat
    /\ row \in [status : {"none"} \cup Statuses, spent : Nat, located : BOOLEAN]
    /\ journal \subseteq Clips \X Nat \X Events
    /\ torn \in BOOLEAN
    /\ cache \subseteq Clips
    /\ line \in [status : {"none"} \cup Statuses, spent : Nat]
    /\ media \in {"here", "gone", "back"}
    /\ phase \in Phases
    /\ result \in Statuses
    /\ remaining \in Nat /\ spent \in Nat /\ outstanding \in Nat
    /\ halted \in BOOLEAN
    /\ task \in [Clips -> Steps]
    /\ ordinal \in [Clips -> Nat]
    /\ retries \in [Clips -> 0..MaxRetries]
    /\ reply \in [Clips -> Outcomes]
    /\ entry \in [status : {"none"} \cup Statuses, spent : Nat]
    /\ charged \subseteq Clips \X Nat

\* A process without a pass remembers nothing of the run.
NoPass ==
    /\ phase = "none" /\ result = "complete"
    /\ remaining = 0 /\ spent = 0 /\ outstanding = 0
    /\ halted = FALSE
    /\ task = [c \in Clips |-> "out"]
    /\ ordinal = [c \in Clips |-> 0]
    /\ retries = [c \in Clips |-> 0]
    /\ reply = [c \in Clips |-> "free"]
    /\ entry = NoLine

\* Earlier runs of the same media may have left answers in the cache.
Init ==
    /\ jobState = "waiting" /\ owner = "none" /\ attempt = 0 /\ cancel_requested = FALSE
    /\ reservation = NoReservation /\ concluded = FALSE /\ dispatches = {} /\ row = NoRow
    /\ journal = {} /\ torn = FALSE /\ cache \in SUBSET Clips
    /\ line = NoLine /\ media = "here"
    /\ NoPass
    /\ charged = {}

-----------------------------------------------------------------------------
(* The fold of the run's durable events, and the resume rule. *)

AttemptsOf(events) == {<<e[1], e[2]>> : e \in events}

\* Mutant of Known: the journal without the rows of the dispatch authority.
KnownFromJournal == AttemptsOf(journal)

\* Every attempt the journal or the dispatch authority knows.
Known == dispatches \cup AttemptsOf(journal)

Has(a, e) == <<a[1], a[2], e>> \in journal

\* dispatched: its row, its line, or a resolution (which implies one)
Dispatched(a) == a \in dispatches \/ \E e \in Events \ {"prepared"} : Has(a, e)

\* Mutant of Billed: an unresolved dispatch costs nothing.
BilledWhenResolved(a) == Has(a, "answer") \/ Has(a, "billed")

\* RunAttempt.billed: a billable resolution, or a dispatch nobody resolved
Billed(a) == Dispatched(a) /\ ~Has(a, "free") /\ ~Has(a, "refused")

SpentOn(attempts) == Unit * Cardinality({a \in attempts : Billed(a)})

\* RunLedger.spent_usd_e6
LedgerSpent == SpentOn(Known)

OrdinalsOf(c) == {a[2] : a \in {b \in Known : b[1] = c}}
Newest(c) == <<c, Max(OrdinalsOf(c))>>
NextOrdinal(c) == IF OrdinalsOf(c) = {} THEN 0 ELSE Max(OrdinalsOf(c)) + 1

\* RunLedger.resume: "fresh" without a stored answer, "retry" or "reissue"; what is
\* "reuse", "settled" or "ambiguous" is never sent again.
MaySend(c) ==
    IF OrdinalsOf(c) = {}
    THEN c \notin cache
    ELSE Has(Newest(c), "free") \/ ~Dispatched(Newest(c))

-----------------------------------------------------------------------------
(* Helpers of the actions. *)

Larger(a, b) == IF a >= b THEN a ELSE b

\* A line appended to the attempt journal; a torn tail swallows it.
Append(c, event) ==
    /\ journal' = IF torn THEN journal ELSE journal \cup {<<c, ordinal[c], event>>}
    /\ torn' = FALSE

\* merge_monotonic: the money of a settlement never goes down.
Merge(status, amount, old) == [status |-> status, spent |-> Larger(amount, old.spent)]
Row(e, located) == [status |-> e.status, spent |-> e.spent, located |-> located]
EntryOf(r) == [status |-> r.status, spent |-> r.spent]

\* append_invocation, which may be cut off by a crash.
ProjectOrCrash(e) == line' \in {line, Merge(e.status, e.spent, line)}

\* The process is done with the run, or dead.
Forget ==
    /\ phase' = "none" /\ result' = "complete"
    /\ remaining' = 0 /\ spent' = 0 /\ outstanding' = 0
    /\ halted' = FALSE
    /\ task' = [c \in Clips |-> "out"]
    /\ ordinal' = [c \in Clips |-> 0]
    /\ retries' = [c \in Clips |-> 0]
    /\ reply' = [c \in Clips |-> "free"]
    /\ entry' = NoLine

-----------------------------------------------------------------------------
(* The job row: claims, cancels, dead letters. *)

\* A claim; the row says whether the job is to be run or to be stopped.
Claim ==
    /\ jobState = "waiting" /\ owner = "none" /\ attempt < MaxAttempts
    /\ attempt' = attempt + 1
    /\ owner' = IF cancel_requested THEN "stopping" ELSE "worker"
    /\ UNCHANGED <<jobState, cancel_requested, reservation, concluded, dispatches, row,
                   fileVars, line, media, passVars, charged>>

\* The last attempt was lost.
DeadLetter ==
    /\ jobState = "waiting" /\ owner = "none" /\ attempt = MaxAttempts
    /\ jobState' = "failed"
    /\ UNCHANGED <<owner, attempt, cancel_requested, reservation, concluded, dispatches, row,
                   fileVars, line, media, passVars, charged>>

\* A job nobody ever claimed ends at once, any other is asked to stop.
Cancel ==
    /\ jobState = "waiting" /\ ~cancel_requested
    /\ IF attempt = 0
       THEN jobState' = "cancelled" /\ UNCHANGED cancel_requested
       ELSE cancel_requested' = TRUE /\ UNCHANGED jobState
    /\ UNCHANGED <<owner, attempt, reservation, concluded, dispatches, row, fileVars, line,
                   media, passVars, charged>>

\* The lease runs out; its holder does not notice.
LeaseLapses ==
    /\ owner # "none"
    /\ owner' = "none"
    /\ UNCHANGED <<jobState, attempt, cancel_requested, reservation, concluded, dispatches,
                   row, fileVars, line, media, passVars, charged>>

\* Another program holds the lock of the source: the job fails, its run is not touched.
SourceBusy ==
    /\ owner = "worker"
    /\ jobState' = "failed" /\ owner' = "none"
    /\ UNCHANGED <<attempt, cancel_requested, reservation, concluded, dispatches, row,
                   fileVars, line, media, passVars, charged>>

-----------------------------------------------------------------------------
(* A claimed job that is to be stopped settles what its earlier passes spent. *)

\* Mutant of Durable: without the media nothing was spent.
DurableOnFileOnly == IF media = "gone" THEN 0 ELSE LedgerSpent

\* Without the media, every dispatch row counts (_authority_money).
Durable == IF media = "gone" THEN Unit * Cardinality(dispatches) ELSE LedgerSpent

StopSettles ==
    /\ owner = "stopping"
    /\ owner' = "stopped"
    /\ row' = Row(Merge("cancelled", Durable, row), media # "gone")
    /\ IF media = "gone" THEN UNCHANGED line ELSE ProjectOrCrash(EntryOf(row'))
    /\ UNCHANGED <<jobState, attempt, cancel_requested, reservation, concluded, dispatches,
                   fileVars, media, passVars, charged>>

\* A settlement that fails is left to the sweep.
StopEnds ==
    /\ owner \in {"stopping", "stopped"}
    /\ jobState' = "cancelled" /\ owner' = "none"
    /\ UNCHANGED <<attempt, cancel_requested, reservation, concluded, dispatches, row,
                   fileVars, line, media, passVars, charged>>

-----------------------------------------------------------------------------
(* A pass begins: locks, recovery of the run's money, reservation, admitter. *)

\* 105% of the planned requests, rounded up.
Reserve(planned) == (planned * Unit * 105 + 99) \div 100

Cents(amount) == (amount + 9999) \div 10000

\* restore_admitter: what is left of the reservation after the ledger's spend.
Restore(reserved) == Larger(reserved - LedgerSpent, 0)

\* Mutant of Authorised: every pass makes the reservation its own plan calls for.
AuthorisedAnew(planned) == Reserve(planned)

\* record_reservation: an existing reservation wins over today's plan.
Authorised(planned) == IF reservation = NoReservation THEN Reserve(planned) ELSE reservation

BeginPass ==
    /\ owner = "worker" /\ phase = "none" /\ media # "gone"
    /\ owner' = "pass"
    /\ UNCHANGED <<jobState, attempt, cancel_requested, dispatches, row, fileVars, line, media,
                   outstanding, halted, ordinal, retries, reply, entry, charged>>

\* The paid step is already durable, or the free result leaves no gap to be checked.
SkipSweep ==
    /\ BeginPass
    /\ concluded' = TRUE
    /\ phase' = "ending" /\ result' = "complete" /\ spent' = LedgerSpent
    /\ UNCHANGED <<reservation, remaining, task>>

\* clips: the gaps this pass wants checked; those with a stored answer are not planned.
StartSweep(clips) ==
    LET authorised == Authorised(Cardinality(clips \ cache))
    IN  /\ BeginPass
        /\ ~concluded /\ clips # {}
        /\ spent' = LedgerSpent
        /\ IF reservation = NoReservation /\ Cents(authorised) > CapCents
           THEN /\ phase' = "ending" /\ result' = "failed"
                /\ UNCHANGED <<reservation, remaining, task>>
           ELSE /\ phase' = "sweeping"
                /\ reservation' = authorised
                /\ remaining' = Restore(authorised)
                /\ task' = [c \in Clips |-> IF c \in clips THEN "queued" ELSE "out"]
                /\ UNCHANGED result
        /\ UNCHANGED concluded

\* The media lock is taken: the pass ends before it has looked at the run's money.
MediaBusy ==
    /\ MediaContended
    /\ owner = "worker" /\ phase = "none" /\ media # "gone"
    /\ owner' = "pass" /\ phase' = "ending" /\ result' = "failed"
    /\ UNCHANGED <<jobState, attempt, cancel_requested, reservation, concluded, dispatches,
                   row, fileVars, line, media, admitter, halted, taskVars, entry, charged>>

-----------------------------------------------------------------------------
(* The sweep: tasks take clips in window order and ask for them one at a time. *)

sweepRest == <<jobVars, reservation, concluded, row, line, media, entry>>

Busy == {c \in Clips : task[c] \notin {"out", "queued", "done"}}

Take(c) ==
    /\ phase = "sweeping" /\ ~halted
    /\ task[c] = "queued" /\ \A d \in Clips : task[d] = "queued" => c <= d
    /\ Cardinality(Busy) < Concurrency
    /\ IF MaySend(c)
       THEN /\ task' = [task EXCEPT ![c] = "limiting"]
            /\ ordinal' = [ordinal EXCEPT ![c] = NextOrdinal(c)]
       ELSE task' = [task EXCEPT ![c] = "done"] /\ UNCHANGED ordinal
    /\ UNCHANGED <<sweepRest, dispatches, fileVars, phase, result, admitter, halted, retries,
                   reply, charged>>

\* After the rate limiter: the intent is journalled unless the sweep was stopped meanwhile.
Prepare(c) ==
    /\ phase = "sweeping" /\ task[c] = "limiting"
    /\ IF halted
       THEN task' = [task EXCEPT ![c] = "done"] /\ UNCHANGED <<journal, torn>>
       ELSE task' = [task EXCEPT ![c] = "prepared"] /\ Append(c, "prepared")
    /\ UNCHANGED <<sweepRest, dispatches, cache, phase, result, admitter, halted, ordinal,
                   retries, reply, charged>>

\* The adapter fails before it asks to be admitted.
NeverAsked(c) ==
    /\ phase = "sweeping" /\ task[c] = "prepared"
    /\ task' = [task EXCEPT ![c] = "done"]
    /\ UNCHANGED <<sweepRest, dispatches, fileVars, phase, result, admitter, halted, ordinal,
                   retries, reply, charged>>

\* Mutant of Admissible: a cancel is noticed only by the progress relay.
AdmissibleIfClaimed(a) == owner = "pass" /\ reservation # NoReservation /\ a \notin dispatches

\* The one dispatch-admission check, in the transaction that writes the dispatch row.
Admissible(a) ==
    /\ owner = "pass" /\ ~cancel_requested
    /\ reservation # NoReservation
    /\ a \notin dispatches

Admit(c) ==
    /\ phase = "sweeping" /\ task[c] = "prepared"
    /\ remaining >= Unit /\ Admissible(<<c, ordinal[c]>>)
    /\ dispatches' = dispatches \cup {<<c, ordinal[c]>>}
    /\ remaining' = remaining - Unit /\ outstanding' = outstanding + 1
    /\ task' = [task EXCEPT ![c] = "admitted"]
    /\ UNCHANGED <<sweepRest, fileVars, phase, result, spent, halted, ordinal, retries, reply,
                   charged>>

\* Refused: the unit is given back and the sweep stops.
Refuse(c) ==
    /\ phase = "sweeping" /\ task[c] = "prepared"
    /\ remaining >= Unit /\ ~Admissible(<<c, ordinal[c]>>)
    /\ task' = [task EXCEPT ![c] = "done"]
    /\ halted' = TRUE /\ result' = "cancelled"
    /\ UNCHANGED <<sweepRest, dispatches, fileVars, phase, admitter, ordinal, retries, reply,
                   charged>>

\* The reservation has no whole unit left: the sweep stops, the run ends partial.
Exhausted(c) ==
    /\ phase = "sweeping" /\ task[c] = "prepared"
    /\ remaining < Unit
    /\ task' = [task EXCEPT ![c] = "done"]
    /\ halted' = TRUE
    /\ UNCHANGED <<sweepRest, dispatches, fileVars, phase, result, admitter, ordinal, retries,
                   reply, charged>>

\* The dispatch is journalled and the request leaves.  An answer is charged, a request whose
\* outcome is unclear may be, a refused or unreceived one is not.
Send(c) ==
    /\ phase = "sweeping" /\ task[c] = "admitted"
    /\ Append(c, "dispatched")
    /\ task' = [task EXCEPT ![c] = "sent"]
    /\ \E o \in Outcomes :
        /\ reply' = [reply EXCEPT ![c] = o]
        /\ \/ o \in {"answer", "billed"} /\ charged' = charged \cup {<<c, ordinal[c]>>}
           \/ o # "answer" /\ UNCHANGED charged
    /\ UNCHANGED <<sweepRest, dispatches, cache, phase, result, admitter, halted, ordinal,
                   retries>>

\* Mutant of Retryable: an unclear outcome is retried like an unreceived one.
RetryableUnclear(o) == o \in {"free", "billed"}

Retryable(o) == o = "free"

\* Mutant of MayRetry: off by one.
MayRetryOnceMore(c, o) == Retryable(o) /\ retries[c] <= MaxRetries /\ ~halted

MayRetry(c, o) == Retryable(o) /\ retries[c] < MaxRetries /\ ~halted

\* The outcome is journalled, then settled with the admitter; a refusal stops the sweep, and
\* so may a billed one.
Resolve(c) ==
    LET o == reply[c]
        again == MayRetry(c, o)
    IN  /\ phase = "sweeping" /\ task[c] = "sent"
        /\ Append(c, o)
        /\ outstanding' = outstanding - 1
        /\ IF o \in {"answer", "billed"}
           THEN spent' = spent + Unit /\ UNCHANGED remaining
           ELSE remaining' = remaining + Unit /\ UNCHANGED spent
        /\ halted' \in {halted \/ o = "refused", halted \/ o \in {"refused", "billed"}}
        /\ task' = [task EXCEPT ![c] = IF o = "answer" THEN "answered"
                                       ELSE IF again THEN "limiting" ELSE "done"]
        /\ ordinal' = [ordinal EXCEPT ![c] = IF again THEN @ + 1 ELSE @]
        /\ retries' = [retries EXCEPT ![c] = IF again THEN @ + 1 ELSE @]
        /\ UNCHANGED <<sweepRest, dispatches, cache, phase, result, reply, charged>>

\* Only a match or a no-match reaches the cache.
StoreAnswer(c) ==
    /\ phase = "sweeping" /\ task[c] = "answered"
    /\ cache' = cache \cup {c}
    /\ task' = [task EXCEPT ![c] = "done"]
    /\ UNCHANGED <<sweepRest, dispatches, journal, torn, phase, result, admitter, halted,
                   ordinal, retries, reply, charged>>

\* A cancel reaches the sweep, or the worker is told to stop: nothing new is taken.
StopSweep ==
    /\ phase = "sweeping" /\ ~halted
    /\ halted' = TRUE /\ result' = "cancelled"
    /\ UNCHANGED <<sweepRest, dispatches, fileVars, phase, admitter, taskVars, charged>>

\* A journal cannot be written: the sweep is torn down, requests in flight stay unresolved.
StorageFault ==
    /\ StorageFaults
    /\ phase = "sweeping" /\ \E c \in Clips : task[c] \in {"limiting"} \cup InFlight
    /\ phase' = "ending" /\ result' = "failed"
    /\ torn' \in {torn, TRUE}
    /\ task' = [c \in Clips |-> "out"]
    /\ UNCHANGED <<sweepRest, dispatches, journal, cache, admitter, halted, ordinal, retries,
                   reply, charged>>

\* The paid step is checkpointed before the result is published.  Without one answer the paid
\* engine may count as unavailable, and the pass fails.
EndSweep ==
    /\ phase = "sweeping"
    /\ Busy = {} /\ (halted \/ \A c \in Clips : task[c] # "queued")
    /\ phase' = "ending"
    /\ task' = [c \in Clips |-> "out"]
    /\ \/ UNCHANGED result
       \/ /\ result = "complete" /\ \A c \in Clips : task[c] = "done" => c \notin cache
          /\ result' = "failed"
    /\ concluded' = (result' = "complete" /\ owner = "pass")
    /\ UNCHANGED <<jobVars, reservation, row, line, media, entry, dispatches, fileVars,
                   admitter, halted, ordinal, retries, reply, charged>>

-----------------------------------------------------------------------------
(* The pass settles, projects its settlement and ends its job. *)

\* UsdAdmitter.settle: a unit admitted and never resolved counts as spent.
Reported == spent + Unit * outstanding

\* The settlement row, under the claim check; a worker without its claim writes nothing.
Settle ==
    /\ phase = "ending" /\ owner = "pass"
    /\ row' = Row(Merge(result, Reported, row), TRUE)
    /\ entry' = EntryOf(row')
    /\ phase' = "projecting"
    /\ UNCHANGED <<jobVars, reservation, concluded, dispatches, fileVars, line, media, result,
                   admitter, halted, taskVars, charged>>

Project ==
    /\ phase = "projecting"
    /\ line' = Merge(entry.status, entry.spent, line)
    /\ phase' = "projected"
    /\ UNCHANGED <<jobVars, reservation, concluded, dispatches, row, fileVars, media, result,
                   admitter, halted, taskVars, entry, charged>>

\* A failed projection fails the run, which then settles as failed.
ProjectionFails ==
    /\ StorageFaults
    /\ phase = "projecting"
    /\ phase' = IF result = "complete" THEN "ending" ELSE "projected"
    /\ result' = "failed"
    /\ UNCHANGED <<jobVars, reservation, concluded, dispatches, row, fileVars, line, media,
                   admitter, halted, taskVars, entry, charged>>

EndJob ==
    /\ phase = "projected" /\ owner = "pass"
    /\ jobState' = result /\ owner' = "none"
    /\ Forget
    /\ UNCHANGED <<attempt, cancel_requested, reservation, concluded, dispatches, row,
                   fileVars, line, media, charged>>

\* Settling or ending without the claim is refused.
LostClaim ==
    /\ phase \in {"ending", "projected"} /\ owner # "pass"
    /\ Forget
    /\ UNCHANGED <<jobVars, reservation, concluded, dispatches, row, fileVars, line, media,
                   charged>>

\* The process dies, perhaps in the middle of a line.
Crash ==
    /\ phase # "none"
    /\ Forget
    /\ owner' = IF owner = "pass" THEN "none" ELSE owner
    /\ torn' \in {torn, torn \/ phase = "sweeping"}
    /\ UNCHANGED <<jobState, attempt, cancel_requested, reservation, concluded, dispatches,
                   row, journal, cache, line, media, charged>>

-----------------------------------------------------------------------------
(* The sweep of settlements that every worker runs over stopped jobs. *)

\* Mutant of Stopped: jobs that failed are forgotten.
StoppedWell == jobState \in {"complete", "cancelled"}

Stopped == jobState \in Statuses

\* A run without a row is settled from what is durable, if need be from SQLite alone.
SweepSettles ==
    /\ Stopped /\ row = NoRow
    /\ row' = Row(Merge(jobState, Durable, row), media # "gone")
    /\ IF media = "gone" THEN UNCHANGED line ELSE ProjectOrCrash(EntryOf(row'))
    /\ UNCHANGED <<jobVars, reservation, concluded, dispatches, fileVars, media, passVars,
                   charged>>

\* A row settled without the media gets its journal, its money raised to the full fold.
SweepAttaches ==
    /\ Stopped /\ row # NoRow /\ ~row.located /\ media # "gone"
    /\ row' = Row(Merge(row.status, LedgerSpent, row), TRUE)
    /\ ProjectOrCrash(EntryOf(row'))
    /\ UNCHANGED <<jobVars, reservation, concluded, dispatches, fileVars, media, passVars,
                   charged>>

\* Mutant of Astray: a line that is there is left alone.
AstrayIfMissing == line = NoLine

Astray == line # EntryOf(row)

\* The line is made what the row says; a line that reports more first raises the row.
SweepReprojects ==
    /\ Stopped /\ row # NoRow /\ row.located /\ Astray
    /\ row' = Row(Merge(row.status, line.spent, row), TRUE)
    /\ line' = EntryOf(row')
    /\ UNCHANGED <<jobVars, reservation, concluded, dispatches, fileVars, media, passVars,
                   charged>>

MediaGoes ==
    /\ MediaFaults
    /\ media = "here" /\ phase = "none"
    /\ media' = "gone"
    /\ UNCHANGED <<jobVars, reservation, concluded, dispatches, row, fileVars, line, passVars,
                   charged>>

MediaReturns ==
    /\ media = "gone"
    /\ media' = "back"
    /\ UNCHANGED <<jobVars, reservation, concluded, dispatches, row, fileVars, line, passVars,
                   charged>>

-----------------------------------------------------------------------------

\* What the processes do of themselves.
Progress ==
    \/ Claim \/ DeadLetter \/ StopSettles \/ StopEnds
    \/ SkipSweep \/ \E clips \in SUBSET Clips : StartSweep(clips)
    \/ \E c \in Clips : \/ Take(c) \/ Prepare(c) \/ Admit(c) \/ Refuse(c) \/ Exhausted(c)
                        \/ Send(c) \/ Resolve(c) \/ StoreAnswer(c)
    \/ EndSweep \/ Settle \/ Project \/ EndJob \/ LostClaim
    \/ SweepSettles \/ SweepAttaches \/ SweepReprojects \/ MediaReturns

\* What users, clocks, devices and other programs do to them.
Environment ==
    \/ Cancel \/ LeaseLapses \/ SourceBusy \/ MediaBusy \/ StopSweep
    \/ (\E c \in Clips : NeverAsked(c)) \/ StorageFault \/ ProjectionFails \/ Crash \/ MediaGoes

Next == Progress \/ Environment

Spec == Init /\ [][Next]_vars

FairSpec == Spec /\ WF_vars(Progress)
-----------------------------------------------------------------------------
(* Properties. *)

Truth == Unit * Cardinality(charged)

\* No clip is charged twice by one run, whatever crashed, lapsed or was retried in between:
\* the resume rule and the dispatch authority together never repeat a request that may have
\* been billed (run_ledger.resume, DispatchAdmission.admit_in, paid_clip._process).
NeverTwice == \A a, b \in charged : a[1] = b[1] => a = b

\* During a sweep the in-memory books and the durable ledger are the same account: what the
\* admitter has spent or handed out is what a crash at this moment would recover
\* (UsdAdmitter against fold_run_ledger).
AdmitterMatchesLedger == phase = "sweeping" => Reported = LedgerSpent

\* Whoever writes the settlement of the run (the pass, a stopped job, the sweep, with or
\* without the media), it reports at least what the provider has charged by then.
SettlementCoversCharges == [][row' # row => row'.spent >= Truth']_vars

\* Once the job was asked to stop or has ended, no further request is admitted, not even by a
\* pass that lost its claim and has not noticed.
NothingAdmittedAfterStop ==
    [][cancel_requested \/ jobState \in Statuses => dispatches' = dispatches]_vars

\* Once the sweep has nothing left to do for a stopped job, its settlement row reports at least
\* what the provider charged: "the row must never under-report" (SettlementLedger.reproject).
StoppedRunReportsAll == Stopped /\ row.located /\ ~Astray => row.spent >= Truth

\* Every stopped job's run is settled in the end, however it stopped.
StoppedRunIsSettled == jobState \in Statuses ~> row # NoRow

\* The line beside the media ends up saying what the row says, for every settled row with money.
ProjectionCatchesUp ==
    jobState \in Statuses /\ row # NoRow /\ row.spent > 0 ~> line = EntryOf(row)

\* The run is a purse: see Purse.tla.
Purse == INSTANCE Purse WITH budget <- reservation, reported <- row.spent
ImplementsPurse == Purse!Spec
=============================================================================
