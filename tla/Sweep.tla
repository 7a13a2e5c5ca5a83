------------------------------- MODULE Sweep -------------------------------
(***************************************************************************)
(* The free sweep of one run over one media (id_detector/recognise.py with *)
(* shazam.py, attempts.py, run_ledger.py and jobs.py): a pool of tasks     *)
(* that ask Shazam about every clip, the retries, the limiter that pauses  *)
(* the pool, the second ask of failed clips at the end, and the later pass *)
(* of the same run after a crash.                                          *)
(*                                                                         *)
(* The tasks share one event loop; a step is what lies between two awaits  *)
(* or two durable writes, because a crash may fall between those.          *)
(*                                                                         *)
(* Abstractions.                                                           *)
(*  - A clip is its position in the mix; a raw body is the answer, or the  *)
(*    outcome whose error it holds: two failures of one kind write the     *)
(*    same bytes.                                                          *)
(*  - Match and no match are one outcome, "answer".                        *)
(*  - A pause and a give-up period are flags that time sets; rates and     *)
(*    the length of a pause only delay.                                    *)
(*  - Planning and the reset of a second ask are single steps: a crash in  *)
(*    the middle leaves the rows as they are before a lease.               *)
(*  - Not here: a later generation that shares content, --refresh (never   *)
(*    set on a run that is resumed), an injected transport.                *)
(***************************************************************************)
EXTENDS Naturals, Sequences, FiniteSets, FiniteSetsExt

CONSTANTS
    Clips,         \* the clips of the mix, in order: a set of numbers
    Tasks,         \* the pool
    MaxRequests,   \* the allowance of one execution
    MaxRetries,    \* asks again of one clip after an error that is not a throttle
    MaxThrottled,  \* MAX_THROTTLE_RETRIES
    ThrottleStreak,
    RetryCap,      \* second asks at the end of a sweep
    UnreachableStreak,
    MaxPasses,     \* bound: passes of the run
    MaxAsked       \* bound: requests in all

ASSUME ClipsAreNumbers == Clips \subseteq Nat
ASSUME LimitsAreNumbers == MaxRequests \in Nat /\ ThrottleStreak \in Nat

VARIABLES
    jobRows,       \* the store's job of each clip
    allowance,     \* the budgets row
    attempts,      \* the run's journal: the outcomes of each clip's attempts, in order
    body,          \* the raw body in the run's own directory
    sweep,         \* where the sweep is
    leasable,      \* the clips this pass may ask about
    pool,          \* what each task does
    again,         \* failed clips the end of the sweep has yet to ask about
    unreached,     \* second asks in a row that could not reach Shazam
    limiter,
    passes, asked, refusedAnswer    \* history

passVars == <<sweep, leasable, again, unreached>>
sweepVars == <<jobRows, allowance, attempts, body, pool, limiter, passes, asked, refusedAnswer,
               passVars>>

\* What Shazam, or the way to it, may do with a request.
Replies == {"answer", "throttled", "lost", "malformed", "unreachable", "denied"}

\* Replies a second ask at the end may follow (END_OF_SWEEP_RETRY_OUTCOMES).
RetryOutcomes == {"throttled", "lost", "malformed", "unreachable"}

\* A failure before anything was sent: a clip that cannot be read, the kill switch, the spent
\* allowance, the pool that gave up.
Unsent == "unsent"

ActiveStates == {"leased", "submission_started", "submitted"}
Answered == {"succeeded"}
ClipRow == [state : {"none", "pending", "outcome_unknown", "permanent_failure"}
                       \cup ActiveStates \cup Answered,
        result : {"none", "own", "earlier", "expired", "negative"},
        reserved : Nat]
IdleTask == [step |-> "idle", clip |-> 0, outcome |-> "none", retries |-> 0, throttles |-> 0,
         second |-> FALSE]
Flowing == [paused |-> FALSE, probing |-> FALSE, probe |-> FALSE, streak |-> 0, silent |-> FALSE]
TaskSteps == {"idle", "leased", "asking", "gate", "counted", "sent", "answered", "failed", "stored"}

\* The requests the rows hold on the allowance, one by one.
Reservations == UNION {{c} \X (1..jobRows[c].reserved) : c \in Clips}

SweepTypeOK ==
    /\ jobRows \in [Clips -> ClipRow]
    /\ allowance \in [max : Nat, reserved : Nat, used : Nat]
    /\ allowance.reserved + allowance.used <= allowance.max
    /\ allowance.reserved = Cardinality(Reservations)
    /\ \A c \in Clips : \A n \in DOMAIN attempts[c] :
          attempts[c][n] \in {"prepared", "dispatched"} \cup Replies
    /\ body \in [Clips -> {"none", Unsent} \cup Replies]
    /\ sweep \in {"closed", "sweeping", "retrying", "collected", "over"}
    /\ leasable \subseteq Clips
    /\ \A t \in Tasks : pool[t].step \in TaskSteps /\ pool[t].clip \in Clips \cup {0}
    /\ limiter \in [paused : BOOLEAN, probing : BOOLEAN, probe : BOOLEAN,
                    streak : 0..ThrottleStreak, silent : BOOLEAN]
    /\ refusedAnswer \in BOOLEAN

\* The rows as an earlier run of the media may have left them.
SweepInit ==
    /\ jobRows \in [Clips -> {[state |-> "none", result |-> "none", reserved |-> 0]} \cup
                    [state : Answered, result : {"earlier", "expired", "negative"},
                     reserved : {0}]]
    /\ allowance = [max |-> MaxRequests, reserved |-> 0, used |-> 0]
    /\ attempts = [c \in Clips |-> <<>>]
    /\ body = [c \in Clips |-> "none"]
    /\ sweep = "closed" /\ leasable = {} /\ again = {} /\ unreached = 0
    /\ pool = [t \in Tasks |-> IdleTask]
    /\ limiter = Flowing
    /\ passes = 0 /\ asked = [c \in Clips |-> 0] /\ refusedAnswer = FALSE

----------------------------------------------------------------------------
(* What the run's own journal says. *)

NewestAttempt(c) == IF attempts[c] = <<>> THEN "none" ELSE attempts[c][Len(attempts[c])]

\* RunLedger.resume.
ResumeRule(c) ==
    CASE NewestAttempt(c) = "none" -> "fresh"
      [] NewestAttempt(c) = "answer" -> "reuse"
      [] NewestAttempt(c) \in {"lost", "malformed", "denied"} -> "settled"
      [] NewestAttempt(c) \in {"throttled", "unreachable"} -> "retry"
      [] NewestAttempt(c) = "dispatched" -> "ambiguous"
      [] NewestAttempt(c) = "prepared" -> "reissue"

\* Mutant of NeverResend: only an answered clip is held back.
NeverResendAnswered(c) == ResumeRule(c) = "reuse" /\ body[c] = "none"

\* _never_resend: asked and maybe answered, refused for good, or answered and the body is gone.
NeverResend(c) ==
    \/ ResumeRule(c) \in {"ambiguous", "settled"}
    \/ ResumeRule(c) = "reuse" /\ body[c] = "none"

----------------------------------------------------------------------------
(* The store's transactions, on one row. *)

\* recover_startup() and release_owner() agree on a clip, which has no remote reference: what was
\* asked may have been answered.
ReleasedRow(row) ==
    CASE row.state = "leased" -> [row EXCEPT !.state = "pending"]
      [] row.state \in {"submission_started", "submitted"} ->
            [row EXCEPT !.state = "outcome_unknown"]
      [] OTHER -> row

\* reset_for_refresh().
ResetRow(row) == [row EXCEPT !.state = "pending", !.result = "none"]

\* Mutant of SettleClip: the reservation of a settled clip stays.
SettleClipKept(c, state) ==
    /\ jobRows' = [jobRows EXCEPT ![c] = [state |-> state, result |-> "own", reserved |-> 0]]
    /\ allowance' = [allowance EXCEPT !.used = @ + jobRows[c].reserved]

\* finish(): what was reserved is now used.
SettleClip(c, state) ==
    /\ jobRows' = [jobRows EXCEPT ![c] = [state |-> state, result |-> "own", reserved |-> 0]]
    /\ allowance' = [allowance EXCEPT !.reserved = @ - jobRows[c].reserved,
                                      !.used = @ + jobRows[c].reserved]

----------------------------------------------------------------------------
(* A pass: planning. *)

\* A stored answer that will do.  Only a run's first pass, which finds no directory of its own,
\* refreshes the earlier no-matches.
Cached(row) ==
    /\ row.state \in Answered
    /\ row.result \in {"own", "earlier"} \/ (row.result = "negative" /\ passes > 0)

\* Rows that are asked again from the start.
Outdated(row) == row.state \in Answered \cup {"permanent_failure"} /\ ~Cached(row)

\* The run has the answer, the store does not know it.
Forgotten(c, row) == row.state = "pending" /\ ResumeRule(c) = "reuse" /\ body[c] # "none"

\* ensure_job.
Ensured(row) == IF row.state = "none" THEN [row EXCEPT !.state = "pending"] ELSE row

\* Begin: open the store, with or without leases old enough to release, and plan every clip.
PlanSweep ==
    /\ sweep = "closed"
    /\ passes < MaxPasses
    /\ \E old \in BOOLEAN :
         LET opened == [c \in Clips |->
                          Ensured(IF old THEN ReleasedRow(jobRows[c]) ELSE jobRows[c])]
         IN /\ jobRows' = [c \in Clips |->
                          IF Outdated(opened[c]) THEN ResetRow(opened[c])
                          ELSE IF Forgotten(c, opened[c])
                          THEN [opened[c] EXCEPT !.state = "succeeded", !.result = "own"]
                          ELSE opened[c]]
            /\ allowance' = IF \E c \in Clips : Outdated(opened[c])
                            THEN [allowance EXCEPT !.max = @ + MaxRequests] ELSE allowance
            /\ body' = [c \in Clips |-> IF Cached(opened[c]) THEN "answer" ELSE body[c]]
    /\ leasable' = {c \in Clips : ~NeverResend(c)}
    /\ sweep' = "sweeping"
    /\ passes' = passes + 1
    /\ limiter' = Flowing
    /\ UNCHANGED <<attempts, pool, again, unreached, asked, refusedAnswer>>

\* An exception, a lost claim, Ctrl-C: the pool is cancelled and its leases are released.
PassFails ==
    /\ jobRows' = [c \in Clips |-> ReleasedRow(jobRows[c])]
    /\ sweep' = "closed"
    /\ pool' = [t \in Tasks |-> IdleTask]
    /\ limiter' = Flowing
    /\ leasable' = {} /\ again' = {} /\ unreached' = 0
    /\ UNCHANGED allowance

----------------------------------------------------------------------------
(* One ask: _run_job, recognize_once and the transport. *)

\* What task t does next is `next`; nothing else of it changes.
StepsTo(t, next) == pool' = [pool EXCEPT ![t].step = next]

TakeClip(t) ==
    /\ sweep = "sweeping"
    /\ pool[t].step = "idle"
    /\ \E c \in leasable :
         /\ jobRows[c].state = "pending"
         /\ \A d \in leasable : jobRows[d].state = "pending" => c <= d
         /\ jobRows' = [jobRows EXCEPT ![c].state = "leased"]
         /\ pool' = [pool EXCEPT ![t] = [IdleTask EXCEPT !.step = "leased", !.clip = c]]
    /\ UNCHANGED <<allowance, attempts, body, limiter, passes, asked, refusedAnswer,
                   passVars>>

StartAsk(t) ==
    /\ pool[t].step = "leased"
    /\ jobRows' = [jobRows EXCEPT ![pool[t].clip].state = "submission_started"]
    /\ StepsTo(t, "asking")
    /\ UNCHANGED <<allowance, attempts, body, limiter, passes, asked, refusedAnswer,
                   passVars>>

\* The attempt is in the journal before anything else.
PrepareAttempt(t) ==
    /\ pool[t].step = "asking"
    /\ attempts' = [attempts EXCEPT ![pool[t].clip] = Append(@, "prepared")]
    /\ StepsTo(t, "gate")
    /\ UNCHANGED <<jobRows, allowance, body, limiter, passes, asked, refusedAnswer,
                   passVars>>

\* The pool gave up, the clip cannot be read, or Shazam is switched off.
NotSent(t) ==
    /\ pool[t].step = "gate"
    /\ pool' = [pool EXCEPT ![t].step = "failed", ![t].outcome = Unsent]
    /\ UNCHANGED <<jobRows, allowance, attempts, body, limiter, passes, asked,
                   refusedAnswer, passVars>>

GaveUp == limiter.probing /\ limiter.silent

\* TokenBucket.acquire lets nobody through while the pool is paused, and one at a time after that
\* until an answer arrives.
TokenFree == ~limiter.paused /\ ~(limiter.probing /\ limiter.probe)

\* The request is let through and, by begin_physical_attempt, put on the allowance.
AcquireToken(t) ==
    LET c == pool[t].clip
    IN /\ pool[t].step = "gate"
       /\ ~GaveUp /\ TokenFree
       /\ IF allowance.used + allowance.reserved >= allowance.max
          THEN /\ pool' = [pool EXCEPT ![t].step = "failed", ![t].outcome = Unsent]
               /\ limiter' = [limiter EXCEPT !.probe = FALSE]
               /\ UNCHANGED <<jobRows, allowance>>
          ELSE /\ jobRows' = [jobRows EXCEPT ![c].reserved = @ + 1]
               /\ allowance' = [allowance EXCEPT !.reserved = @ + 1]
               /\ limiter' = [limiter EXCEPT !.probe = limiter.probing \/ @]
               /\ StepsTo(t, "counted")
       /\ UNCHANGED <<attempts, body, passes, asked, refusedAnswer, passVars>>

\* The attempt is dispatched in the journal, and the request leaves.
SendClip(t) ==
    LET c == pool[t].clip
    IN /\ pool[t].step = "counted"
       /\ FoldSet(LAMBDA d, n : n + asked[d], 0, Clips) < MaxAsked
       /\ attempts' = [attempts EXCEPT ![c][Len(attempts[c])] = "dispatched"]
       /\ asked' = [asked EXCEPT ![c] = @ + 1]
       /\ StepsTo(t, "sent")
       /\ UNCHANGED <<jobRows, allowance, body, limiter, passes, refusedAnswer, passVars>>

\* What a throttle, or a body that is no recognition, does to the pool; `after` says that the
\* server names a time.
Penalized(after) ==
    IF after \/ limiter.probing \/ limiter.streak + 1 >= ThrottleStreak
    THEN [limiter EXCEPT !.paused = TRUE, !.probing = TRUE, !.streak = ThrottleStreak,
                         !.probe = FALSE]
    ELSE [limiter EXCEPT !.streak = @ + 1, !.probe = FALSE]

\* An answer ends the probing; a pause that is running runs on.
RecoveredLimiter == [limiter EXCEPT !.probing = FALSE, !.streak = 0, !.silent = FALSE,
                                    !.probe = FALSE]

\* next_attempt_after_failure: is this failure followed by another ask of the same clip?  A
\* throttle leaves it as it was whether the limiter has given up.
AsksAgain(t, outcome) ==
    \/ outcome = "throttled" /\ pool[t].throttles < MaxThrottled /\ ~GaveUp
    \/ outcome \in {"lost", "unreachable"} /\ pool[t].retries < MaxRetries /\ ~pool[t].second

\* The task once it has heard the outcome.
HavingHeard(t, outcome) ==
    IF outcome = "answer" THEN [pool[t] EXCEPT !.step = "answered", !.outcome = "answer"]
    ELSE IF AsksAgain(t, outcome)
    THEN [pool[t] EXCEPT !.step = "asking",
                         !.throttles = IF outcome = "throttled" THEN @ + 1 ELSE @,
                         !.retries = IF outcome = "throttled" THEN @ ELSE @ + 1]
    ELSE [pool[t] EXCEPT !.step = "failed", !.outcome = outcome]

\* The outcome: the limiter, the journal, and what the task does about it.
HearAnswer(t) ==
    LET c == pool[t].clip
    IN /\ pool[t].step = "sent"
       /\ \E outcome \in Replies :
            /\ attempts' = [attempts EXCEPT ![c][Len(attempts[c])] = outcome]
            /\ \/ outcome = "answer" /\ limiter' = RecoveredLimiter
               \/ outcome = "throttled" /\ \E after \in BOOLEAN : limiter' = Penalized(after)
               \/ outcome = "malformed" /\ limiter' = Penalized(FALSE)
               \/ /\ outcome \in {"lost", "unreachable", "denied"}
                  /\ limiter' = [limiter EXCEPT !.probe = FALSE]
            /\ pool' = [pool EXCEPT ![t] = HavingHeard(t, outcome)]
    /\ UNCHANGED <<jobRows, allowance, body, passes, asked, refusedAnswer, passVars>>

\* The job queue refuses the dispatch: the pass ends, the attempt stays prepared.
RefusedDispatch(t) ==
    /\ pool[t].step = "counted"
    /\ PassFails
    /\ UNCHANGED <<attempts, body, passes, asked, refusedAnswer>>

\* A body may replace nothing, or, by a second ask, the error the first ask left.
Replaceable(t) == pool[t].second /\ body[pool[t].clip] # "answer"

Writable(t) == body[pool[t].clip] \in {"none", pool[t].outcome} \/ Replaceable(t)

\* An answer is acknowledged in the store, then _write_raw_json: bodies are immutable.  A crash
\* between the two leaves what a crash before them does.
WriteBody(t) ==
    LET c == pool[t].clip
    IN /\ pool[t].step \in {"answered", "failed"}
       /\ \/ /\ Writable(t)
             /\ body' = [body EXCEPT ![c] = pool[t].outcome]
             /\ jobRows' = IF pool[t].step = "failed" THEN jobRows
                           ELSE [jobRows EXCEPT ![c].state = "submitted"]
             /\ StepsTo(t, "stored")
             /\ UNCHANGED <<allowance, limiter, refusedAnswer, passVars>>
          \/ /\ ~Writable(t)
             /\ refusedAnswer' = (refusedAnswer \/ pool[t].outcome = "answer")
             /\ PassFails
             /\ UNCHANGED body
       /\ UNCHANGED <<attempts, passes, asked>>

\* finish().
FinishClip(t) ==
    LET c == pool[t].clip
        unreachable == pool[t].outcome = "unreachable"
    IN /\ pool[t].step = "stored"
       /\ SettleClip(c, IF pool[t].outcome = "answer" THEN "succeeded" ELSE "permanent_failure")
       /\ pool' = [pool EXCEPT ![t] = IdleTask]
       /\ unreached' = IF pool[t].second /\ unreachable THEN unreached + 1 ELSE 0
       /\ UNCHANGED <<attempts, body, limiter, passes, asked, refusedAnswer, sweep,
                      leasable, again>>

----------------------------------------------------------------------------
(* The end of a sweep. *)

AllIdle == \A t \in Tasks : pool[t].step = "idle"

\* Failures Shazam itself caused, in the order of the mix, at most RetryCap of them.
FailedClips ==
    {c \in leasable : jobRows[c].state = "permanent_failure" /\ NewestAttempt(c) \in RetryOutcomes}

\* No clip is left to lease: the pool is done, and the second asks begin.
Drained ==
    /\ sweep = "sweeping"
    /\ AllIdle
    /\ \A c \in leasable : jobRows[c].state # "pending"
    /\ sweep' = "retrying"
    /\ again' = {c \in FailedClips : Cardinality({d \in FailedClips : d < c}) < RetryCap}
    /\ unreached' = 0
    /\ UNCHANGED <<jobRows, allowance, attempts, body, leasable, pool, limiter, passes,
                   asked, refusedAnswer>>

\* One failed clip is asked a second time: its row starts again and is leased.
AskAgain(t) ==
    /\ sweep = "retrying"
    /\ AllIdle
    /\ unreached < UnreachableStreak
    /\ allowance.used + allowance.reserved < allowance.max
    /\ \E c \in again :
          /\ \A d \in again : c <= d
          /\ again' = again \ {c}
          /\ jobRows' = [jobRows EXCEPT ![c] = [ResetRow(@) EXCEPT !.state = "leased"]]
          /\ pool' = [pool EXCEPT ![t] = [IdleTask EXCEPT !.step = "leased", !.clip = c,
                                                      !.second = TRUE]]
    /\ UNCHANGED <<allowance, attempts, body, sweep, leasable, unreached, limiter,
                   passes, asked, refusedAnswer>>

\* The second asks end (done, no allowance left, unreachable, or the breaker is open) and the
\* run's observations are written from the rows and the bodies.
CollectAnswers ==
    /\ sweep = "retrying"
    /\ AllIdle
    /\ sweep' = "collected"
    /\ limiter' = Flowing
    /\ leasable' = {} /\ again' = {} /\ unreached' = 0
    /\ UNCHANGED <<jobRows, allowance, attempts, body, pool, passes, asked, refusedAnswer>>

\* The checkpoint of the phase: no later pass sweeps.
CheckpointSweep ==
    /\ sweep = "collected"
    /\ sweep' = "over"
    /\ UNCHANGED <<jobRows, allowance, attempts, body, leasable, pool, again, unreached, limiter,
                   passes, asked, refusedAnswer>>

----------------------------------------------------------------------------
(* What happens to a sweep. *)

\* The claim is lost, or somebody presses Ctrl-C.
InterruptPass ==
    /\ sweep \in {"sweeping", "retrying"}
    /\ PassFails
    /\ UNCHANGED <<attempts, body, passes, asked, refusedAnswer>>

SweepCrashes ==
    /\ sweep \in {"sweeping", "retrying", "collected"}
    /\ sweep' = "closed"
    /\ pool' = [t \in Tasks |-> IdleTask]
    /\ limiter' = Flowing
    /\ leasable' = {} /\ again' = {} /\ unreached' = 0
    /\ UNCHANGED <<jobRows, allowance, attempts, body, passes, asked, refusedAnswer>>

\* `idea retry --acknowledge-billing` of a clip whose outcome is unknown.
ReleaseClip(c) ==
    /\ sweep = "closed"
    /\ passes \in 1..(MaxPasses - 1)
    /\ jobRows[c].state = "outcome_unknown"
    /\ jobRows' = [jobRows EXCEPT ![c].state = "pending", ![c].reserved = 0]
    /\ allowance' = [max |-> allowance.max + jobRows[c].reserved,
                     reserved |-> allowance.reserved - jobRows[c].reserved,
                     used |-> allowance.used + jobRows[c].reserved]
    /\ UNCHANGED <<attempts, body, pool, limiter, passes, asked, refusedAnswer, passVars>>

\* The store of the media is lost between two passes.
LoseStore ==
    /\ sweep = "closed"
    /\ passes \in 1..(MaxPasses - 1)
    /\ jobRows' = [c \in Clips |-> [state |-> "none", result |-> "none", reserved |-> 0]]
    /\ allowance' = [max |-> MaxRequests, reserved |-> 0, used |-> 0]
    /\ UNCHANGED <<attempts, body, pool, limiter, passes, asked, refusedAnswer, passVars>>

\* Time: a pause ends; a pool that is probing has heard nothing for long enough to give up.
PauseEnds ==
    /\ limiter.paused
    /\ limiter' = [limiter EXCEPT !.paused = FALSE]
    /\ UNCHANGED <<jobRows, allowance, attempts, body, pool, passes, asked, refusedAnswer,
                   passVars>>

Silence ==
    /\ limiter.probing /\ ~limiter.silent
    /\ limiter' = [limiter EXCEPT !.silent = TRUE]
    /\ UNCHANGED <<jobRows, allowance, attempts, body, pool, passes, asked, refusedAnswer,
                   passVars>>

SweepNext ==
    \/ PlanSweep \/ Drained \/ CollectAnswers \/ CheckpointSweep
    \/ InterruptPass \/ SweepCrashes \/ LoseStore \/ PauseEnds \/ Silence
    \/ \E c \in Clips : ReleaseClip(c)
    \/ \E t \in Tasks :
          \/ TakeClip(t) \/ StartAsk(t) \/ PrepareAttempt(t) \/ NotSent(t) \/ AcquireToken(t)
          \/ SendClip(t) \/ HearAnswer(t) \/ RefusedDispatch(t) \/ WriteBody(t)
          \/ FinishClip(t) \/ AskAgain(t)

SweepSpec == SweepInit /\ [][SweepNext]_sweepVars

----------------------------------------------------------------------------
(* Properties. *)

\* A run asks about a clip again only if it knows that no answer was given: never after an
\* answer, and never over a request that a dead pass left open, even if the store is lost or
\* the owner released the clip.
NeverAskedAgain ==
    [][\A c \in Clips : asked'[c] > asked[c] =>
          \A n \in DOMAIN attempts[c] : attempts[c][n] \notin {"answer", "dispatched"}]_sweepVars

\* The run's own files never stand in the way of a later answer.
NothingRefused == ~refusedAnswer
=============================================================================
