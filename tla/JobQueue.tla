------------------------------ MODULE JobQueue ------------------------------
(***************************************************************************)
(* The durable job queue of ID'er (src/src/idea_web/jobs/worker.py): the   *)
(* rows of jobs, analysis_runs and run_subscribers, and the workers that   *)
(* claim, run, retry, park, cancel and settle them.                        *)
(*                                                                         *)
(* Every JobQueue method is one BEGIN IMMEDIATE transaction, so each is    *)
(* one action.  A worker is a process of its own: between two of its       *)
(* transactions it may crash, or sleep past its lease while another worker *)
(* reclaims the job.  What it remembers is its claim token and the job row *)
(* it last read (seenState, seenRun).                                      *)
(*                                                                         *)
(* Abstractions.                                                           *)
(*  - Jobs are numbered in created_at order.                               *)
(*  - A run is named by the job that started it: a run id is minted for    *)
(*    one job and never handed to a second one.                            *)
(*  - A reservation is named by its job (run_subscribers.job_id is UNIQUE).*)
(*  - A lease is a Boolean: leased[j] says lease_until > now.  Renewals    *)
(*    keep it TRUE, LeaseLapses is the moment the clock passes it, and a   *)
(*    cooldown is a lease with no token.                                   *)
(*  - A claim token is a value nobody else refers to.                      *)
(***************************************************************************)
EXTENDS Integers, FiniteSets

CONSTANTS
    Jobs,           \* job ids, in created_at order
    Workers,        \* worker processes
    Tokens,         \* the pool claim tokens are drawn from
    Keys,           \* analysis keys (media, inputs, tenant scope and recipe)
    PrivateKeys,    \* those whose tenant_scope is a user's, not "public"
    PaidKeys,       \* those whose recipe uses a paid engine
    Outcomes,       \* what a pipeline that got through may report
    MaxAttempts,    \* MAX_ATTEMPTS
    MaxWaits,       \* bound: how often a breaker, a lock or a provider parks a job
    ReadFaults      \* may the read that follows an intake commit fail?

ASSUME JobsAssumption == Jobs \subseteq Nat \ {0} /\ IsFiniteSet(Jobs)
ASSUME TokensAssumption == Tokens \subseteq Nat \ {0}
ASSUME KeysAssumption == PrivateKeys \subseteq Keys /\ PaidKeys \subseteq Keys
ASSUME OutcomesAssumption == Outcomes \subseteq {"complete", "partial"}
ASSUME BoundsAssumption == /\ MaxAttempts \in Nat \ {0}
                           /\ MaxWaits \in Nat
                           /\ ReadFaults \in BOOLEAN

NoJob == 0
NoToken == 0

Active == {"intake", "waiting", "analysis"}
Terminal == Outcomes \cup {"cancelled", "quota_exceeded", "failed"}
JobStates == {"none", "dead_letter"} \cup Active \cup Terminal
RunStates == JobStates \ {"intake", "quota_exceeded"}
Settlements == {"none", "cancelled", "failed"} \cup Outcomes
Phases == {"idle", "claimed", "cancelling", "intake", "unread", "analysis", "settled"}

VARIABLES
    \* jobs
    state, run_id, attached, cancel_requested, attempt, leased, claim_token,
    \* analysis_runs (and run_settlements), by the job that started the run
    status, fence, payer, key, settlement,
    \* run_subscribers, by job
    reservation, detached, seq,
    \* the workers' memory
    phase, job, token, seenState, seenRun, result,
    \* bound
    waits

jobVars == <<state, run_id, attached, cancel_requested, attempt, leased, claim_token>>
runVars == <<status, fence, payer, key, settlement>>
subVars == <<reservation, detached, seq>>
workerVars == <<phase, job, token, seenState, seenRun, result>>
vars == <<jobVars, runVars, subVars, workerVars, waits>>

TypeOK ==
    /\ state \in [Jobs -> JobStates]
    /\ run_id \in [Jobs -> Jobs \cup {NoJob}]
    /\ attached \in [Jobs -> BOOLEAN]
    /\ cancel_requested \in [Jobs -> BOOLEAN]
    /\ attempt \in [Jobs -> 0..MaxAttempts]
    /\ leased \in [Jobs -> BOOLEAN]
    /\ claim_token \in [Jobs -> Tokens \cup {NoToken}]
    /\ status \in [Jobs -> RunStates]
    /\ fence \in [Jobs -> Tokens \cup {NoToken}]
    /\ payer \in [Jobs -> Jobs \cup {NoJob}]
    /\ key \in [Jobs -> Keys]
    /\ settlement \in [Jobs -> Settlements]
    /\ reservation \in [Jobs -> {"none", "held", "released", "settled"}]
    /\ detached \in [Jobs -> BOOLEAN]
    /\ seq \in [Jobs -> Nat]
    /\ phase \in [Workers -> Phases]
    /\ job \in [Workers -> Jobs \cup {NoJob}]
    /\ token \in [Workers -> Tokens \cup {NoToken}]
    /\ seenState \in [Workers -> JobStates]
    /\ seenRun \in [Workers -> Jobs \cup {NoJob}]
    /\ result \in [Workers -> Settlements]
    /\ waits \in 0..MaxWaits

Init ==
    /\ state = [j \in Jobs |-> "none"]
    /\ run_id = [j \in Jobs |-> NoJob]
    /\ attached = [j \in Jobs |-> FALSE]
    /\ cancel_requested = [j \in Jobs |-> FALSE]
    /\ attempt = [j \in Jobs |-> 0]
    /\ leased = [j \in Jobs |-> FALSE]
    /\ claim_token = [j \in Jobs |-> NoToken]
    /\ status = [r \in Jobs |-> "none"]
    /\ fence = [r \in Jobs |-> NoToken]
    /\ payer = [r \in Jobs |-> NoJob]
    /\ key \in [Jobs -> Keys]
    /\ settlement = [r \in Jobs |-> "none"]
    /\ reservation = [j \in Jobs |-> "none"]
    /\ detached = [j \in Jobs |-> FALSE]
    /\ seq = [j \in Jobs |-> 0]
    /\ phase = [w \in Workers |-> "idle"]
    /\ job = [w \in Workers |-> NoJob]
    /\ token = [w \in Workers |-> NoToken]
    /\ seenState = [w \in Workers |-> "none"]
    /\ seenRun = [w \in Workers |-> NoJob]
    /\ result = [w \in Workers |-> "none"]
    /\ waits = 0

-----------------------------------------------------------------------------
(* The checks and the row sets the transactions share. *)

\* Mutant of Current: a lapsed lease still counts.
CurrentLapsed(w) ==
    job[w] # NoJob /\ claim_token[job[w]] = token[w] /\ state[job[w]] \in Active

\* The one claim check: the job still holds w's token, is active, lease unexpired.
Current(w) ==
    /\ job[w] # NoJob
    /\ claim_token[job[w]] = token[w]
    /\ leased[job[w]]
    /\ state[job[w]] \in Active

\* Mutant of RunFence: some live claim on the run, not necessarily w's.
RunFenceAnyone(w, r) == \E j \in Jobs : run_id[j] = r /\ leased[j] /\ state[j] \in Active

\* require_run_fence: the run's token is w's, and so is that of a live job of the run.
RunFence(w, r) ==
    /\ token[w] # NoToken
    /\ fence[r] = token[w]
    /\ \E j \in Jobs : /\ run_id[j] = r
                       /\ claim_token[j] = token[w]
                       /\ leased[j]
                       /\ state[j] \in Active

\* The run the worker's job names in the database (NoJob while intake is not committed).
RunOf(w) == run_id[job[w]]

\* _LIVE_SUBSCRIBERS_SQL
LiveSubscribers(r) ==
    {j \in Jobs : /\ run_id[j] = r
                  /\ reservation[j] = "held"
                  /\ ~detached[j]
                  /\ state[j] \in Active}

\* Mutant of Earliest: the newest subscriber.
Latest(S) == CHOOSE j \in S : \A i \in S : seq[j] >= seq[i]

Earliest(S) == CHOOSE j \in S : \A i \in S : seq[j] <= seq[i]

\* Runs that have an analysis_runs row.
Started == {r \in Jobs : status[r] # "none"}

Subscribed == {j \in Jobs : reservation[j] # "none"}

\* Mutant of Claimable: attached rows are claimed like any other.
ClaimableAttached == {j \in Jobs : state[j] \in Active /\ ~leased[j]}

\* Claimable rows, and those among them that used up their attempts.
Claimable == {j \in Jobs : state[j] \in Active /\ ~attached[j] /\ ~leased[j]}

\* Mutant of Exhausted: one attempt too many.
ExhaustedLate == {j \in Claimable : attempt[j] > MaxAttempts}

Exhausted == {j \in Claimable : attempt[j] >= MaxAttempts}

\* Mutant of FreshTokens: tokens an earlier claim still remembers are reused.
ReusedTokens == Tokens \ {claim_token[j] : j \in Jobs}

\* Tokens no row and no worker refers to: a fresh uuid is one of these.
FreshTokens ==
    Tokens \ ({claim_token[j] : j \in Jobs} \cup {fence[r] : r \in Jobs}
              \cup {token[w] : w \in Workers})

\* Mutant of CloseSubscriptions: every held reservation settles.
CloseAllSettled(R) ==
    [j \in Jobs |-> IF run_id[j] \in R /\ reservation[j] = "held"
                    THEN "settled" ELSE reservation[j]]

\* What ending the runs R does to subscriptions and to attached jobs.
CloseSubscriptions(R) ==
    [j \in Jobs |->
        IF run_id[j] \in R /\ reservation[j] = "held"
        THEN IF payer[run_id[j]] = j THEN "settled" ELSE "released"
        ELSE reservation[j]]

MirrorAttached(R) ==
    {j \in Jobs : /\ run_id[j] \in R
                  /\ attached[j]
                  /\ state[j] = "waiting"
                  /\ ~cancel_requested[j]}

\* Mutants of OtherDriver: a driver that was told to stop, and a driver only while its
\* lease is live.
OtherDriverCancelled(j, r) ==
    \E d \in Jobs \ {j} : run_id[d] = r /\ ~attached[d] /\ state[d] \in Active
OtherDriverLeased(j, r) ==
    \E d \in Jobs \ {j} : /\ run_id[d] = r /\ ~attached[d] /\ ~cancel_requested[d]
                           /\ leased[d] /\ state[d] \in Active

\* The coalescing key is the analysis key, and private scope never coalesces.
Coalesces(j, r) == key[j] \notin PrivateKeys /\ key[r] = key[j]

\* Another job drives the run and was not told to stop.
OtherDriver(j, r) ==
    \E d \in Jobs \ {j} : /\ run_id[d] = r
                           /\ ~attached[d]
                           /\ ~cancel_requested[d]
                           /\ state[d] \in Active

\* Live runs that job j may attach to.
Attachable(j) ==
    {r \in Jobs : /\ Coalesces(j, r)
                  /\ status[r] \in Active
                  /\ payer[r] # NoJob
                  /\ OtherDriver(j, r)
                  /\ LiveSubscribers(r) # {}}

\* Finished runs of j's key, whose bundle a compatible request is served.
Servable(j) == {r \in Jobs : key[r] = key[j] /\ status[r] = "complete"}

\* A worker that forgets its claim: between two calls of run_once, or after a crash.
Forget(w) ==
    /\ phase' = [phase EXCEPT ![w] = "idle"]
    /\ job' = [job EXCEPT ![w] = NoJob]
    /\ token' = [token EXCEPT ![w] = NoToken]
    /\ seenState' = [seenState EXCEPT ![w] = "none"]
    /\ seenRun' = [seenRun EXCEPT ![w] = NoJob]
    /\ result' = [result EXCEPT ![w] = "none"]

\* Mutant of Abandon: only the jobs die.
AbandonJobsOnly(Q, R) ==
    /\ state' = [j \in Jobs |-> IF j \in Q THEN "dead_letter" ELSE state[j]]
    /\ UNCHANGED <<status, reservation>>

\* _abandon_run for the runs R, whose jobs Q are dead: each active run dies with
\* its job, its subscriptions close and its attached jobs get the same fate.
Abandon(Q, R) ==
    LET dying == {r \in Started \cap R : status[r] \in Active}
    IN  /\ status' = [r \in Jobs |-> IF r \in dying THEN "dead_letter" ELSE status[r]]
        /\ reservation' = CloseSubscriptions(dying)
        /\ state' = [j \in Jobs |-> IF j \in Q \cup MirrorAttached(dying)
                                    THEN "dead_letter" ELSE state[j]]

-----------------------------------------------------------------------------
(* The users. *)

\* insert_job; rows are numbered in creation order.
Enqueue(j) ==
    /\ state[j] = "none"
    /\ \A i \in Jobs : i < j => state[i] # "none"
    /\ state' = [state EXCEPT ![j] = "intake"]
    /\ UNCHANGED <<run_id, attached, cancel_requested, attempt, leased, claim_token,
                   runVars, subVars, workerVars, waits>>

\* _detach and _transfer_payer: the payer moves to the earliest live subscriber,
\* anyone else's reservation is released, the last one out fires the cancel token.
Detach(j) ==
    LET r == run_id[j]
        remaining == LiveSubscribers(r) \ {j}
        transfers == /\ reservation[j] = "held"
                     /\ payer[r] = j
                     /\ remaining # {}
                     /\ status[r] \in Active
        releases == reservation[j] = "held" /\ payer[r] # j
    IN  /\ j \in Subscribed
        /\ state[j] \in Active
        /\ ~detached[j]
        /\ detached' = [detached EXCEPT ![j] = TRUE]
        /\ payer' = IF transfers THEN [payer EXCEPT ![r] = Earliest(remaining)] ELSE payer
        /\ reservation' = IF transfers \/ releases
                          THEN [reservation EXCEPT ![j] = "released"] ELSE reservation
        /\ cancel_requested' =
             [i \in Jobs |->
                 \/ cancel_requested[i]
                 \/ i = j /\ attached[j]
                 \/ remaining = {} /\ run_id[i] = r /\ ~attached[i] /\ state[i] \in Active]
        /\ state' = IF attached[j] THEN [state EXCEPT ![j] = "cancelled"] ELSE state
        /\ leased' = IF attached[j] THEN [leased EXCEPT ![j] = FALSE] ELSE leased
        /\ claim_token' = IF attached[j] THEN [claim_token EXCEPT ![j] = NoToken]
                          ELSE claim_token
        /\ UNCHANGED <<run_id, attached, attempt, status, fence, key, settlement, seq,
                       workerVars, waits>>

\* request_cancel on a job with no subscription (an unsubscribed attached row
\* predates migration 0005 and cannot arise here).
FlagCancel(j) ==
    /\ j \notin Subscribed
    /\ state[j] \in Active
    /\ ~cancel_requested[j]
    /\ cancel_requested' = [cancel_requested EXCEPT ![j] = TRUE]
    /\ UNCHANGED <<state, run_id, attached, attempt, leased, claim_token,
                   runVars, subVars, workerVars, waits>>

RequestCancel(j) == Detach(j) \/ FlagCancel(j)

\* cancel_unclaimed: an intake job nobody holds and that has no run ends at once.
CancelUnclaimed(j) ==
    /\ state[j] = "intake"
    /\ claim_token[j] = NoToken
    /\ run_id[j] \notin Started
    /\ state' = [state EXCEPT ![j] = "cancelled"]
    /\ cancel_requested' = [cancel_requested EXCEPT ![j] = TRUE]
    /\ leased' = [leased EXCEPT ![j] = FALSE]
    /\ UNCHANGED <<run_id, attached, attempt, claim_token, runVars, subVars,
                   workerVars, waits>>

-----------------------------------------------------------------------------
(* Time and failures. *)

\* The clock passes lease_until: the holder slept or died, or a cooldown is over.
\* heartbeat and update_progress only ever renew a lease that is still live.
LeaseLapses(j) ==
    /\ leased[j]
    /\ leased' = [leased EXCEPT ![j] = FALSE]
    /\ UNCHANGED <<state, run_id, attached, cancel_requested, attempt, claim_token,
                   runVars, subVars, workerVars, waits>>

\* The worker process dies; its rows stay as they are.
Crash(w) ==
    /\ phase[w] # "idle"
    /\ Forget(w)
    /\ UNCHANGED <<jobVars, runVars, subVars, waits>>

\* expire_dead_letters: the dead letters D are a day old.
ExpireDeadLetters(D) ==
    LET runs == {run_id[j] : j \in D}
    IN  /\ D # {}
        /\ \A j \in D : state[j] = "dead_letter"
        /\ state' = [j \in Jobs |-> IF j \in D THEN "failed" ELSE state[j]]
        /\ status' = [r \in Jobs |-> IF r \in runs /\ status[r] \in Active \cup {"dead_letter"}
                                     THEN "failed" ELSE status[r]]
        /\ fence' = [r \in Jobs |-> IF r \in runs /\ status[r] \in Active \cup {"dead_letter"}
                                    THEN NoToken ELSE fence[r]]
        /\ UNCHANGED <<run_id, attached, cancel_requested, attempt, leased, claim_token,
                       payer, key, settlement, subVars, workerVars, waits>>

-----------------------------------------------------------------------------
(* Claiming. *)

\* Mutant of ReconcileAttached: only runs that ended with a result are mirrored.
ReconcileResults(w) ==
    LET ended == {r \in Started : status[r] \in Outcomes}
    IN  /\ phase[w] = "idle"
        /\ MirrorAttached(ended) # {}
        /\ state' = [j \in Jobs |-> IF j \in MirrorAttached(ended)
                                    THEN status[run_id[j]] ELSE state[j]]
        /\ UNCHANGED <<run_id, attached, cancel_requested, attempt, leased, claim_token,
                       runVars, subVars, workerVars, waits>>

\* reconcile_attached: the backstop that mirrors every ended run.
ReconcileAttached(w) ==
    LET ended == {r \in Started : status[r] \notin Active}
    IN  /\ phase[w] = "idle"
        /\ MirrorAttached(ended) # {}
        /\ state' = [j \in Jobs |-> IF j \in MirrorAttached(ended)
                                    THEN status[run_id[j]] ELSE state[j]]
        /\ UNCHANGED <<run_id, attached, cancel_requested, attempt, leased, claim_token,
                       runVars, subVars, workerVars, waits>>

\* What a claim transaction does to the exhausted rows Q it passes over.
Quarantine(Q) ==
    /\ Abandon(Q, {run_id[i] : i \in Q})
    /\ UNCHANGED <<run_id, attached, cancel_requested, payer, key, settlement,
                   detached, seq, waits>>

\* claim: the oldest claimable row gets a fresh token and its run's fence; the
\* exhausted rows before it are quarantined in the same transaction.
Claim(w) ==
    \E j \in Claimable \ Exhausted :
    LET t == CHOOSE u \in FreshTokens : TRUE
        Q == {i \in Exhausted : i < j}
        lost == {run_id[i] : i \in Q}
    IN  /\ phase[w] = "idle"
        /\ \A k \in Claimable \ Exhausted : j <= k
        /\ FreshTokens # {}
        /\ Quarantine(Q)
        /\ leased' = [leased EXCEPT ![j] = TRUE]
        /\ claim_token' = [i \in Jobs |-> IF i = j THEN t
                                          ELSE IF i \in Q THEN NoToken ELSE claim_token[i]]
        /\ attempt' = [attempt EXCEPT ![j] = @ + 1]
        /\ fence' = [r \in Jobs |->
                        IF r = run_id[j] /\ r \in Started THEN t
                        ELSE IF r \in lost /\ status[r] \in Active THEN NoToken
                        ELSE fence[r]]
        /\ phase' = [phase EXCEPT ![w] = IF cancel_requested[j] THEN "cancelling" ELSE "claimed"]
        /\ job' = [job EXCEPT ![w] = j]
        /\ token' = [token EXCEPT ![w] = t]
        /\ seenState' = [seenState EXCEPT ![w] = state[j]]
        /\ seenRun' = [seenRun EXCEPT ![w] = run_id[j]]
        /\ result' = result

\* A claim transaction that finds nothing but exhausted rows.
ClaimNothing(w) ==
    /\ phase[w] = "idle"
    /\ Claimable = Exhausted
    /\ Exhausted # {}
    /\ Quarantine(Exhausted)
    /\ claim_token' = [i \in Jobs |-> IF i \in Exhausted THEN NoToken ELSE claim_token[i]]
    /\ fence' = [r \in Jobs |->
                    IF r \in {run_id[i] : i \in Exhausted} /\ status[r] \in Active
                    THEN NoToken ELSE fence[r]]
    /\ UNCHANGED <<attempt, leased, workerVars>>

\* A guarded write of this worker changed no row, or raised StaleClaim: it writes
\* nothing and goes back to the queue.
GiveUp(w) ==
    /\ phase[w] # "idle"
    /\ ~Current(w)
    /\ Forget(w)
    /\ UNCHANGED <<jobVars, runVars, subVars, waits>>

-----------------------------------------------------------------------------
(* What the holder of a claim may do with it. *)

\* wait: not a failure; the attempt is returned and the row held for a cooldown.
Wait(w, parked) ==
    /\ Current(w)
    /\ waits < MaxWaits
    /\ waits' = waits + 1
    /\ IF RunOf(w) # NoJob /\ fence[RunOf(w)] = token[w]
       THEN /\ status' = [status EXCEPT ![RunOf(w)] = "waiting"]
            /\ fence' = [fence EXCEPT ![RunOf(w)] = NoToken]
       ELSE UNCHANGED <<status, fence>>
    /\ state' = [state EXCEPT ![job[w]] = parked]
    /\ claim_token' = [claim_token EXCEPT ![job[w]] = NoToken]
    /\ attempt' = [attempt EXCEPT ![job[w]] = IF @ > 0 THEN @ - 1 ELSE 0]
    /\ Forget(w)
    /\ UNCHANGED <<run_id, attached, cancel_requested, leased, payer, key, settlement, subVars>>

\* fail: retry until the attempts run out, then a dead letter and an abandoned run.
\* It acts on the job as the worker last read it (seenState, seenRun).
Fail(w, permanent) ==
    LET j == job[w]
        dead == permanent \/ attempt[j] >= MaxAttempts
        owned == {r \in {seenRun[w]} \ {NoJob} : fence[r] = token[w]}
    IN  /\ Current(w)
        /\ IF dead
           THEN /\ Abandon({j}, {seenRun[w]} \ {NoJob})
                /\ fence' = [r \in Jobs |-> IF r = seenRun[w] /\ status[r] \in Active
                                            THEN NoToken ELSE fence[r]]
           ELSE /\ state' = [state EXCEPT ![j] = seenState[w]]
                /\ fence' = [r \in Jobs |-> IF r \in owned THEN NoToken ELSE fence[r]]
                /\ UNCHANGED <<status, reservation>>
        /\ leased' = [leased EXCEPT ![j] = FALSE]
        /\ claim_token' = [claim_token EXCEPT ![j] = NoToken]
        /\ Forget(w)
        /\ UNCHANGED <<run_id, attached, cancel_requested, attempt, payer, key, settlement,
                       detached, seq, waits>>

\* A hosted paid recipe is refused before anything exists for it.
RefusePaid(w) ==
    /\ phase[w] = "claimed"
    /\ key[job[w]] \in PaidKeys
    /\ Fail(w, TRUE)

\* The process breaker is open: a new free job waits instead of starting.
BreakerWait(w) ==
    /\ phase[w] = "claimed"
    /\ key[job[w]] \notin PaidKeys
    /\ seenState[w] = "intake" \/ seenRun[w] = NoJob
    /\ Wait(w, IF seenRun[w] = NoJob THEN "intake" ELSE "waiting")

\* JobStoreLocked: another process holds the source or media lock.
SourceBusy(w) ==
    /\ phase[w] \in {"intake", "analysis"}
    /\ Wait(w, IF seenState[w] = "intake" THEN "intake" ELSE "waiting")

\* The pipeline reports "waiting" (its provider is down).
ProviderWait(w) ==
    /\ phase[w] = "analysis"
    /\ Wait(w, "waiting")

\* Anything else the worker's code raises.
WorkerFails(w) ==
    /\ phase[w] \in {"intake", "analysis", "settled"}
    /\ Fail(w, FALSE)

\* run_once starts on a claim: the page document is published under the claim.
StartIntake(w) ==
    /\ phase[w] = "claimed"
    /\ key[job[w]] \notin PaidKeys
    /\ seenState[w] = "intake" \/ seenRun[w] = NoJob
    /\ Current(w)
    /\ phase' = [phase EXCEPT ![w] = "intake"]
    /\ UNCHANGED <<jobVars, runVars, subVars, job, token, seenState, seenRun,
                   result, waits>>

\* begin_analysis: a retry of a job whose run exists.
BeginAnalysis(w) ==
    LET r == RunOf(w)
    IN  /\ phase[w] = "claimed"
        /\ key[job[w]] \notin PaidKeys
        /\ seenState[w] # "intake" /\ seenRun[w] # NoJob
        /\ Current(w)
        /\ state[job[w]] \in {"waiting", "analysis"}
        /\ state' = [state EXCEPT ![job[w]] = "analysis"]
        /\ status' = IF fence[r] = token[w] THEN [status EXCEPT ![r] = "analysis"] ELSE status
        /\ phase' = [phase EXCEPT ![w] = "unread"]
        /\ UNCHANGED <<run_id, attached, cancel_requested, attempt, leased, claim_token,
                       fence, payer, key, settlement, subVars,
                       job, token, seenState, seenRun, result, waits>>

\* _subscribe: the job's reservation, last in attachment order.
Subscribe(j) ==
    /\ j \notin Subscribed
    /\ reservation' = [reservation EXCEPT ![j] = "held"]
    /\ seq' = [seq EXCEPT ![j] = Cardinality(Subscribed) + 1]
    /\ UNCHANGED detached

\* The claim check of _commit_intake.
IntakeOwned(w) == phase[w] = "intake" /\ Current(w) /\ state[job[w]] = "intake"

\* _commit_intake, four ways: a stored result serves the job ...
ServeStored(w) ==
    LET j == job[w]
    IN  /\ IntakeOwned(w)
        /\ \E r \in Servable(j) : run_id' = [run_id EXCEPT ![j] = r]
        /\ state' = [state EXCEPT ![j] = "complete"]
        /\ leased' = [leased EXCEPT ![j] = FALSE]
        /\ claim_token' = [claim_token EXCEPT ![j] = NoToken]
        /\ Forget(w)
        /\ UNCHANGED <<attached, cancel_requested, attempt, runVars, subVars, waits>>

\* ... or the account cannot reserve the minutes ...
RefuseQuota(w) ==
    LET j == job[w]
    IN  /\ IntakeOwned(w)
        /\ run_id' = [run_id EXCEPT ![j] = NoJob]
        /\ state' = [state EXCEPT ![j] = "quota_exceeded"]
        /\ leased' = [leased EXCEPT ![j] = FALSE]
        /\ claim_token' = [claim_token EXCEPT ![j] = NoToken]
        /\ Forget(w)
        /\ UNCHANGED <<attached, cancel_requested, attempt, runVars, subVars, waits>>

\* ... or the job attaches to a live run of its key ...
AttachToRun(w) ==
    LET j == job[w]
    IN  /\ IntakeOwned(w)
        /\ \E r \in Attachable(j) : run_id' = [run_id EXCEPT ![j] = r]
        /\ Subscribe(j)
        /\ attached' = [attached EXCEPT ![j] = TRUE]
        /\ state' = [state EXCEPT ![j] = "waiting"]
        /\ leased' = [leased EXCEPT ![j] = FALSE]
        /\ claim_token' = [claim_token EXCEPT ![j] = NoToken]
        /\ Forget(w)
        /\ UNCHANGED <<cancel_requested, attempt, runVars, waits>>

\* ... or it starts a run of its own, as the run's payer and first subscriber.
StartRun(w) ==
    LET j == job[w]
    IN  /\ IntakeOwned(w)
        /\ Attachable(j) = {}
        /\ j \notin Started
        /\ Subscribe(j)
        /\ run_id' = [run_id EXCEPT ![j] = j]
        /\ state' = [state EXCEPT ![j] = "analysis"]
        /\ status' = [status EXCEPT ![j] = "analysis"]
        /\ fence' = [fence EXCEPT ![j] = token[w]]
        /\ payer' = [payer EXCEPT ![j] = j]
        /\ phase' = [phase EXCEPT ![w] = "unread"]
        /\ UNCHANGED <<attached, cancel_requested, attempt, leased, claim_token,
                       key, settlement, job, token, seenState, seenRun,
                       result, waits>>

CommitIntake(w) == ServeStored(w) \/ RefuseQuota(w) \/ AttachToRun(w) \/ StartRun(w)

\* queue.get after the commit: the worker's copy of the job is refreshed ...
ReadJob(w) ==
    /\ phase[w] = "unread"
    /\ Current(w)
    /\ phase' = [phase EXCEPT ![w] = "analysis"]
    /\ seenState' = [seenState EXCEPT ![w] = state[job[w]]]
    /\ seenRun' = [seenRun EXCEPT ![w] = run_id[job[w]]]
    /\ UNCHANGED <<jobVars, runVars, subVars, job, token, result, waits>>

\* ... unless the read fails: the job is failed on the copy from before the commit.
ReadFails(w) ==
    /\ ReadFaults
    /\ phase[w] = "unread"
    /\ Fail(w, FALSE)

\* The pipeline stops because cancel_requested() said so.
SeesCancel(w) == phase[w] = "analysis" /\ Current(w) /\ cancel_requested[job[w]]

\* The pipeline's result, settled under the run fence before terminal() sees it.
Settle(w) ==
    /\ phase[w] = "analysis"
    /\ RunFence(w, RunOf(w))
    /\ \E o \in Outcomes \cup {"failed"} \cup (IF SeesCancel(w) THEN {"cancelled"} ELSE {}) :
        /\ settlement' = [settlement EXCEPT ![RunOf(w)] = o]
        /\ result' = [result EXCEPT ![w] = o]
    /\ phase' = [phase EXCEPT ![w] = "settled"]
    /\ UNCHANGED <<jobVars, status, fence, payer, key, subVars,
                   job, token, seenState, seenRun, waits>>

\* _cancel_before_start: settle the run only if nothing has, then end as cancelled.
CancelBeforeStart(w) ==
    /\ phase[w] = "cancelling" \/ SeesCancel(w)
    /\ Current(w)
    /\ IF seenRun[w] \in Started
       THEN /\ RunFence(w, seenRun[w])
            /\ settlement' = [settlement EXCEPT ![seenRun[w]] =
                                IF @ = "none" THEN "cancelled" ELSE @]
       ELSE UNCHANGED settlement
    /\ phase' = [phase EXCEPT ![w] = "settled"]
    /\ result' = [result EXCEPT ![w] = "cancelled"]
    /\ UNCHANGED <<jobVars, status, fence, payer, key, subVars,
                   job, token, seenState, seenRun, waits>>

\* terminal: the run, its subscriptions, every attached job and the job itself, at
\* once.  A run everybody left ends cancelled whatever the pipeline reported, and a
\* driver whose own user left is cancelled whatever the run achieved.
FinishJob(w) ==
    LET j == job[w]
        r == RunOf(w)
        abandoned == /\ cancel_requested[j]
                     /\ \E i \in Subscribed : run_id[i] = r
                     /\ LiveSubscribers(r) = {}
        outcome == IF r # NoJob /\ abandoned THEN "cancelled" ELSE result[w]
        ended == {q \in {r} \ {NoJob} : fence[q] = token[w]}
    IN  /\ phase[w] = "settled"
        /\ result[w] # "failed"
        /\ Current(w)
        /\ status' = [q \in Jobs |-> IF q \in ended THEN outcome ELSE status[q]]
        /\ fence' = [q \in Jobs |-> IF q \in ended THEN NoToken ELSE fence[q]]
        /\ reservation' = CloseSubscriptions(ended)
        /\ settlement' = [q \in Jobs |->
                             IF q \in ended /\ outcome = "cancelled" /\ settlement[q] # "none"
                             THEN "cancelled" ELSE settlement[q]]
        /\ state' = [i \in Jobs |->
                        IF i = j THEN IF detached[j] THEN "cancelled" ELSE outcome
                        ELSE IF i \in MirrorAttached(ended) THEN outcome ELSE state[i]]
        /\ leased' = [leased EXCEPT ![j] = FALSE]
        /\ claim_token' = [claim_token EXCEPT ![j] = NoToken]
        /\ Forget(w)
        /\ UNCHANGED <<run_id, attached, cancel_requested, attempt, payer, key,
                       detached, seq, waits>>

-----------------------------------------------------------------------------
\* What a live worker does once it holds a claim.
Proceed(w) ==
    \/ GiveUp(w)
    \/ RefusePaid(w)
    \/ BreakerWait(w)
    \/ StartIntake(w)
    \/ CommitIntake(w)
    \/ BeginAnalysis(w)
    \/ ReadJob(w)
    \/ ReadFails(w)
    \/ SourceBusy(w)
    \/ ProviderWait(w)
    \/ WorkerFails(w)
    \/ Settle(w)
    \/ CancelBeforeStart(w)
    \/ FinishJob(w)

Idle(w) == ReconcileAttached(w) \/ Claim(w) \/ ClaimNothing(w)

User(j) == Enqueue(j) \/ RequestCancel(j) \/ CancelUnclaimed(j)

Next ==
    \/ \E j \in Jobs : User(j) \/ LeaseLapses(j)
    \/ \E w \in Workers : Idle(w) \/ Proceed(w) \/ Crash(w)
    \/ \E D \in SUBSET Jobs : ExpireDeadLetters(D)

Spec == Init /\ [][Next]_vars

\* Nobody is left who would renew the lease of j.
Unattended(j) == \A w \in Workers : job[w] # j \/ token[w] # claim_token[j]

\* What the code's own loops guarantee: a worker that holds a claim keeps going, an
\* idle one keeps polling (claim) and reconciling, a lease nobody renews runs out, and
\* dead letters expire.  Users, crashes and pauses owe nothing.
Fairness ==
    /\ \A w \in Workers : /\ WF_vars(Proceed(w))
                          /\ WF_vars(Claim(w) \/ ClaimNothing(w))
                          /\ WF_vars(ReconcileAttached(w))
    /\ \A j \in Jobs : WF_vars(Unattended(j) /\ LeaseLapses(j))
    /\ \A j \in Jobs : WF_vars(ExpireDeadLetters({j}))

FairSpec == Spec /\ Fairness

-----------------------------------------------------------------------------
(* Safety. *)

\* At any moment at most one worker passes the run fence of a run, however many
\* still hold a token of an earlier claim: a worker that slept past its lease can
\* neither checkpoint nor settle over its replacement.
FenceExclusive ==
    \A r \in Jobs : \A v, w \in Workers : RunFence(v, r) /\ RunFence(w, r) => v = w

\* A live run is somebody's to drive: the job that started it is active, not
\* attached, and names it, so a worker will claim it (no immortal runs).
RunHasDriver ==
    \A r \in Jobs : status[r] \in Active =>
        state[r] \in Active /\ ~attached[r] /\ run_id[r] = r

\* A live run always has a paying reservation, still held, and while anyone is
\* subscribed it belongs to the earliest-attached live subscriber: whatever order
\* detaches and attachments arrive in, nobody who left keeps paying for the rest.
EarliestPays ==
    \A r \in Jobs : status[r] \in Active =>
        /\ payer[r] \in Subscribed
        /\ run_id[payer[r]] = r
        /\ reservation[payer[r]] = "held"
        /\ LiveSubscribers(r) # {} => payer[r] = Earliest(LiveSubscribers(r))

\* However a run ended, exactly its payer's reservation settled and nobody's is
\* still held: no subscriber is charged twice, or for a run it left.
OneSettles ==
    \A r \in Started : status[r] \notin Active =>
        /\ {j \in Subscribed : run_id[j] = r /\ reservation[j] = "settled"} = {payer[r]}
        /\ {j \in Subscribed : run_id[j] = r /\ reservation[j] = "held"} = {}

\* A run that ended with a result or cancelled is settled as exactly that, even if
\* an earlier pass had settled something else or everybody left after the pipeline
\* had settled a success.
SettlementAgrees ==
    \A r \in Jobs : status[r] \in Outcomes \cup {"cancelled"} => settlement[r] = status[r]

\* Runs a public job could attach to.
Joinable(r) ==
    /\ key[r] \notin PrivateKeys
    /\ status[r] \in Active
    /\ ~cancel_requested[r]
    /\ LiveSubscribers(r) # {}

\* Coalescing: two public runs of one analysis key are never both joinable, so two
\* intakes that raced for a key did not both start an analysis.
OneRunPerKey ==
    \A q, r \in Jobs : Joinable(q) /\ Joinable(r) /\ key[q] = key[r] => q = r

\* Somebody attached to a shared run is never told "cancelled" because others left:
\* an attached job ends cancelled only by its own detach.
NobodyCancelsForYou ==
    [][\A j \in Jobs : attached[j] /\ state[j] = "waiting" /\ state'[j] = "cancelled"
                       => detached'[j]]_<<state, detached>>

-----------------------------------------------------------------------------
(* Why FenceExclusive and SettlementAgrees hold: an inductive invariant. *)

\* A claim's token is its own, and a worker that is not idle has a claim on a job it
\* saw active.
TokensDistinct ==
    /\ \A v, w \in Workers : token[v] = token[w] /\ token[v] # NoToken => v = w
    /\ \A w \in Workers : phase[w] # "idle" =>
           token[w] # NoToken /\ job[w] # NoJob /\ seenState[w] \in Active

\* A run that is not live carries no fence; an attached job carries no claim.
EndedUnfenced ==
    /\ \A r \in Jobs : status[r] \notin Active => fence[r] = NoToken
    /\ \A j \in Jobs : attached[j] => claim_token[j] = NoToken

\* A job nobody has asked for is untouched; a claimable job with a run is the job that started it, and the run is live; an
\* attached job dies only with its run.
DriverOwnsRun ==
    \A j \in Jobs :
        /\ state[j] = "none" => run_id[j] = NoJob /\ claim_token[j] = NoToken
        /\ run_id[j] # NoJob /\ ~attached[j] /\ state[j] \in Active =>
               run_id[j] = j /\ status[j] \in Active
        /\ run_id[j] # NoJob /\ attached[j] /\ state[j] = "dead_letter" =>
               status[run_id[j]] \notin Active
        /\ run_id[j] # NoJob /\ ~attached[j] /\ state[j] = "dead_letter" => run_id[j] = j
        /\ run_id[j] # NoJob => run_id[j] \in Started

\* While its claim is good, a worker's copy of the run id is the row's, except that
\* right after an intake commit it may not know of its run yet.
SeenRunIsCurrent ==
    \A w \in Workers : phase[w] # "idle" /\ Current(w) =>
        /\ seenRun[w] \in {NoJob, RunOf(w)}
        /\ phase[w] \in {"claimed", "cancelling", "analysis"} => seenRun[w] = RunOf(w)

\* A worker about to end its job has settled the run it fences, as what it reports,
\* unless it reports "cancelled", which terminal() will settle over.
SettledBeforeEnd ==
    \A w \in Workers : phase[w] = "settled" =>
        /\ result[w] # "none"
        /\ Current(w) /\ RunOf(w) # NoJob /\ fence[RunOf(w)] = token[w] =>
               /\ settlement[RunOf(w)] # "none"
               /\ result[w] = "cancelled" \/ settlement[RunOf(w)] = result[w]

RunsInv ==
    /\ EndedUnfenced
    /\ DriverOwnsRun
    /\ SeenRunIsCurrent
    /\ SettledBeforeEnd
    /\ SettlementAgrees

\* The whole: what the queue's safety theorems rest on.
OwnershipInv == TypeOK /\ TokensDistinct /\ RunsInv

-----------------------------------------------------------------------------
(* Liveness. *)

\* The row a cancel during intake leaves behind: attached, and cancelled by a flag
\* that neither claims nor mirroring look past.
Stranded(j) == attached[j] /\ cancel_requested[j] /\ state[j] = "waiting"

\* The row a failed read leaves behind: the job that started the run this one is
\* attached to was ended in a second intake and no longer names the run.
Forsaken(j) == attached[j] /\ run_id[run_id[j]] # run_id[j]

\* Every request reaches an end, through crashes, lapsed leases, parked claims, dead
\* letters and detaches, unless it is stranded, or forsaken, which takes a failed read.
EveryJobEnds ==
    \A j \in Jobs : (state[j] \in Active \cup {"dead_letter"})
                        ~> (state[j] \in Terminal \/ Stranded(j) \/ Forsaken(j))

\* What migration 0002 says of its own queue: no attached row is left waiting with
\* its cancellation only flagged.
CancelledAttachmentEnds == \A j \in Jobs : Stranded(j) ~> ~Stranded(j)

-----------------------------------------------------------------------------
(* The queue implements FencedRuns: the holder of a run is the worker that passes *)
(* its fence.                                                                     *)
Holder(r) == IF \E w \in Workers : RunFence(w, r)
             THEN CHOOSE w \in Workers : RunFence(w, r) ELSE NoToken

Fenced == INSTANCE FencedRuns WITH
    Runs <- Jobs,
    Nobody <- NoToken,
    Results <- Outcomes,
    holder <- [r \in Jobs |-> Holder(r)],
    outcome <- [r \in Jobs |-> IF status[r] \in Active THEN "live" ELSE status[r]],
    verdict <- settlement

\* Seen from the runs alone, every step of the queue is a step of FencedRuns.
ImplementsFencedRuns == Fenced!FRSpec
=============================================================================
