--------------------------- MODULE JobQueueProofs ---------------------------
(***************************************************************************)
(* The job queue, for every number of jobs, workers, tokens, attempts and  *)
(* parked claims.  With every fault: type correctness, one worker behind a *)
(* run's fence, settlements that agree with how runs ended, nobody         *)
(* cancelled by others, nobody charged but a run's payer, and the          *)
(* refinement of FencedRuns.  Where the read that follows an intake commit *)
(* succeeds: every live run is driven, paid for by its earliest subscriber *)
(* and settled once, and keys coalesce.                                    *)
(***************************************************************************)
EXTENDS JobQueue, FiniteSetTheorems, WellFoundedInduction, TLAPS

\* The earliest of some subscribers is one of them (attachment order is a number).
LEMMA EarliestIsMember ==
    ASSUME TypeOK, NEW S \in SUBSET Jobs, S # {}
    PROVE  Earliest(S) \in S
<1> DEFINE order == {seq[j] : j \in S}
<1>1. order \subseteq Nat /\ order # {}
  BY DEF TypeOK
<1>2. PICK n \in order : \A m \in order : ~ (<<m, n>> \in OpToRel(<, Nat))
  BY <1>1, WFMin, NatLessThanWellFounded, Zenon
<1>3. \A m \in order : ~ (m < n)
  BY <1>1, <1>2, Zenon DEF OpToRel
<1>4. PICK j \in S : seq[j] = n
  BY <1>2
<1>5. \A i \in S : seq[j] <= seq[i]
  BY <1>1, <1>3, <1>4
<1> QED
  BY <1>5, Zenon DEF Earliest

LEMMA FreshTokenIsUnused ==
    ASSUME FreshTokens # {}
    PROVE  LET t == CHOOSE u \in FreshTokens : TRUE
           IN  /\ t \in Tokens
               /\ t # NoToken
               /\ \A j \in Jobs : claim_token[j] # t
               /\ \A r \in Jobs : fence[r] # t
               /\ \A w \in Workers : token[w] # t
BY TokensAssumption DEF FreshTokens, NoToken

\* The number of subscriptions is a natural number, as there are finitely many jobs.
LEMMA SubscribedIsFinite == Cardinality(Subscribed) \in Nat
<1>1. IsFiniteSet(Subscribed)
  BY JobsAssumption, FS_Subset DEF Subscribed
<1> QED
  BY <1>1, FS_CardinalityType

USE DEF NoJob, NoToken

LEMMA InitTyped == Init => TypeOK
BY BoundsAssumption DEF Init, TypeOK, JobStates, RunStates, Settlements, Phases

\* The sets of names the rows and the workers' memory range over.
USE OutcomesAssumption DEF JobStates, RunStates, Settlements, Phases, Active, Terminal,
                           jobVars, runVars, subVars, workerVars

LEMMA UserTyped ==
    ASSUME TypeOK, NEW j \in Jobs, User(j) \/ LeaseLapses(j)
    PROVE  TypeOK'
<1>1. CASE Enqueue(j)
  BY <1>1 DEF TypeOK, Enqueue
<1>2. CASE Detach(j)
  <2> DEFINE r == run_id[j]
             remaining == LiveSubscribers(r) \ {j}
  <2>1. remaining \in SUBSET Jobs
    BY DEF LiveSubscribers
  <2>2. remaining # {} => Earliest(remaining) \in Jobs
    BY <2>1, EarliestIsMember
  <2>3. payer' \in [Jobs -> Jobs \cup {NoJob}]
    BY <1>2, <2>2 DEF TypeOK, Detach
  <2>4. reservation' \in [Jobs -> {"none", "held", "released", "settled"}]
    BY <1>2 DEF TypeOK, Detach
  <2>5. cancel_requested' \in [Jobs -> BOOLEAN]
    BY <1>2 DEF Detach
  <2>6. /\ state' \in [Jobs -> JobStates]
        /\ leased' \in [Jobs -> BOOLEAN]
        /\ claim_token' \in [Jobs -> Tokens \cup {NoToken}]
        /\ detached' \in [Jobs -> BOOLEAN]
    BY <1>2 DEF TypeOK, Detach
  <2> QED
    BY <1>2, <2>3, <2>4, <2>5, <2>6 DEF TypeOK, Detach
<1>3. CASE FlagCancel(j)
  BY <1>3 DEF TypeOK, FlagCancel
<1>4. CASE CancelUnclaimed(j)
  BY <1>4 DEF TypeOK, CancelUnclaimed
<1>5. CASE LeaseLapses(j)
  BY <1>5 DEF TypeOK, LeaseLapses
<1> QED
  BY <1>1, <1>2, <1>3, <1>4, <1>5 DEF User, RequestCancel

LEMMA ForgetTyped ==
    ASSUME TypeOK, NEW w \in Workers, Forget(w)
    PROVE  /\ phase' \in [Workers -> Phases]
           /\ job' \in [Workers -> Jobs \cup {NoJob}]
           /\ token' \in [Workers -> Tokens \cup {NoToken}]
           /\ seenState' \in [Workers -> JobStates]
           /\ seenRun' \in [Workers -> Jobs \cup {NoJob}]
           /\ result' \in [Workers -> Settlements]
BY DEF TypeOK, Forget

LEMMA ClosedTyped ==
    ASSUME TypeOK, NEW R
    PROVE  CloseSubscriptions(R) \in [Jobs -> {"none", "held", "released", "settled"}]
BY DEF TypeOK, CloseSubscriptions

LEMMA AbandonTyped ==
    ASSUME TypeOK, NEW Q, NEW R, Abandon(Q, R)
    PROVE  /\ status' \in [Jobs -> RunStates]
           /\ reservation' \in [Jobs -> {"none", "held", "released", "settled"}]
           /\ state' \in [Jobs -> JobStates]
BY ClosedTyped DEF TypeOK, Abandon

LEMMA ExpireTyped ==
    ASSUME TypeOK, NEW D \in SUBSET Jobs, ExpireDeadLetters(D)
    PROVE  TypeOK'
BY DEF TypeOK, ExpireDeadLetters

LEMMA IdleTyped ==
    ASSUME TypeOK, NEW w \in Workers, Idle(w) \/ Crash(w)
    PROVE  TypeOK'
<1>1. CASE ReconcileAttached(w)
  <2>1. state' \in [Jobs -> JobStates]
    BY <1>1 DEF TypeOK, ReconcileAttached, MirrorAttached, Started
  <2> QED
    BY <1>1, <2>1 DEF TypeOK, ReconcileAttached
<1>2. CASE Claim(w)
  <2> DEFINE t == CHOOSE u \in FreshTokens : TRUE
  <2>1. PICK j \in Claimable \ Exhausted :
            LET Q == {i \in Exhausted : i < j}
                lost == {run_id[i] : i \in Q}
            IN  /\ FreshTokens # {}
                /\ Quarantine(Q)
                /\ leased' = [leased EXCEPT ![j] = TRUE]
                /\ claim_token' = [i \in Jobs |-> IF i = j THEN t
                                                  ELSE IF i \in Q THEN NoToken ELSE claim_token[i]]
                /\ attempt' = [attempt EXCEPT ![j] = @ + 1]
                /\ fence' = [r \in Jobs |->
                                IF r = run_id[j] /\ r \in Started THEN t
                                ELSE IF r \in lost /\ status[r] \in Active THEN NoToken
                                ELSE fence[r]]
                /\ phase' = [phase EXCEPT ![w] = IF cancel_requested[j] THEN "cancelling"
                                                 ELSE "claimed"]
                /\ job' = [job EXCEPT ![w] = j]
                /\ token' = [token EXCEPT ![w] = t]
                /\ seenState' = [seenState EXCEPT ![w] = state[j]]
                /\ seenRun' = [seenRun EXCEPT ![w] = run_id[j]]
                /\ result' = result
    BY <1>2 DEF Claim
  <2>2. j \in Jobs /\ attempt[j] < MaxAttempts
    BY <2>1, BoundsAssumption DEF Claimable, Exhausted, TypeOK
  <2>3. t \in Tokens
    BY <2>1, FreshTokenIsUnused
  <2>4. /\ status' \in [Jobs -> RunStates]
        /\ reservation' \in [Jobs -> {"none", "held", "released", "settled"}]
        /\ state' \in [Jobs -> JobStates]
    BY <2>1, AbandonTyped DEF Quarantine
  <2>5. attempt' \in [Jobs -> 0..MaxAttempts]
    BY <2>1, <2>2, BoundsAssumption DEF TypeOK
  <2> QED
    BY <2>1, <2>2, <2>3, <2>4, <2>5 DEF TypeOK, Quarantine
<1>3. CASE ClaimNothing(w)
  <2>1. /\ status' \in [Jobs -> RunStates]
        /\ reservation' \in [Jobs -> {"none", "held", "released", "settled"}]
        /\ state' \in [Jobs -> JobStates]
    BY <1>3, AbandonTyped DEF ClaimNothing, Quarantine
  <2> QED
    BY <1>3, <2>1 DEF TypeOK, ClaimNothing, Quarantine
<1>4. CASE Crash(w)
  BY <1>4, ForgetTyped DEF TypeOK, Crash
<1> QED
  BY <1>1, <1>2, <1>3, <1>4 DEF Idle

LEMMA WaitTyped ==
    ASSUME TypeOK, NEW w \in Workers, NEW parked \in {"intake", "waiting"}, Wait(w, parked)
    PROVE  TypeOK'
<1>1. waits' \in 0..MaxWaits
  BY BoundsAssumption DEF TypeOK, Wait
<1>2. attempt' \in [Jobs -> 0..MaxAttempts]
  <2>1. job[w] \in Jobs /\ attempt[job[w]] \in 0..MaxAttempts
    BY DEF TypeOK, Wait, Current
  <2>2. (IF attempt[job[w]] > 0 THEN attempt[job[w]] - 1 ELSE 0) \in 0..MaxAttempts
    BY <2>1, BoundsAssumption
  <2>3. attempt' = [attempt EXCEPT ![job[w]] =
                        IF attempt[job[w]] > 0 THEN attempt[job[w]] - 1 ELSE 0]
    BY DEF Wait
  <2> QED
    BY <2>2, <2>3 DEF TypeOK
<1>3. status' \in [Jobs -> RunStates] /\ fence' \in [Jobs -> Tokens \cup {NoToken}]
  BY DEF TypeOK, Wait
<1> QED
  BY <1>1, <1>2, <1>3, ForgetTyped DEF TypeOK, Wait

LEMMA FailTyped ==
    ASSUME TypeOK, NEW w \in Workers, NEW permanent \in BOOLEAN, Fail(w, permanent)
    PROVE  TypeOK'
<1> DEFINE j == job[w]
<1>1. CASE permanent \/ attempt[j] >= MaxAttempts
  <2>1. Abandon({j}, {seenRun[w]} \ {NoJob})
    BY <1>1 DEF Fail
  <2>2. /\ status' \in [Jobs -> RunStates]
        /\ reservation' \in [Jobs -> {"none", "held", "released", "settled"}]
        /\ state' \in [Jobs -> JobStates]
    BY <2>1, AbandonTyped
  <2>3. fence' \in [Jobs -> Tokens \cup {NoToken}]
    BY <1>1 DEF TypeOK, Fail
  <2> QED
    BY <2>2, <2>3, ForgetTyped DEF TypeOK, Fail
<1>2. CASE ~(permanent \/ attempt[j] >= MaxAttempts)
  <2>1. state' \in [Jobs -> JobStates] /\ fence' \in [Jobs -> Tokens \cup {NoToken}]
    BY <1>2 DEF TypeOK, Fail
  <2>2. status' = status /\ reservation' = reservation
    BY <1>2 DEF Fail
  <2> QED
    BY <2>1, <2>2, ForgetTyped DEF TypeOK, Fail
<1> QED
  BY <1>1, <1>2

LEMMA IntakeTyped ==
    ASSUME TypeOK, NEW w \in Workers, StartIntake(w) \/ CommitIntake(w)
    PROVE  TypeOK'
<1>1. CASE StartIntake(w)
  BY <1>1 DEF TypeOK, StartIntake
<1>2. CASE ServeStored(w)
  <2>1. run_id' \in [Jobs -> Jobs \cup {NoJob}]
    <3>1. PICK r \in Servable(job[w]) : run_id' = [run_id EXCEPT ![job[w]] = r]
      BY <1>2 DEF ServeStored
    <3>2. r \in Jobs
      BY DEF Servable
    <3> QED
      BY <3>1, <3>2 DEF TypeOK
  <2>2. "complete" \in JobStates
    BY <1>2 DEF TypeOK, ServeStored, Servable
  <2> QED
    BY <1>2, <2>1, <2>2, ForgetTyped DEF TypeOK, ServeStored
<1>3. CASE RefuseQuota(w)
  BY <1>3, ForgetTyped DEF TypeOK, RefuseQuota
<1>4. CASE AttachToRun(w)
  <2>1. run_id' \in [Jobs -> Jobs \cup {NoJob}]
    <3>1. PICK r \in Attachable(job[w]) : run_id' = [run_id EXCEPT ![job[w]] = r]
      BY <1>4 DEF AttachToRun
    <3>2. r \in Jobs
      BY DEF Attachable
    <3> QED
      BY <3>1, <3>2 DEF TypeOK
  <2>2. seq' \in [Jobs -> Nat]
    <3>1. seq' = [seq EXCEPT ![job[w]] = Cardinality(Subscribed) + 1]
      BY <1>4 DEF AttachToRun, Subscribe
    <3>2. Cardinality(Subscribed) + 1 \in Nat
      BY SubscribedIsFinite
    <3> QED
      BY <3>1, <3>2 DEF TypeOK
  <2> QED
    BY <1>4, <2>1, <2>2, ForgetTyped DEF TypeOK, AttachToRun, Subscribe
<1>5. CASE StartRun(w)
  <2>1. seq' \in [Jobs -> Nat]
    <3>1. seq' = [seq EXCEPT ![job[w]] = Cardinality(Subscribed) + 1]
      BY <1>5 DEF StartRun, Subscribe
    <3>2. Cardinality(Subscribed) + 1 \in Nat
      BY SubscribedIsFinite
    <3> QED
      BY <3>1, <3>2 DEF TypeOK
  <2> QED
    BY <1>5, <2>1 DEF TypeOK, StartRun, Subscribe, IntakeOwned, Current
<1> QED
  BY <1>1, <1>2, <1>3, <1>4, <1>5 DEF CommitIntake

LEMMA FinishTyped ==
    ASSUME TypeOK, NEW w \in Workers, FinishJob(w)
    PROVE  TypeOK'
<1> DEFINE j == job[w]
           r == RunOf(w)
           abandoned == /\ cancel_requested[j]
                        /\ \E i \in Subscribed : run_id[i] = r
                        /\ LiveSubscribers(r) = {}
           outcome == IF r # NoJob /\ abandoned THEN "cancelled" ELSE result[w]
           ended == {q \in {r} \ {NoJob} : fence[q] = token[w]}
<1>1. outcome \in RunStates /\ outcome \in JobStates
  BY DEF TypeOK
<1>2. /\ status' \in [Jobs -> RunStates]
      /\ fence' \in [Jobs -> Tokens \cup {NoToken}]
      /\ state' \in [Jobs -> JobStates]
  BY <1>1 DEF TypeOK, FinishJob
<1>3. /\ settlement' \in [Jobs -> Settlements]
      /\ reservation' \in [Jobs -> {"none", "held", "released", "settled"}]
  BY ClosedTyped DEF TypeOK, FinishJob
<1> QED
  BY <1>2, <1>3, ForgetTyped DEF TypeOK, FinishJob

LEMMA ProceedTyped ==
    ASSUME TypeOK, NEW w \in Workers, Proceed(w)
    PROVE  TypeOK'
<1>1. CASE GiveUp(w)
  BY <1>1, ForgetTyped DEF TypeOK, GiveUp
<1>2. CASE RefusePaid(w) \/ ReadFails(w) \/ WorkerFails(w)
  BY <1>2, FailTyped DEF RefusePaid, ReadFails, WorkerFails
<1>3. CASE BreakerWait(w) \/ SourceBusy(w) \/ ProviderWait(w)
  BY <1>3, WaitTyped DEF BreakerWait, SourceBusy, ProviderWait
<1>4. CASE StartIntake(w) \/ CommitIntake(w)
  BY <1>4, IntakeTyped
<1>5. CASE BeginAnalysis(w)
  BY <1>5 DEF TypeOK, BeginAnalysis
<1>6. CASE ReadJob(w)
  BY <1>6 DEF TypeOK, ReadJob, Current
<1>7. CASE Settle(w)
  <2>1. PICK o \in Outcomes \cup {"failed", "cancelled"} :
            /\ settlement' = [settlement EXCEPT ![RunOf(w)] = o]
            /\ result' = [result EXCEPT ![w] = o]
    BY <1>7 DEF Settle
  <2> QED
    BY <1>7, <2>1 DEF TypeOK, Settle
<1>8. CASE CancelBeforeStart(w)
  BY <1>8 DEF TypeOK, CancelBeforeStart
<1>9. CASE FinishJob(w)
  BY <1>9, FinishTyped
<1> QED
  BY <1>1, <1>2, <1>3, <1>4, <1>5, <1>6, <1>7, <1>8, <1>9 DEF Proceed

LEMMA NextTyped == TypeOK /\ [Next]_vars => TypeOK'
<1> SUFFICES ASSUME TypeOK, [Next]_vars PROVE TypeOK'
  OBVIOUS
<1>1. CASE \E j \in Jobs : User(j) \/ LeaseLapses(j)
  BY <1>1, UserTyped
<1>2. CASE \E w \in Workers : Idle(w) \/ Proceed(w) \/ Crash(w)
  BY <1>2, IdleTyped, ProceedTyped
<1>3. CASE \E D \in SUBSET Jobs : ExpireDeadLetters(D)
  BY <1>3, ExpireTyped
<1>4. CASE UNCHANGED vars
  BY <1>4 DEF TypeOK, vars
<1> QED
  BY <1>1, <1>2, <1>3, <1>4 DEF Next

\* Type correctness: in particular a job never uses more than MaxAttempts attempts,
\* a parked claim gives its attempt back without going below zero, and whoever
\* pays for a run is a job.
THEOREM TypeCorrect == Spec => []TypeOK
<1>1. Init => TypeOK
  BY InitTyped
<1>2. TypeOK /\ [Next]_vars => TypeOK'
  BY NextTyped
<1> QED
  BY <1>1, <1>2, PTL DEF Spec

-----------------------------------------------------------------------------
(* OwnershipInv is inductive: one lemma per part. *)

\* Claim, with its witnesses: the job j, its fresh token and the rows it quarantines.
Taken(w, j) ==
    LET t == token'[w]
        Q == {i \in Exhausted : i < j}
    IN  /\ j \in Claimable \ Exhausted
        /\ t \in Tokens /\ t # NoToken
        /\ \A i \in Jobs : claim_token[i] # t /\ fence[i] # t
        /\ \A v \in Workers : token[v] # t
        /\ phase[w] = "idle"
        /\ Quarantine(Q)
        /\ leased' = [leased EXCEPT ![j] = TRUE]
        /\ claim_token' = [i \in Jobs |-> IF i = j THEN t
                                          ELSE IF i \in Q THEN NoToken ELSE claim_token[i]]
        /\ fence' = [r \in Jobs |->
                        IF r = run_id[j] /\ r \in Started THEN t
                        ELSE IF r \in {run_id[i] : i \in Q} /\ status[r] \in Active
                             THEN NoToken ELSE fence[r]]
        /\ phase' = [phase EXCEPT ![w] = IF cancel_requested[j] THEN "cancelling" ELSE "claimed"]
        /\ job' = [job EXCEPT ![w] = j]
        /\ token' = [token EXCEPT ![w] = t]
        /\ seenState' = [seenState EXCEPT ![w] = state[j]]
        /\ seenRun' = [seenRun EXCEPT ![w] = run_id[j]]
        /\ result' = result

LEMMA ClaimTakes ==
    ASSUME TypeOK, NEW w \in Workers, Claim(w)
    PROVE  \E j \in Jobs : Taken(w, j)
<1> DEFINE t == CHOOSE u \in FreshTokens : TRUE
<1>1. FreshTokens # {}
  BY DEF Claim
<1>2. /\ t \in Tokens /\ t # NoToken
      /\ \A i \in Jobs : claim_token[i] # t /\ fence[i] # t
      /\ \A v \in Workers : token[v] # t
  BY <1>1, FreshTokenIsUnused
<1>3. token' = [token EXCEPT ![w] = t]
  BY DEF Claim
<1>4. token'[w] = t
  BY <1>3 DEF TypeOK
<1>5. PICK j \in Claimable \ Exhausted :
          LET Q == {i \in Exhausted : i < j}
          IN  /\ Quarantine(Q)
              /\ phase[w] = "idle"
              /\ leased' = [leased EXCEPT ![j] = TRUE]
              /\ claim_token' = [i \in Jobs |-> IF i = j THEN t
                                                ELSE IF i \in Q THEN NoToken ELSE claim_token[i]]
              /\ fence' = [r \in Jobs |->
                              IF r = run_id[j] /\ r \in Started THEN t
                              ELSE IF r \in {run_id[i] : i \in Q} /\ status[r] \in Active
                                   THEN NoToken ELSE fence[r]]
              /\ phase' = [phase EXCEPT ![w] = IF cancel_requested[j] THEN "cancelling"
                                               ELSE "claimed"]
              /\ job' = [job EXCEPT ![w] = j]
              /\ seenState' = [seenState EXCEPT ![w] = state[j]]
              /\ seenRun' = [seenRun EXCEPT ![w] = run_id[j]]
              /\ result' = result
  BY DEF Claim
<1>6. j \in Jobs
  BY DEF Claimable
<1> HIDE DEF t
<1>7. Taken(w, j)
  BY <1>2, <1>3, <1>4, <1>5 DEF Taken
<1> QED
  BY <1>6, <1>7

\* No action but a claim changes the token or the job of a worker, unless it forgets both.
WorkerKeeps ==
    /\ token' = token /\ job' = job
    /\ \A v \in Workers :
           /\ phase[v] = "idle" => phase'[v] = "idle"
           /\ seenState'[v] = seenState[v] \/ seenState'[v] \in Active

LEMMA WorkersForgetOrKeep ==
    ASSUME TypeOK, NEW w \in Workers, Proceed(w) \/ Crash(w) \/ ReconcileAttached(w) \/ ClaimNothing(w)
    PROVE  Forget(w) \/ WorkerKeeps
<1>1. CASE GiveUp(w) \/ Crash(w)
  BY <1>1 DEF GiveUp, Crash
<1>2. CASE RefusePaid(w) \/ ReadFails(w) \/ WorkerFails(w)
  BY <1>2 DEF RefusePaid, ReadFails, WorkerFails, Fail
<1>3. CASE BreakerWait(w) \/ SourceBusy(w) \/ ProviderWait(w)
  BY <1>3 DEF BreakerWait, SourceBusy, ProviderWait, Wait
<1>4. CASE StartIntake(w)
  BY <1>4 DEF StartIntake, WorkerKeeps, TypeOK
<1>5. CASE ServeStored(w) \/ RefuseQuota(w) \/ AttachToRun(w)
  BY <1>5 DEF ServeStored, RefuseQuota, AttachToRun
<1>6. CASE StartRun(w)
  BY <1>6 DEF StartRun, WorkerKeeps, IntakeOwned, TypeOK
<1>7. CASE BeginAnalysis(w)
  BY <1>7 DEF BeginAnalysis, WorkerKeeps, TypeOK
<1>8. CASE ReadJob(w)
  BY <1>8 DEF ReadJob, Current, WorkerKeeps, TypeOK
<1>9. CASE Settle(w)
  BY <1>9 DEF Settle, WorkerKeeps, TypeOK
<1>10. CASE CancelBeforeStart(w)
  <2>1. phase[w] # "idle"
    BY <1>10 DEF CancelBeforeStart, SeesCancel
  <2> QED
    BY <1>10, <2>1 DEF CancelBeforeStart, WorkerKeeps, TypeOK
<1>11. CASE FinishJob(w)
  BY <1>11 DEF FinishJob
<1>12. CASE ReconcileAttached(w) \/ ClaimNothing(w)
  BY <1>12 DEF ReconcileAttached, ClaimNothing, WorkerKeeps
<1> QED
  BY <1>1, <1>2, <1>3, <1>4, <1>5, <1>6, <1>7, <1>8, <1>9, <1>10, <1>11, <1>12
     DEF Proceed, CommitIntake

\* What users, clocks and expiry leave alone.
LEMMA OthersKeepWorkers ==
    ASSUME (\E j \in Jobs : User(j) \/ LeaseLapses(j)) \/ (\E D \in SUBSET Jobs : ExpireDeadLetters(D))
           \/ UNCHANGED vars
    PROVE  UNCHANGED workerVars
BY DEF User, RequestCancel, Enqueue, Detach, FlagCancel, CancelUnclaimed, LeaseLapses,
       ExpireDeadLetters, vars

LEMMA TokensDistinctStep == TypeOK /\ TokensDistinct /\ [Next]_vars => TokensDistinct'
<1> SUFFICES ASSUME TypeOK, TokensDistinct, [Next]_vars PROVE TokensDistinct'
  OBVIOUS
<1>1. ASSUME NEW w \in Workers, Forget(w) PROVE TokensDistinct'
  BY <1>1 DEF TokensDistinct, Forget, TypeOK
<1>2. ASSUME WorkerKeeps PROVE TokensDistinct'
  BY <1>2 DEF TokensDistinct, WorkerKeeps
<1>3. ASSUME NEW w \in Workers, Claim(w) PROVE TokensDistinct'
  <2>1. PICK j \in Jobs : Taken(w, j)
    BY <1>3, ClaimTakes
  <2> DEFINE t == token'[w]
  <2>2. /\ t # NoToken /\ \A v \in Workers : token[v] # t
        /\ token' = [token EXCEPT ![w] = t]
        /\ job' = [job EXCEPT ![w] = j]
        /\ seenState' = [seenState EXCEPT ![w] = state[j]]
        /\ \A v \in Workers \ {w} : phase'[v] = phase[v]
        /\ state[j] \in Active
    BY <2>1 DEF Taken, Claimable, TypeOK
  <2>3. \A v \in Workers : token'[v] = IF v = w THEN t ELSE token[v]
    BY <2>2 DEF TypeOK
  <2>4. \A v \in Workers : /\ job'[v] = IF v = w THEN j ELSE job[v]
                          /\ seenState'[v] = IF v = w THEN state[j] ELSE seenState[v]
    BY <2>2 DEF TypeOK
  <2> HIDE DEF t
  <2>5. \A u, v \in Workers : token'[u] = token'[v] /\ token'[u] # NoToken => u = v
    BY <2>2, <2>3 DEF TokensDistinct
  <2>6. \A v \in Workers : phase'[v] # "idle" =>
            token'[v] # NoToken /\ job'[v] # NoJob /\ seenState'[v] \in Active
    BY <2>2, <2>3, <2>4, JobsAssumption DEF TokensDistinct
  <2> QED
    BY <2>5, <2>6 DEF TokensDistinct
<1>4. ASSUME UNCHANGED workerVars PROVE TokensDistinct'
  BY <1>4 DEF TokensDistinct
<1>5. CASE \E w \in Workers : Idle(w) \/ Proceed(w) \/ Crash(w)
  BY <1>5, <1>1, <1>2, <1>3, WorkersForgetOrKeep DEF Idle
<1> QED
  BY <1>4, <1>5, OthersKeepWorkers DEF Next

\* What SettledBeforeEnd says of one worker, and a step that leaves it as it was.
SettledFor(v) ==
    /\ result[v] # "none"
    /\ Current(v) /\ RunOf(v) # NoJob /\ fence[RunOf(v)] = token[v] =>
           /\ settlement[RunOf(v)] # "none"
           /\ result[v] = "cancelled" \/ settlement[RunOf(v)] = result[v]

StillSettled(v) ==
    /\ phase[v] = "settled"
    /\ result'[v] = result[v]
    /\ Current(v)' /\ RunOf(v)' # NoJob /\ (fence[RunOf(v)] = token[v])' =>
           /\ Current(v)
           /\ RunOf(v)' = RunOf(v)
           /\ fence[RunOf(v)] = token[v]
           /\ (settlement[RunOf(v)])' = settlement[RunOf(v)]

LEMMA SettledStays ==
    ASSUME SettledBeforeEnd,
           \A v \in Workers : phase'[v] = "settled" => StillSettled(v)
    PROVE  SettledBeforeEnd'
BY DEF SettledBeforeEnd, StillSettled

\* The claimed job drives the run it names, and no other run is known to its worker.
LEMMA ClaimantDrives ==
    ASSUME OwnershipInv, NEW w \in Workers, phase[w] # "idle", Current(w)
    PROVE  /\ job[w] \in Jobs /\ ~attached[job[w]]
           /\ RunOf(w) # NoJob => RunOf(w) = job[w] /\ status[job[w]] \in Active
           /\ seenRun[w] \in {NoJob, RunOf(w)}
<1>1. job[w] \in Jobs /\ ~attached[job[w]]
  BY DEF OwnershipInv, RunsInv, TypeOK, TokensDistinct, EndedUnfenced, Current
<1> QED
  BY <1>1 DEF OwnershipInv, RunsInv, DriverOwnsRun, SeenRunIsCurrent, Current, RunOf

LEMMA EnqueueKeeps ==
    ASSUME OwnershipInv, NEW j \in Jobs, Enqueue(j)
    PROVE  RunsInv'
<1> USE DEF OwnershipInv, RunsInv
<1>1. EndedUnfenced' /\ DriverOwnsRun' /\ SettlementAgrees'
  BY DEF Enqueue, EndedUnfenced, DriverOwnsRun, SettlementAgrees, Started
<1>2. SeenRunIsCurrent'
  BY DEF Enqueue, SeenRunIsCurrent, TypeOK, TokensDistinct, EndedUnfenced,
     DriverOwnsRun, Current, RunOf
<1>3. SettledBeforeEnd'
  BY DEF Enqueue, SettledBeforeEnd, TypeOK, DriverOwnsRun, Current, RunOf
<1> QED
  BY <1>1, <1>2, <1>3 DEF RunsInv

LEMMA DetachKeeps ==
    ASSUME OwnershipInv, NEW j \in Jobs, Detach(j)
    PROVE  RunsInv'
<1> USE DEF OwnershipInv, RunsInv
<1>1. EndedUnfenced' /\ DriverOwnsRun' /\ SettlementAgrees'
  BY DEF Detach, EndedUnfenced, DriverOwnsRun, SettlementAgrees, Started
<1>2. SeenRunIsCurrent' /\ SettledBeforeEnd'
  BY DEF Detach, SeenRunIsCurrent, SettledBeforeEnd, TypeOK, Current, RunOf
<1> QED
  BY <1>1, <1>2 DEF RunsInv

LEMMA FlagCancelKeeps ==
    ASSUME OwnershipInv, NEW j \in Jobs, FlagCancel(j)
    PROVE  RunsInv'
<1> USE DEF OwnershipInv, RunsInv
<1>1. EndedUnfenced' /\ DriverOwnsRun' /\ SeenRunIsCurrent' /\ SettledBeforeEnd' /\ SettlementAgrees'
  BY DEF FlagCancel, EndedUnfenced, DriverOwnsRun, SeenRunIsCurrent, SettledBeforeEnd,
     SettlementAgrees, Started, Current, RunOf
<1> QED
  BY <1>1 DEF RunsInv

LEMMA CancelUnclaimedKeeps ==
    ASSUME OwnershipInv, NEW j \in Jobs, CancelUnclaimed(j)
    PROVE  RunsInv'
<1> USE DEF OwnershipInv, RunsInv
<1>1. EndedUnfenced' /\ DriverOwnsRun' /\ SeenRunIsCurrent' /\ SettledBeforeEnd' /\ SettlementAgrees'
  BY DEF CancelUnclaimed, EndedUnfenced, DriverOwnsRun, SeenRunIsCurrent,
     SettledBeforeEnd, SettlementAgrees, Started, Current, RunOf
<1> QED
  BY <1>1 DEF RunsInv

LEMMA LeaseLapsesKeeps ==
    ASSUME OwnershipInv, NEW j \in Jobs, LeaseLapses(j)
    PROVE  RunsInv'
<1> USE DEF OwnershipInv, RunsInv
<1>1. EndedUnfenced' /\ DriverOwnsRun' /\ SeenRunIsCurrent' /\ SettledBeforeEnd' /\ SettlementAgrees'
  BY DEF LeaseLapses, EndedUnfenced, DriverOwnsRun, SeenRunIsCurrent, SettledBeforeEnd,
     SettlementAgrees, Started, Current, RunOf
<1> QED
  BY <1>1 DEF RunsInv

LEMMA ExpireDeadLettersKeeps ==
    ASSUME OwnershipInv, NEW D \in SUBSET Jobs, ExpireDeadLetters(D)
    PROVE  RunsInv'
<1> USE DEF OwnershipInv, RunsInv
<1>1. EndedUnfenced' /\ DriverOwnsRun' /\ SettlementAgrees'
  BY DEF ExpireDeadLetters, EndedUnfenced, DriverOwnsRun, SettlementAgrees, Started
<1>2. SeenRunIsCurrent'
  BY DEF ExpireDeadLetters, SeenRunIsCurrent, TypeOK, Current, RunOf
<1>3. SettledBeforeEnd'
  <2>1. ASSUME NEW v \in Workers, phase'[v] = "settled" PROVE StillSettled(v)
    <3>1. token[v] # NoToken
      BY <2>1 DEF ExpireDeadLetters, TokensDistinct
    <3> QED
      BY <2>1, <3>1 DEF ExpireDeadLetters, StillSettled, TypeOK, Current, RunOf
  <2> QED
    BY <2>1, SettledStays
<1> QED
  BY <1>1, <1>2, <1>3 DEF RunsInv

LEMMA ReconcileAttachedKeeps ==
    ASSUME OwnershipInv, NEW w \in Workers, ReconcileAttached(w)
    PROVE  RunsInv'
<1> USE DEF OwnershipInv, RunsInv
<1>1. EndedUnfenced' /\ SettlementAgrees'
  BY DEF ReconcileAttached, EndedUnfenced, SettlementAgrees
<1>2. DriverOwnsRun'
  BY DEF ReconcileAttached, DriverOwnsRun, TypeOK, MirrorAttached, Started
<1>3. SeenRunIsCurrent' /\ SettledBeforeEnd'
  BY DEF ReconcileAttached, SeenRunIsCurrent, SettledBeforeEnd, TypeOK, Started,
     MirrorAttached, Current, RunOf
<1> QED
  BY <1>1, <1>2, <1>3 DEF RunsInv

LEMMA ClaimNothingKeeps ==
    ASSUME OwnershipInv, NEW w \in Workers, ClaimNothing(w)
    PROVE  RunsInv'
<1> USE DEF OwnershipInv, RunsInv
<1>1. EndedUnfenced' /\ SettlementAgrees'
  BY DEF ClaimNothing, EndedUnfenced, SettlementAgrees, TypeOK, Quarantine, Abandon,
     Exhausted, Claimable, MirrorAttached, Started
<1>2. DriverOwnsRun'
  BY DEF ClaimNothing, DriverOwnsRun, TypeOK, Quarantine, Abandon, Exhausted, Claimable,
     MirrorAttached, Started
<1>3. ASSUME NEW v \in Workers, phase[v] # "idle", Current(v)'
      PROVE  Current(v) /\ RunOf(v)' = RunOf(v)
  <2>1. token[v] # NoToken
    BY <1>3 DEF TokensDistinct
  <2>2. job[v] \in Jobs /\ claim_token'[job[v]] = token[v]
    BY <1>3 DEF ClaimNothing, Current, TypeOK
  <2>3. job[v] \notin Exhausted /\ claim_token[job[v]] = token[v]
    BY <2>1, <2>2 DEF ClaimNothing
  <2>4. state'[job[v]] \in Active => state[job[v]] \in Active
    BY <2>2 DEF ClaimNothing, Quarantine, Abandon, TypeOK
  <2> QED
    BY <1>3, <2>3, <2>4 DEF ClaimNothing, Quarantine, Current, RunOf
<1>4. SeenRunIsCurrent'
  BY <1>3 DEF ClaimNothing, SeenRunIsCurrent
<1>5. SettledBeforeEnd'
  <2>1. ASSUME NEW v \in Workers, phase'[v] = "settled" PROVE StillSettled(v)
    <3>1. token[v] # NoToken /\ phase[v] = "settled"
      BY <2>1 DEF ClaimNothing, TokensDistinct
    <3>2. \A r \in Jobs : fence'[r] = token[v] => fence[r] = token[v]
      BY <3>1 DEF ClaimNothing
    <3>3. Current(v) /\ RunOf(v) # NoJob => RunOf(v) \in Jobs
      BY DEF Current, RunOf, TypeOK
    <3> QED
      BY <1>3, <3>1, <3>2, <3>3 DEF ClaimNothing, Quarantine, StillSettled
  <2> QED
    BY <2>1, SettledStays
<1> QED
  BY <1>1, <1>2, <1>4, <1>5 DEF RunsInv

LEMMA ClaimKeeps ==
    ASSUME OwnershipInv, NEW w \in Workers, NEW j \in Jobs, Taken(w, j)
    PROVE  RunsInv'
<1> USE DEF OwnershipInv, RunsInv
<1>1. EndedUnfenced'
  BY JobsAssumption DEF Taken, EndedUnfenced, TypeOK, Quarantine, Abandon, Exhausted,
     Claimable, MirrorAttached, Started, Current, RunOf, DriverOwnsRun
<1>2. DriverOwnsRun'
  BY JobsAssumption DEF Taken, DriverOwnsRun, TypeOK, Quarantine, Abandon, Exhausted,
     Claimable, MirrorAttached, Started
<1>3. SettlementAgrees'
  BY DEF Taken, SettlementAgrees, TypeOK, Quarantine, Abandon
<1>4. \A v \in Workers \ {w} :
          phase'[v] = phase[v] /\ job'[v] = job[v] /\ token'[v] = token[v]
          /\ seenRun'[v] = seenRun[v] /\ result'[v] = result[v]
  BY DEF Taken, TypeOK
<1>5. phase'[w] \in {"claimed", "cancelling"} /\ job'[w] = j /\ seenRun'[w] = run_id'[j]
  BY DEF Taken, Quarantine, TypeOK
<1>6. ASSUME NEW v \in Workers \ {w}, phase[v] # "idle", Current(v)'
      PROVE  Current(v) /\ RunOf(v)' = RunOf(v)
  <2>1. token[v] # NoToken /\ token[v] # token'[w]
    BY <1>6 DEF TokensDistinct, Taken
  <2>2. job[v] \in Jobs /\ claim_token'[job[v]] = token[v]
    BY <1>4, <1>6 DEF Current, TypeOK
  <2>3. job[v] # j /\ claim_token[job[v]] = token[v]
    BY <2>1, <2>2 DEF Taken
  <2>4. state'[job[v]] \in Active => state[job[v]] \in Active
    BY <2>2 DEF Taken, Quarantine, Abandon, TypeOK
  <2>5. leased'[job[v]] = leased[job[v]]
    BY <2>2, <2>3 DEF Taken, TypeOK
  <2> QED
    BY <1>4, <1>6, <2>3, <2>4, <2>5 DEF Taken, Quarantine, Current, RunOf
<1>7. SeenRunIsCurrent'
  BY <1>4, <1>5, <1>6 DEF SeenRunIsCurrent, RunOf
<1>8. SettledBeforeEnd'
  <2>1. ASSUME NEW v \in Workers, phase'[v] = "settled" PROVE StillSettled(v)
    <3>1. v # w /\ phase[v] = "settled" /\ token[v] # NoToken /\ token[v] # token'[w]
      BY <2>1, <1>4, <1>5 DEF TokensDistinct, Taken
    <3>2. \A r \in Jobs : fence'[r] = token[v] => fence[r] = token[v]
      BY <3>1 DEF Taken
    <3>3. Current(v) /\ RunOf(v) # NoJob => RunOf(v) \in Jobs
      BY DEF Current, RunOf, TypeOK
    <3> QED
      BY <1>4, <1>6, <3>1, <3>2, <3>3 DEF Taken, Quarantine, StillSettled
  <2> QED
    BY <2>1, SettledStays
<1> QED
  BY <1>1, <1>2, <1>3, <1>7, <1>8 DEF RunsInv

LEMMA CrashKeeps ==
    ASSUME OwnershipInv, NEW w \in Workers, Crash(w)
    PROVE  RunsInv'
<1> USE DEF OwnershipInv, RunsInv
<1>1. EndedUnfenced' /\ DriverOwnsRun' /\ SettlementAgrees'
  BY DEF Crash, EndedUnfenced, DriverOwnsRun, SettlementAgrees, Started
<1>2. SeenRunIsCurrent' /\ SettledBeforeEnd'
  BY DEF Crash, SeenRunIsCurrent, SettledBeforeEnd, TypeOK, Forget, Current, RunOf
<1> QED
  BY <1>1, <1>2 DEF RunsInv

LEMMA GiveUpKeeps ==
    ASSUME OwnershipInv, NEW w \in Workers, GiveUp(w)
    PROVE  RunsInv'
<1> USE DEF OwnershipInv, RunsInv
<1>1. EndedUnfenced' /\ DriverOwnsRun' /\ SettlementAgrees'
  BY DEF GiveUp, EndedUnfenced, DriverOwnsRun, SettlementAgrees, Started
<1>2. SeenRunIsCurrent' /\ SettledBeforeEnd'
  BY DEF GiveUp, SeenRunIsCurrent, SettledBeforeEnd, TypeOK, Forget, Current, RunOf
<1> QED
  BY <1>1, <1>2 DEF RunsInv

LEMMA WaitKeeps ==
    ASSUME OwnershipInv, NEW w \in Workers, NEW parked \in {"intake", "waiting"}, Wait(w, parked),
           phase[w] # "idle"
    PROVE  RunsInv'
<1> USE DEF OwnershipInv, RunsInv
<1>1. EndedUnfenced' /\ SettlementAgrees'
  BY DEF Wait, EndedUnfenced, SettlementAgrees, TypeOK, Forget
<1>2. SeenRunIsCurrent'
  BY DEF Wait, SeenRunIsCurrent, TypeOK, Forget, TokensDistinct, Current, RunOf
<1>3. DriverOwnsRun'
  <2>1. \A r \in Jobs : status'[r] = status[r] \/ (status[r] \in Active /\ status'[r] = "waiting")
    BY ClaimantDrives DEF Wait, TypeOK
  <2>2. \A j \in Jobs : state'[j] = state[j] \/ (state[j] \in Active /\ state'[j] \in Active)
    BY DEF Wait, Current, TypeOK
  <2>3. \A j \in Jobs : claim_token'[j] = claim_token[j] \/ claim_token'[j] = NoToken
    BY DEF Wait, TypeOK
  <2> QED
    BY <2>1, <2>2, <2>3 DEF Wait, DriverOwnsRun, Started, TypeOK
<1>4. SettledBeforeEnd'
  <2>1. ASSUME NEW v \in Workers, phase'[v] = "settled" PROVE StillSettled(v)
    <3>1. v # w /\ token[v] # NoToken
      BY <2>1 DEF Wait, Forget, TypeOK, TokensDistinct
    <3>2. Current(v)' => Current(v) /\ RunOf(v)' = RunOf(v)
      BY <2>1, <3>1 DEF Wait, Forget, TypeOK, Current, RunOf
    <3>3. \A r \in Jobs : fence'[r] = token[v] => fence[r] = token[v]
      BY <3>1 DEF Wait, TypeOK
    <3>4. /\ phase'[v] = phase[v] /\ result'[v] = result[v]
          /\ token'[v] = token[v] /\ job'[v] = job[v]
      BY <3>1 DEF Wait, Forget, TypeOK
    <3>5. Current(v) /\ RunOf(v) # NoJob => RunOf(v) \in Jobs
      BY DEF Current, RunOf, TypeOK
    <3> QED
      BY <2>1, <3>2, <3>3, <3>4, <3>5 DEF Wait, StillSettled
  <2> QED
    BY <2>1, SettledStays
<1> QED
  BY <1>1, <1>2, <1>3, <1>4 DEF RunsInv

LEMMA FailKeeps ==
    ASSUME OwnershipInv, NEW w \in Workers, NEW permanent \in BOOLEAN, Fail(w, permanent),
           phase[w] # "idle"
    PROVE  RunsInv'
<1> USE DEF OwnershipInv, RunsInv
<1>1. EndedUnfenced' /\ SeenRunIsCurrent' /\ SettlementAgrees'
  <2>1. EndedUnfenced'
    BY DEF Fail, EndedUnfenced, TypeOK, Abandon, Started
  <2>2. SeenRunIsCurrent'
    <3> SUFFICES ASSUME NEW v \in Workers, phase'[v] # "idle", Current(v)'
                 PROVE  /\ seenRun'[v] \in {NoJob, RunOf(v)'}
                        /\ phase'[v] \in {"claimed", "cancelling", "analysis"} => seenRun'[v] = RunOf(v)'
      BY DEF SeenRunIsCurrent
    <3>1. v # w
      BY DEF Fail, Forget, TypeOK
    <3>2. /\ phase'[v] = phase[v] /\ seenRun'[v] = seenRun[v]
          /\ token'[v] = token[v] /\ job'[v] = job[v] /\ run_id' = run_id
      BY <3>1 DEF Fail, Forget, TypeOK
    <3>3. \A i \in Jobs : claim_token'[i] # NoToken =>
              /\ i # job[w] /\ claim_token'[i] = claim_token[i] /\ leased'[i] = leased[i]
      <4>1. /\ claim_token' = [claim_token EXCEPT ![job[w]] = NoToken]
            /\ leased' = [leased EXCEPT ![job[w]] = FALSE]
        BY DEF Fail
      <4>2. claim_token \in [Jobs -> Tokens \cup {NoToken}] /\ leased \in [Jobs -> BOOLEAN]
        BY DEF TypeOK
      <4> HIDE DEF OwnershipInv, RunsInv
      <4> QED
        BY <4>1, <4>2
    <3>4. \A i \in Jobs \ {job[w]} : state'[i] \in Active => state[i] \in Active
      <4>1. state \in [Jobs -> JobStates]
        BY DEF TypeOK
      <4>2. \/ \E D \in SUBSET Jobs :
                  state' = [i \in Jobs |-> IF i \in D THEN "dead_letter" ELSE state[i]]
            \/ state' = [state EXCEPT ![job[w]] = seenState[w]]
        <5> HIDE DEF OwnershipInv, RunsInv
        <5> DEFINE dying == {r \in Started \cap ({seenRun[w]} \ {NoJob}) : status[r] \in Active}
                   D == Jobs \cap ({job[w]} \cup MirrorAttached(dying))
        <5>1. CASE permanent \/ attempt[job[w]] >= MaxAttempts
          <6>1. Abandon({job[w]}, {seenRun[w]} \ {NoJob})
            BY <5>1 DEF Fail
          <6>2. state' = [i \in Jobs |-> IF i \in D THEN "dead_letter" ELSE state[i]]
            BY <6>1 DEF Abandon
          <6> QED
            BY <6>2
        <5>2. CASE ~(permanent \/ attempt[job[w]] >= MaxAttempts)
          BY <5>2 DEF Fail
        <5> QED
          BY <5>1, <5>2
      <4> HIDE DEF OwnershipInv, RunsInv
      <4> QED
        BY <4>1, <4>2
    <3>5. job[v] \in Jobs /\ token[v] # NoToken
      BY <3>2 DEF TokensDistinct, TypeOK
    <3>6. Current(v) /\ RunOf(v)' = RunOf(v)
      BY <3>2, <3>3, <3>4, <3>5 DEF Current, RunOf
    <3> QED
      BY <3>2, <3>6 DEF SeenRunIsCurrent
  <2>3. SettlementAgrees'
    BY DEF Fail, SettlementAgrees, TypeOK, Abandon, Started
  <2> QED
    BY <2>1, <2>2, <2>3
<1>2. DriverOwnsRun'
  <2> DEFINE j == job[w]
  <2>1. /\ j \in Jobs /\ ~attached[j] /\ state[j] \in Active
        /\ run_id[j] \in {NoJob, j} /\ seenRun[w] \in {NoJob, j}
    BY ClaimantDrives DEF Fail, Current, RunOf
  <2>2. \A i \in Jobs : claim_token'[i] \in {claim_token[i], NoToken}
    BY DEF Fail, TypeOK
  <2>3. CASE permanent \/ attempt[j] >= MaxAttempts
    <3> DEFINE dying == {r \in Started \cap ({seenRun[w]} \ {NoJob}) : status[r] \in Active}
    <3>1. dying \subseteq {j}
      BY <2>1
    <3>2. \A r \in Jobs : status'[r] = IF r \in dying THEN "dead_letter" ELSE status[r]
      BY <2>3 DEF Fail, Abandon
    <3>3. \A i \in Jobs : state'[i] = IF i \in {j} \cup MirrorAttached(dying)
                                      THEN "dead_letter" ELSE state[i]
      BY <2>3 DEF Fail, Abandon
    <3>4. \A i \in MirrorAttached(dying) : attached[i] /\ run_id[i] \in dying /\ i \in Jobs
      BY DEF MirrorAttached
    <3>5. run_id' = run_id /\ attached' = attached
      BY DEF Fail
    <3> HIDE DEF dying
    <3> QED
      BY <2>1, <2>2, <3>1, <3>2, <3>3, <3>4, <3>5 DEF DriverOwnsRun, Started, TypeOK
  <2>4. CASE ~(permanent \/ attempt[j] >= MaxAttempts)
    <3>1. \A i \in Jobs : state'[i] = state[i] \/ (state[i] \in Active /\ state'[i] \in Active)
      BY <2>1, <2>4 DEF Fail, TokensDistinct, TypeOK
    <3> QED
      BY <2>2, <2>4, <3>1 DEF Fail, DriverOwnsRun, Started
  <2> QED
    BY <2>3, <2>4
<1>3. SettledBeforeEnd'
  <2>1. ASSUME NEW v \in Workers, phase'[v] = "settled" PROVE StillSettled(v)
    <3>1. v # w /\ token[v] # NoToken
      BY <2>1 DEF Fail, Forget, TypeOK, TokensDistinct
    <3>2. Current(v)' => job[v] # job[w]
      BY <2>1, <3>1 DEF Fail, Forget, TypeOK, Current
    <3>3. Current(v)' => Current(v) /\ RunOf(v)' = RunOf(v)
      <4>1. \A i \in Jobs \ {job[w]} : state'[i] \in Active => state[i] \in Active
        <5>1. CASE permanent \/ attempt[job[w]] >= MaxAttempts
          BY <5>1 DEF Fail, Abandon
        <5>2. CASE ~(permanent \/ attempt[job[w]] >= MaxAttempts)
          BY <5>2 DEF Fail, TypeOK
        <5> QED
          BY <5>1, <5>2
      <4> QED
        BY <2>1, <3>1, <3>2, <4>1 DEF Fail, Forget, TypeOK, Current, RunOf
    <3>4. \A r \in Jobs : fence'[r] = token[v] => fence[r] = token[v]
      BY <3>1 DEF Fail, TypeOK
    <3>5. /\ phase'[v] = phase[v] /\ result'[v] = result[v]
          /\ token'[v] = token[v] /\ job'[v] = job[v]
      BY <3>1 DEF Fail, Forget, TypeOK
    <3>6. Current(v) /\ RunOf(v) # NoJob => RunOf(v) \in Jobs
      BY DEF Current, RunOf, TypeOK
    <3> QED
      BY <2>1, <3>3, <3>4, <3>5, <3>6 DEF Fail, StillSettled
  <2> QED
    BY <2>1, SettledStays
<1> QED
  BY <1>1, <1>2, <1>3 DEF RunsInv

LEMMA StartIntakeKeeps ==
    ASSUME OwnershipInv, NEW w \in Workers, StartIntake(w)
    PROVE  RunsInv'
<1> USE DEF OwnershipInv, RunsInv
<1>1. EndedUnfenced' /\ DriverOwnsRun' /\ SeenRunIsCurrent' /\ SettledBeforeEnd' /\ SettlementAgrees'
  BY DEF StartIntake, EndedUnfenced, DriverOwnsRun, SeenRunIsCurrent, SettledBeforeEnd,
     SettlementAgrees, Started, Current, RunOf
<1> QED
  BY <1>1 DEF RunsInv

LEMMA ServeStoredKeeps ==
    ASSUME OwnershipInv, NEW w \in Workers, ServeStored(w)
    PROVE  RunsInv'
<1> USE DEF OwnershipInv, RunsInv
<1>1. EndedUnfenced' /\ SettlementAgrees'
  BY DEF ServeStored, EndedUnfenced, SettlementAgrees
<1>2. DriverOwnsRun'
  BY DEF ServeStored, DriverOwnsRun, TypeOK, Forget, Servable, IntakeOwned, Started
<1>3. SeenRunIsCurrent' /\ SettledBeforeEnd'
  BY DEF ServeStored, SeenRunIsCurrent, SettledBeforeEnd, TypeOK, Forget, Current, RunOf
<1> QED
  BY <1>1, <1>2, <1>3 DEF RunsInv

LEMMA RefuseQuotaKeeps ==
    ASSUME OwnershipInv, NEW w \in Workers, RefuseQuota(w)
    PROVE  RunsInv'
<1> USE DEF OwnershipInv, RunsInv
<1>1. EndedUnfenced' /\ DriverOwnsRun' /\ SettlementAgrees'
  BY DEF RefuseQuota, EndedUnfenced, DriverOwnsRun, SettlementAgrees, Started
<1>2. SeenRunIsCurrent' /\ SettledBeforeEnd'
  BY DEF RefuseQuota, SeenRunIsCurrent, SettledBeforeEnd, TypeOK, Forget, Current, RunOf
<1> QED
  BY <1>1, <1>2 DEF RunsInv

LEMMA AttachToRunKeeps ==
    ASSUME OwnershipInv, NEW w \in Workers, AttachToRun(w)
    PROVE  RunsInv'
<1> USE DEF OwnershipInv, RunsInv
<1>1. EndedUnfenced' /\ SeenRunIsCurrent' /\ SettledBeforeEnd'
  <2>1. EndedUnfenced'
    BY DEF AttachToRun, EndedUnfenced, TypeOK, IntakeOwned
  <2>2. SeenRunIsCurrent'
    BY DEF AttachToRun, SeenRunIsCurrent, TypeOK, Forget, Current, RunOf
  <2>3. SettledBeforeEnd'
    BY DEF AttachToRun, SettledBeforeEnd, TypeOK, Forget, Current, RunOf
  <2> QED
    BY <2>1, <2>2, <2>3
<1>2. DriverOwnsRun'
  BY DEF AttachToRun, DriverOwnsRun, TypeOK, Forget, Attachable, IntakeOwned, Subscribe,
     Started
<1>3. SettlementAgrees'
  BY DEF AttachToRun, SettlementAgrees
<1> QED
  BY <1>1, <1>2, <1>3 DEF RunsInv

LEMMA StartRunKeeps ==
    ASSUME OwnershipInv, NEW w \in Workers, StartRun(w)
    PROVE  RunsInv'
<1> USE DEF OwnershipInv, RunsInv
<1>1. EndedUnfenced' /\ DriverOwnsRun'
  BY DEF StartRun, EndedUnfenced, DriverOwnsRun, TypeOK, Started
<1>2. SettlementAgrees'
  BY DEF StartRun, SettlementAgrees
<1>3. Current(w) /\ phase[w] = "intake" /\ job[w] \notin Started
  BY DEF StartRun, IntakeOwned
<1>4. seenRun[w] = NoJob
  BY <1>3, ClaimantDrives DEF DriverOwnsRun, RunOf, Current
<1>5. \A v \in Workers \ {w} : Current(v) => job[v] # job[w]
  BY <1>3 DEF TokensDistinct, Current
<1>6. \A v \in Workers \ {w} : Current(v)' => Current(v) /\ RunOf(v)' = RunOf(v)
  <2>1. ASSUME NEW v \in Workers \ {w}, Current(v)' PROVE Current(v)
    BY <1>3, <2>1 DEF StartRun, Current, TypeOK
  <2> QED
    BY <1>5, <2>1 DEF StartRun, RunOf, Current, TypeOK
<1>7. SeenRunIsCurrent'
  BY <1>4, <1>6 DEF StartRun, SeenRunIsCurrent, TypeOK
<1>8. SettledBeforeEnd'
  <2>1. ASSUME NEW v \in Workers, phase'[v] = "settled" PROVE StillSettled(v)
    <3>1. v # w /\ phase[v] = "settled" /\ token[v] # token[w]
      BY <2>1, <1>3 DEF StartRun, TypeOK, TokensDistinct
    <3>2. \A r \in Jobs : fence'[r] = token[v] => fence[r] = token[v]
      BY <3>1 DEF StartRun, TypeOK
    <3>3. Current(v) /\ RunOf(v) # NoJob => RunOf(v) \in Jobs
      BY DEF Current, RunOf, TypeOK
    <3> QED
      BY <1>6, <3>1, <3>2, <3>3 DEF StartRun, StillSettled
  <2> QED
    BY <2>1, SettledStays
<1> QED
  BY <1>1, <1>2, <1>7, <1>8 DEF RunsInv

LEMMA BeginAnalysisKeeps ==
    ASSUME OwnershipInv, NEW w \in Workers, BeginAnalysis(w)
    PROVE  RunsInv'
<1> USE DEF OwnershipInv, RunsInv
<1>1. EndedUnfenced' /\ SeenRunIsCurrent' /\ SettledBeforeEnd' /\ SettlementAgrees'
  BY DEF BeginAnalysis, EndedUnfenced, SeenRunIsCurrent, SettledBeforeEnd,
     SettlementAgrees, Current, RunOf
<1>2. DriverOwnsRun'
  <2>1. \A r \in Jobs : status'[r] = status[r] \/ (status[r] \in Active /\ status'[r] = "analysis")
    BY DEF BeginAnalysis, EndedUnfenced, TypeOK, TokensDistinct
  <2>2. \A j \in Jobs : state'[j] = state[j] \/ (state[j] \in Active /\ state'[j] \in Active)
    BY DEF BeginAnalysis, TypeOK
  <2> QED
    BY <2>1, <2>2 DEF BeginAnalysis, DriverOwnsRun, Started, TypeOK
<1> QED
  BY <1>1, <1>2 DEF RunsInv

LEMMA ReadJobKeeps ==
    ASSUME OwnershipInv, NEW w \in Workers, ReadJob(w)
    PROVE  RunsInv'
<1> USE DEF OwnershipInv, RunsInv
<1>1. EndedUnfenced' /\ DriverOwnsRun' /\ SettledBeforeEnd' /\ SettlementAgrees'
  BY DEF ReadJob, EndedUnfenced, DriverOwnsRun, SettledBeforeEnd, SettlementAgrees,
     Started, Current, RunOf
<1>2. SeenRunIsCurrent'
  BY DEF ReadJob, SeenRunIsCurrent, TypeOK, Current, RunOf
<1> QED
  BY <1>1, <1>2 DEF RunsInv

LEMMA SettleKeeps ==
    ASSUME OwnershipInv, NEW w \in Workers, Settle(w)
    PROVE  RunsInv'
<1> USE DEF OwnershipInv, RunsInv
<1>1. EndedUnfenced' /\ DriverOwnsRun' /\ SeenRunIsCurrent'
  BY DEF Settle, EndedUnfenced, DriverOwnsRun, SeenRunIsCurrent, Started, Current, RunOf
<1>2. SettledBeforeEnd'
  BY DEF Settle, SettledBeforeEnd, TypeOK, RunFence, SeesCancel, TokensDistinct,
     Current, RunOf
<1>3. SettlementAgrees'
  BY DEF Settle, SettlementAgrees, TypeOK, RunFence, SeesCancel, Current, RunOf,
     EndedUnfenced
<1> QED
  BY <1>1, <1>2, <1>3 DEF RunsInv

LEMMA CancelBeforeStartKeeps ==
    ASSUME OwnershipInv, NEW w \in Workers, CancelBeforeStart(w)
    PROVE  RunsInv'
<1> USE DEF OwnershipInv, RunsInv
<1>1. EndedUnfenced' /\ DriverOwnsRun' /\ SeenRunIsCurrent'
  <2>1. \A v \in Workers : phase'[v] = phase[v] \/ (v = w /\ phase'[v] = "settled")
    BY DEF CancelBeforeStart, TypeOK
  <2>2. phase[w] # "idle"
    BY DEF CancelBeforeStart, SeesCancel
  <2> QED
    BY <2>1, <2>2 DEF CancelBeforeStart, EndedUnfenced, DriverOwnsRun, SeenRunIsCurrent,
                      Started, Current, RunOf
<1>2. SettlementAgrees'
  BY DEF CancelBeforeStart, SettlementAgrees, TypeOK
<1>3. SettledBeforeEnd'
  <2>1. seenRun[w] = RunOf(w)
    BY DEF CancelBeforeStart, SeesCancel, SeenRunIsCurrent
  <2>2. ~attached[job[w]]
    BY DEF CancelBeforeStart, SeesCancel, EndedUnfenced, TokensDistinct, Current, TypeOK
  <2>3. RunOf(w) # NoJob => RunOf(w) \in Started /\ fence[RunOf(w)] = token[w]
    BY <2>1 DEF CancelBeforeStart, DriverOwnsRun, Current, RunOf, RunFence, TypeOK
  <2>4. RunOf(w) # NoJob => settlement'[RunOf(w)] # "none"
    BY <2>1, <2>3 DEF CancelBeforeStart, Current, RunOf, TypeOK
  <2>5. ASSUME NEW v \in Workers \ {w}, phase'[v] = "settled" PROVE StillSettled(v)
    <3>1. token[v] # NoToken /\ token[v] # token[w] /\ phase[v] = "settled"
      BY <2>5 DEF CancelBeforeStart, TypeOK, TokensDistinct
    <3>2. \A r \in Jobs : fence[r] = token[v] => settlement'[r] = settlement[r]
      <4>1. CASE seenRun[w] \in Started
        <5>1. fence[seenRun[w]] = token[w]
          BY <4>1 DEF CancelBeforeStart, RunFence
        <5>2. \A r \in Jobs \ {seenRun[w]} : settlement'[r] = settlement[r]
          BY <4>1 DEF CancelBeforeStart, TypeOK
        <5> QED
          BY <3>1, <5>1, <5>2
      <4>2. CASE seenRun[w] \notin Started
        BY <4>2 DEF CancelBeforeStart
      <4> QED
        BY <4>1, <4>2
    <3> QED
      BY <2>5, <3>1, <3>2 DEF CancelBeforeStart, StillSettled, TypeOK, Current, RunOf
  <2>6. ASSUME NEW v \in Workers \ {w}, phase'[v] = "settled" PROVE SettledFor(v)'
    BY <2>6, <2>5 DEF StillSettled, SettledBeforeEnd, SettledFor
  <2>7. SettledFor(w)'
    BY <2>4 DEF CancelBeforeStart, SettledFor, Current, RunOf, TypeOK
  <2> QED
    BY <2>6, <2>7 DEF SettledBeforeEnd, SettledFor
<1> QED
  BY <1>1, <1>2, <1>3 DEF RunsInv

LEMMA FinishJobKeeps ==
    ASSUME OwnershipInv, NEW w \in Workers, FinishJob(w)
    PROVE  RunsInv'
<1> USE DEF OwnershipInv, RunsInv
<1>1. EndedUnfenced'
  BY DEF FinishJob, EndedUnfenced
<1>2. SeenRunIsCurrent'
  BY DEF FinishJob, SeenRunIsCurrent, TypeOK, Forget, Current, RunOf
<1>3. SettlementAgrees'
  BY DEF FinishJob, SettlementAgrees, TypeOK, Forget, MirrorAttached, Current, RunOf,
     SettledBeforeEnd
<1>4. DriverOwnsRun'
  <2> DEFINE j == job[w]
             ended == {q \in {RunOf(w)} \ {NoJob} : fence[q] = token[w]}
  <2>1. j \in Jobs /\ ~attached[j] /\ run_id[j] \in {NoJob, j} /\ ended \subseteq {j}
    BY ClaimantDrives DEF FinishJob, RunOf
  <2>6. result[w] \in Outcomes \cup {"cancelled"}
    BY DEF FinishJob, SettledBeforeEnd, TypeOK
  <2>2. PICK outcome \in Outcomes \cup {"cancelled"} :
            /\ status' = [q \in Jobs |-> IF q \in ended THEN outcome ELSE status[q]]
            /\ state' = [i \in Jobs |->
                            IF i = j THEN IF detached[j] THEN "cancelled" ELSE outcome
                            ELSE IF i \in MirrorAttached(ended) THEN outcome ELSE state[i]]
    BY <2>6 DEF FinishJob
  <2>3. \A i \in MirrorAttached(ended) : attached[i] /\ i \in Jobs
    BY DEF MirrorAttached
  <2>4. \A i \in Jobs : claim_token'[i] \in {claim_token[i], NoToken}
    BY DEF FinishJob, TypeOK
  <2>5. run_id' = run_id /\ attached' = attached
    BY DEF FinishJob
  <2> HIDE DEF ended
  <2> QED
    BY <2>1, <2>2, <2>3, <2>4, <2>5 DEF DriverOwnsRun, Started, TypeOK
<1>5. SettledBeforeEnd'
  <2>1. ASSUME NEW v \in Workers, phase'[v] = "settled" PROVE StillSettled(v)
    <3>1. v # w /\ token[v] # NoToken /\ token[v] # token[w]
      BY <2>1 DEF FinishJob, Forget, TypeOK, TokensDistinct
    <3>2. Current(v)' => job[v] # job[w]
      BY <2>1, <3>1 DEF FinishJob, Forget, TypeOK, Current
    <3>3. Current(v)' => Current(v) /\ RunOf(v)' = RunOf(v)
      BY <2>1, <3>1, <3>2 DEF FinishJob, Forget, MirrorAttached, TypeOK, Current, RunOf
    <3>4. \A r \in Jobs : fence'[r] = token[v] =>
              fence[r] = token[v] /\ settlement'[r] = settlement[r]
      BY <3>1 DEF FinishJob, TypeOK
    <3>5. /\ phase'[v] = phase[v] /\ result'[v] = result[v]
          /\ token'[v] = token[v] /\ job'[v] = job[v]
      BY <3>1 DEF FinishJob, Forget, TypeOK
    <3>6. Current(v) /\ RunOf(v) # NoJob => RunOf(v) \in Jobs
      BY DEF Current, RunOf, TypeOK
    <3> QED
      BY <2>1, <3>3, <3>4, <3>5, <3>6 DEF StillSettled
  <2> QED
    BY <2>1, SettledStays
<1> QED
  BY <1>1, <1>2, <1>3, <1>4, <1>5 DEF RunsInv

LEMMA InitOwned == Init => OwnershipInv
BY InitTyped DEF Init, OwnershipInv, TokensDistinct, RunsInv, EndedUnfenced, DriverOwnsRun,
                 SeenRunIsCurrent, SettledBeforeEnd, SettlementAgrees

LEMMA ProceedKeeps ==
    ASSUME OwnershipInv, NEW w \in Workers, Proceed(w)
    PROVE  RunsInv'
<1>1. CASE RefusePaid(w) \/ ReadFails(w) \/ WorkerFails(w)
  <2>1. phase[w] # "idle"
    BY <1>1 DEF RefusePaid, ReadFails, WorkerFails
  <2>2. Fail(w, TRUE) \/ Fail(w, FALSE)
    BY <1>1 DEF RefusePaid, ReadFails, WorkerFails
  <2> QED
    BY <2>1, <2>2, FailKeeps
<1>2. CASE BreakerWait(w) \/ SourceBusy(w) \/ ProviderWait(w)
  <2>1. phase[w] # "idle"
    BY <1>2 DEF BreakerWait, SourceBusy, ProviderWait
  <2>2. Wait(w, "intake") \/ Wait(w, "waiting")
    BY <1>2 DEF BreakerWait, SourceBusy, ProviderWait
  <2> QED
    BY <2>1, <2>2, WaitKeeps
<1> QED
  BY <1>1, <1>2, GiveUpKeeps, StartIntakeKeeps, ServeStoredKeeps, RefuseQuotaKeeps,
     AttachToRunKeeps, StartRunKeeps, BeginAnalysisKeeps, ReadJobKeeps, SettleKeeps,
     CancelBeforeStartKeeps, FinishJobKeeps
     DEF Proceed, CommitIntake

LEMMA NextOwned == OwnershipInv /\ [Next]_vars => OwnershipInv'
<1> SUFFICES ASSUME OwnershipInv, [Next]_vars PROVE OwnershipInv'
  OBVIOUS
<1>1. TypeOK' /\ TokensDistinct'
  BY NextTyped, TokensDistinctStep DEF OwnershipInv
<1>2. RunsInv'
  <2>1. CASE \E j \in Jobs : User(j) \/ LeaseLapses(j)
    BY <2>1, EnqueueKeeps, DetachKeeps, FlagCancelKeeps, CancelUnclaimedKeeps,
       LeaseLapsesKeeps DEF User, RequestCancel
  <2>2. CASE \E w \in Workers : Idle(w) \/ Crash(w)
    <3>1. ASSUME NEW w \in Workers, Claim(w) PROVE RunsInv'
      BY <3>1, ClaimTakes, ClaimKeeps DEF OwnershipInv
    <3> QED
      BY <2>2, <3>1, ReconcileAttachedKeeps, ClaimNothingKeeps, CrashKeeps DEF Idle
  <2>3. CASE \E w \in Workers : Proceed(w)
    BY <2>3, ProceedKeeps
  <2>4. CASE \E D \in SUBSET Jobs : ExpireDeadLetters(D)
    BY <2>4, ExpireDeadLettersKeeps
  <2>5. CASE UNCHANGED vars
    BY <2>5 DEF vars, OwnershipInv, RunsInv, EndedUnfenced, DriverOwnsRun,
                SeenRunIsCurrent, SettledBeforeEnd, SettlementAgrees, Started, Current, RunOf
  <2> QED
    BY <2>1, <2>2, <2>3, <2>4, <2>5 DEF Next
<1> QED
  BY <1>1, <1>2 DEF OwnershipInv

\* The inductive invariant, for any number of jobs, workers and retries.
THEOREM Ownership == Spec => []OwnershipInv
<1>1. Init => OwnershipInv
  BY InitOwned
<1>2. OwnershipInv /\ [Next]_vars => OwnershipInv'
  BY NextOwned
<1> QED
  BY <1>1, <1>2, PTL DEF Spec

\* No two workers ever pass the fence of one run, so of two that believe they hold a
\* job only one can checkpoint, settle or end its run (require_run_fence).
THEOREM FenceIsExclusive == Spec => []FenceExclusive
<1>1. OwnershipInv => FenceExclusive
  <2> SUFFICES ASSUME TokensDistinct, NEW r \in Jobs, NEW v \in Workers, NEW w \in Workers,
                      RunFence(v, r), RunFence(w, r)
               PROVE  v = w
    BY DEF OwnershipInv, FenceExclusive
  <2>1. token[v] # NoToken /\ token[v] = token[w]
    BY DEF RunFence
  <2> QED
    BY <2>1 DEF TokensDistinct
<1> QED
  BY <1>1, Ownership, PTL

\* A run that ended with a result or cancelled is settled as exactly that: the money
\* ledger and the run row agree through every crash, reclaim and late cancel.
THEOREM SettlementsAgree == Spec => []SettlementAgrees
<1>1. OwnershipInv => SettlementAgrees
  BY DEF OwnershipInv, RunsInv
<1> QED
  BY <1>1, Ownership, PTL

-----------------------------------------------------------------------------
(* Who is told "cancelled", and whose reservation settles, failing reads      *)
(* included.                                                                  *)

\* A worker reports a cancel only if one was asked for.
CancelsAreAsked ==
    \A w \in Workers :
        /\ phase[w] # "settled" => result[w] = "none"
        /\ phase[w] = "cancelling" \/ result[w] = "cancelled" => cancel_requested[job[w]]

\* Who attached, left or started a run has subscribed; who attached never started one of
\* its own, and an active subscriber names a run.
SubscribersStay ==
    \A j \in Jobs :
        /\ attached[j] \/ detached[j] \/ status[j] # "none" => reservation[j] # "none"
        /\ attached[j] => status[j] = "none" /\ run_id[j] # NoJob
        /\ reservation[j] # "none" => state[j] # "none"
        /\ reservation[j] # "none" /\ state[j] \in Active => run_id[j] # NoJob

\* A reservation settles only for the run it was held for, once that has ended, and only
\* the payer's: of all who subscribed to one run, at most one is ever charged.
SettledByPayer ==
    \A j \in Jobs : reservation[j] = "settled" =>
        /\ run_id[j] \in Started
        /\ status[run_id[j]] \notin Active
        /\ payer[run_id[j]] = j

\* A live run whose driver was told to stop has no other subscriber that stayed.
StoppedAlone ==
    \A r \in Jobs : status[r] \in Active /\ cancel_requested[r] => LiveSubscribers(r) \subseteq {r}

\* An attached job that is still waiting has not left, holds its reservation while the
\* run lives, and outlives a cancelled run only if it asked for a cancel itself.
AttachedStay ==
    \A i \in Jobs : attached[i] /\ state[i] \in Active =>
        /\ ~detached[i]
        /\ status[run_id[i]] \in Active => reservation[i] = "held"
        /\ state[i] = "waiting" /\ status[run_id[i]] = "cancelled" => cancel_requested[i]

TellInv == SubscribersStay /\ SettledByPayer /\ StoppedAlone /\ AttachedStay

CancelInv == OwnershipInv /\ CancelsAreAsked /\ TellInv

NobodyTold ==
    \A j \in Jobs : attached[j] /\ state[j] = "waiting" /\ state'[j] = "cancelled" => detached'[j]

LEMMA RunsAreJobs ==
    ASSUME OwnershipInv, NEW i \in Jobs, run_id[i] # NoJob
    PROVE  run_id[i] \in Jobs /\ run_id[i] \in Started
BY DEF OwnershipInv, RunsInv, DriverOwnsRun, Started

\* What a step that asks for no cancel, lets nobody in and ends runs cancelled only when
\* no attached job waits for them, may do to a job ...
MildJob(i) ==
    /\ \/ state'[i] = state[i]
       \/ /\ state'[i] # "none"
          /\ attached[i] => state'[i] \notin Active \cup {"cancelled"}
          /\ state'[i] \in Active => state[i] \in Active \/ reservation[i] = "none"
    /\ \/ run_id'[i] = run_id[i]
       \/ ~attached[i] /\ state'[i] \notin Active /\ reservation[i] # "settled"
    /\ \/ reservation'[i] = reservation[i]
       \/ /\ reservation[i] = "held" /\ run_id'[i] = run_id[i]
          /\ run_id[i] \in Started /\ status'[run_id[i]] \notin Active
          /\ \/ reservation'[i] = "released"
             \/ reservation'[i] = "settled" /\ payer[run_id[i]] = i

\* ... and to a run.
MildRun(r) ==
    \/ status'[r] = status[r]
    \/ /\ status[r] # "none" /\ status'[r] # "none"
       /\ status'[r] \in Active => status[r] \in Active
       /\ status'[r] = "cancelled" =>
              \A k \in Jobs : attached[k] /\ state[k] \in Active => run_id[k] # r

Mild ==
    /\ UNCHANGED <<attached, cancel_requested, detached, payer>>
    /\ \A i \in Jobs : MildJob(i) /\ MildRun(i)

LEMMA MildTells ==
    ASSUME CancelInv, Mild
    PROVE  TellInv' /\ NobodyTold
<1> USE DEF CancelInv, TellInv
<1>1. UNCHANGED <<attached, cancel_requested, detached, payer>>
  BY DEF Mild
<1>2. ASSUME NEW i \in Jobs
      PROVE  /\ attached[i] => run_id'[i] = run_id[i]
             /\ attached[i] /\ state'[i] \in Active => state'[i] = state[i]
             /\ reservation'[i] = "none" <=> reservation[i] = "none"
             /\ status'[i] = "none" <=> status[i] = "none"
             /\ status'[i] \in Active => status[i] \in Active
             /\ reservation'[i] = "held" => reservation[i] = "held"
             /\ reservation'[i] # reservation[i] =>
                    run_id'[i] = run_id[i] /\ run_id[i] \in Started /\ status'[run_id[i]] \notin Active
  BY DEF Mild, MildJob, MildRun
<1>3. SubscribersStay'
  <2> SUFFICES ASSUME NEW i \in Jobs
               PROVE  /\ attached'[i] \/ detached'[i] \/ status'[i] # "none" => reservation'[i] # "none"
                      /\ attached'[i] => status'[i] = "none" /\ run_id'[i] # NoJob
                      /\ reservation'[i] # "none" => state'[i] # "none"
                      /\ reservation'[i] # "none" /\ state'[i] \in Active => run_id'[i] # NoJob
    BY DEF SubscribersStay
  <2>1. reservation[i] # "none" => state'[i] # "none"
    BY DEF Mild, MildJob, SubscribersStay
  <2>2. reservation[i] # "none" /\ state'[i] \in Active => run_id'[i] = run_id[i] /\ state[i] \in Active
    BY DEF Mild, MildJob
  <2> QED
    BY <1>1, <1>2, <2>1, <2>2 DEF SubscribersStay
<1>4. SettledByPayer'
  <2> SUFFICES ASSUME NEW i \in Jobs, reservation'[i] = "settled"
               PROVE  /\ run_id'[i] \in Jobs /\ status'[run_id'[i]] # "none"
                      /\ status'[run_id'[i]] \notin Active
                      /\ payer'[run_id'[i]] = i
    BY DEF SettledByPayer, Started
  <2>1. CASE reservation[i] = "settled"
    <3>1. run_id'[i] = run_id[i]
      BY <2>1 DEF Mild, MildJob
    <3> QED
      BY <2>1, <3>1, <1>1, <1>2 DEF SettledByPayer, Started
  <2>2. CASE reservation[i] # "settled"
    <3>1. /\ run_id'[i] = run_id[i] /\ run_id[i] \in Started
          /\ status'[run_id[i]] \notin Active /\ payer[run_id[i]] = i
      BY <2>2 DEF Mild, MildJob
    <3> QED
      BY <3>1, <1>1, <1>2 DEF Started
  <2> QED
    BY <2>1, <2>2
<1>5. StoppedAlone'
  <2> SUFFICES ASSUME NEW r \in Jobs, status'[r] \in Active, cancel_requested[r],
                      NEW i \in Jobs, run_id'[i] = r, reservation'[i] = "held", ~detached[i],
                      state'[i] \in Active
               PROVE  i = r
    BY <1>1 DEF StoppedAlone, LiveSubscribers
  <2>1. reservation[i] = "held" /\ state[i] \in Active /\ run_id[i] = r
    BY <1>2 DEF Mild, MildJob
  <2> QED
    BY <1>2, <2>1 DEF StoppedAlone, LiveSubscribers
<1>6. AttachedStay'
  <2> SUFFICES ASSUME NEW i \in Jobs, attached[i], state'[i] \in Active
               PROVE  /\ ~detached[i]
                      /\ status'[run_id'[i]] \in Active => reservation'[i] = "held"
                      /\ state'[i] = "waiting" /\ status'[run_id'[i]] = "cancelled"
                             => cancel_requested[i]
    BY <1>1 DEF AttachedStay
  <2>1. state'[i] = state[i] /\ run_id'[i] = run_id[i]
    BY <1>2
  <2>2. run_id[i] \in Jobs
    BY RunsAreJobs DEF SubscribersStay
  <2>3. status'[run_id[i]] \in Active => status[run_id[i]] \in Active /\ reservation'[i] = reservation[i]
    BY <1>2, <2>2
  <2>4. status'[run_id[i]] = "cancelled" => status[run_id[i]] = "cancelled"
    BY <2>1, <2>2 DEF Mild, MildRun
  <2> QED
    BY <2>1, <2>3, <2>4 DEF AttachedStay
<1>7. NobodyTold
  BY DEF NobodyTold, Mild, MildJob
<1> QED
  BY <1>3, <1>4, <1>5, <1>6, <1>7

\* A step that leaves the database alone, or takes only leases from it.
LEMMA StillIsMild ==
    ASSUME UNCHANGED <<state, run_id, attached, cancel_requested, status, payer, subVars>>
    PROVE  Mild
BY DEF Mild, MildJob, MildRun, subVars

LEMMA EnqueueIsMild ==
    ASSUME CancelInv, NEW j \in Jobs, Enqueue(j)
    PROVE  Mild
<1>1. /\ UNCHANGED <<run_id, attached, cancel_requested, status, payer, reservation, detached>>
      /\ \A i \in Jobs : state'[i] = IF i = j THEN "intake" ELSE state[i]
  BY DEF Enqueue, runVars, subVars, CancelInv, OwnershipInv, TypeOK
<1>2. reservation[j] = "none" /\ ~attached[j]
  BY DEF Enqueue, CancelInv, TellInv, SubscribersStay
<1> QED
  BY <1>1, <1>2 DEF Mild, MildJob, MildRun

LEMMA ExpireIsMild ==
    ASSUME NEW D \in SUBSET Jobs, ExpireDeadLetters(D)
    PROVE  Mild
<1>1. UNCHANGED <<run_id, attached, cancel_requested, payer, reservation, detached>>
  BY DEF ExpireDeadLetters, subVars
<1>2. /\ \A i \in Jobs : state'[i] = state[i] \/ state'[i] = "failed"
      /\ \A r \in Jobs : status'[r] = status[r] \/ (status[r] # "none" /\ status'[r] = "failed")
  BY DEF ExpireDeadLetters
<1> QED
  BY <1>1, <1>2 DEF Mild, MildJob, MildRun

\* Runs that die take their subscriptions and attached jobs with them, never as cancelled.
LEMMA AbandonIsMild ==
    ASSUME CancelInv, NEW Q \in SUBSET Jobs, \A q \in Q : ~attached[q], NEW R, Abandon(Q, R),
           UNCHANGED <<run_id, attached, cancel_requested, detached, payer>>
    PROVE  Mild
<1> DEFINE dying == {r \in Started \cap R : status[r] \in Active}
<1>1. /\ \A r \in Jobs : status'[r] = IF r \in dying THEN "dead_letter" ELSE status[r]
      /\ \A i \in Jobs : reservation'[i] = IF run_id[i] \in dying /\ reservation[i] = "held"
                                           THEN IF payer[run_id[i]] = i THEN "settled" ELSE "released"
                                           ELSE reservation[i]
      /\ \A i \in Jobs : state'[i] \in {state[i], "dead_letter"}
  BY DEF Abandon, CloseSubscriptions
<1>2. \A r \in dying : r \in Jobs /\ r \in Started /\ status[r] \in Active
  BY DEF Started
<1> HIDE DEF dying
<1>3. ASSUME NEW i \in Jobs PROVE MildJob(i)
  <2>1. \/ reservation'[i] = reservation[i]
        \/ /\ reservation[i] = "held" /\ run_id[i] \in Started
           /\ status'[run_id[i]] \notin Active
           /\ \/ reservation'[i] = "released"
              \/ reservation'[i] = "settled" /\ payer[run_id[i]] = i
    BY <1>1, <1>2
  <2> QED
    BY <1>1, <2>1 DEF MildJob
<1>4. \A r \in Jobs : MildRun(r)
  BY <1>1, <1>2 DEF MildRun
<1> QED
  BY <1>3, <1>4 DEF Mild

LEMMA QuarantineIsMild ==
    ASSUME CancelInv, NEW Q \in SUBSET Exhausted, Quarantine(Q)
    PROVE  Mild
<1>1. Q \in SUBSET Jobs /\ \A q \in Q : ~attached[q]
  BY DEF Exhausted, Claimable
<1> QED
  BY <1>1, AbandonIsMild DEF Quarantine

LEMMA ClaimIsMild ==
    ASSUME CancelInv, NEW w \in Workers, Claim(w) \/ ClaimNothing(w)
    PROVE  Mild
<1>1. CASE Claim(w)
  <2>1. PICK j \in Jobs : Taken(w, j)
    BY <1>1, ClaimTakes DEF CancelInv, OwnershipInv
  <2>2. Quarantine({i \in Exhausted : i < j}) /\ {i \in Exhausted : i < j} \in SUBSET Exhausted
    BY <2>1 DEF Taken
  <2> QED
    BY <2>2, QuarantineIsMild
<1>2. CASE ClaimNothing(w)
  BY <1>2, QuarantineIsMild DEF ClaimNothing
<1> QED
  BY <1>1, <1>2

LEMMA FailIsMild ==
    ASSUME CancelInv, NEW w \in Workers, NEW permanent \in BOOLEAN, Fail(w, permanent),
           phase[w] # "idle"
    PROVE  Mild
<1> DEFINE j == job[w]
           dead == permanent \/ attempt[j] >= MaxAttempts
<1>1. /\ Current(w)
      /\ UNCHANGED <<run_id, attached, cancel_requested, detached, payer>>
  BY DEF Fail
<1>2. j \in Jobs /\ ~attached[j] /\ state[j] \in Active /\ seenState[w] \in Active
  BY <1>1, ClaimantDrives DEF CancelInv, OwnershipInv, TokensDistinct, Current
<1>3. CASE dead
  <2>1. Abandon({j}, {seenRun[w]} \ {NoJob})
    BY <1>3 DEF Fail
  <2> QED
    BY <1>1, <1>2, <2>1, AbandonIsMild
<1>4. CASE ~dead
  <2>1. /\ UNCHANGED <<status, reservation>>
        /\ state' = [state EXCEPT ![j] = seenState[w]]
    BY <1>4 DEF Fail
  <2>2. \A i \in Jobs : state'[i] = state[i] \/ (i = j /\ state'[i] = seenState[w])
    BY <2>1 DEF CancelInv, OwnershipInv, TypeOK
  <2> QED
    BY <1>1, <1>2, <2>1, <2>2 DEF Mild, MildJob, MildRun, Active
<1> QED
  BY <1>3, <1>4

\* A fence that a token passes belongs to a live run.
LEMMA FencedIsLive ==
    ASSUME OwnershipInv, NEW w \in Workers, phase[w] # "idle",
           NEW r \in Jobs, fence[r] = token[w]
    PROVE  status[r] \in Active
BY DEF OwnershipInv, TokensDistinct, RunsInv, EndedUnfenced

LEMMA WaitIsMild ==
    ASSUME CancelInv, NEW w \in Workers, NEW parked \in {"intake", "waiting"}, Wait(w, parked),
           phase[w] # "idle"
    PROVE  Mild
<1> USE DEF CancelInv, OwnershipInv
<1>1. /\ Current(w)
      /\ UNCHANGED <<run_id, attached, cancel_requested, detached, payer, reservation>>
      /\ state' = [state EXCEPT ![job[w]] = parked]
      /\ status' = status \/ (/\ fence[RunOf(w)] = token[w]
                              /\ status' = [status EXCEPT ![RunOf(w)] = "waiting"])
  BY DEF Wait, subVars
<1>2. job[w] \in Jobs /\ ~attached[job[w]] /\ state[job[w]] \in Active
  BY <1>1, ClaimantDrives DEF Current
<1>3. \A i \in Jobs : state'[i] = state[i] \/ (i = job[w] /\ state'[i] \in Active)
  BY <1>1 DEF TypeOK, Active
<1>4. \A r \in Jobs : status'[r] = status[r] \/ (status[r] \in Active /\ status'[r] = "waiting")
  BY <1>1, FencedIsLive DEF TypeOK
<1> QED
  BY <1>1, <1>2, <1>3, <1>4 DEF Mild, MildJob, MildRun, Active

LEMMA BeginIsMild ==
    ASSUME CancelInv, NEW w \in Workers, BeginAnalysis(w)
    PROVE  Mild
<1> USE DEF CancelInv, OwnershipInv
<1>1. /\ Current(w) /\ phase[w] # "idle"
      /\ UNCHANGED <<run_id, attached, cancel_requested, detached, payer, reservation>>
      /\ state' = [state EXCEPT ![job[w]] = "analysis"]
      /\ status' = status \/ (/\ fence[RunOf(w)] = token[w]
                              /\ status' = [status EXCEPT ![RunOf(w)] = "analysis"])
  BY DEF BeginAnalysis, subVars
<1>2. job[w] \in Jobs /\ ~attached[job[w]] /\ state[job[w]] \in Active
  BY <1>1, ClaimantDrives DEF Current
<1>3. \A i \in Jobs : state'[i] = state[i] \/ (i = job[w] /\ state'[i] = "analysis")
  BY <1>1 DEF TypeOK
<1>4. \A r \in Jobs : status'[r] = status[r] \/ (status[r] \in Active /\ status'[r] = "analysis")
  BY <1>1, FencedIsLive DEF TypeOK
<1> QED
  BY <1>1, <1>2, <1>3, <1>4 DEF Mild, MildJob, MildRun, Active

\* The job an intake answers at once drives no ended run, so nothing of it has settled.
LEMMA ServeIsMild ==
    ASSUME CancelInv, NEW w \in Workers, ServeStored(w) \/ RefuseQuota(w)
    PROVE  Mild
<1> USE DEF CancelInv, OwnershipInv
<1>1. /\ Current(w) /\ phase[w] # "idle"
      /\ UNCHANGED <<attached, cancel_requested, status, payer, reservation, detached>>
      /\ \A i \in Jobs \ {job[w]} : run_id'[i] = run_id[i] /\ state'[i] = state[i]
      /\ state'[job[w]] \in {"complete", "quota_exceeded"}
  <2>1. Current(w) /\ phase[w] = "intake"
    BY DEF ServeStored, RefuseQuota, IntakeOwned
  <2>2. job[w] \in Jobs
    BY <2>1, ClaimantDrives
  <2> QED
    BY <2>1, <2>2 DEF ServeStored, RefuseQuota, runVars, subVars, TypeOK
<1>2. job[w] \in Jobs /\ ~attached[job[w]] /\ state[job[w]] \in Active
  BY <1>1, ClaimantDrives DEF Current
<1>3. reservation[job[w]] # "settled"
  <2>1. run_id[job[w]] # NoJob => status[run_id[job[w]]] \in Active
    BY <1>1, <1>2, ClaimantDrives DEF RunOf
  <2> QED
    BY <1>2, <2>1, JobsAssumption DEF TellInv, SettledByPayer, Started
<1> QED
  BY <1>1, <1>2, <1>3 DEF Mild, MildJob, MildRun, Active

LEMMA ReconcileIsMild ==
    ASSUME CancelInv, NEW w \in Workers, ReconcileAttached(w)
    PROVE  Mild
<1> DEFINE told == MirrorAttached({r \in Started : status[r] \notin Active})
<1>1. /\ UNCHANGED <<run_id, attached, cancel_requested, status, payer, reservation, detached>>
      /\ \A i \in Jobs : state'[i] = IF i \in told THEN status[run_id[i]] ELSE state[i]
  BY DEF ReconcileAttached, runVars, subVars
<1>2. \A i \in told : /\ i \in Jobs /\ attached[i] /\ state[i] = "waiting" /\ ~cancel_requested[i]
                      /\ status[run_id[i]] \notin Active \cup {"none"}
  BY DEF MirrorAttached, Started
<1> HIDE DEF told
<1>3. \A i \in told : status[run_id[i]] # "cancelled"
  BY <1>2 DEF CancelInv, TellInv, AttachedStay, Active
<1> QED
  BY <1>1, <1>2, <1>3 DEF Mild, MildJob, MildRun

\* A run that ends cancelled leaves no attached job waiting for it: it was told to stop, so
\* its own job is all that is left, or nobody is.
LEMMA FinishIsMild ==
    ASSUME CancelInv, NEW w \in Workers, FinishJob(w)
    PROVE  Mild
<1> USE DEF CancelInv, OwnershipInv
<1> DEFINE j == job[w]
           r == RunOf(w)
           ended == {q \in {r} \ {NoJob} : fence[q] = token[w]}
           abandoned == /\ cancel_requested[j]
                        /\ \E i \in Subscribed : run_id[i] = r
                        /\ LiveSubscribers(r) = {}
           outcome == IF r # NoJob /\ abandoned THEN "cancelled" ELSE result[w]
<1>1. /\ phase[w] = "settled" /\ Current(w)
      /\ UNCHANGED <<run_id, attached, cancel_requested, detached, payer>>
      /\ \A q \in Jobs : status'[q] = IF q \in ended THEN outcome ELSE status[q]
      /\ reservation' = CloseSubscriptions(ended)
      /\ \A i \in Jobs : state'[i] = IF i = j THEN IF detached[j] THEN "cancelled" ELSE outcome
                                     ELSE IF i \in MirrorAttached(ended) THEN outcome ELSE state[i]
  BY DEF FinishJob
<1>2. j \in Jobs /\ ~attached[j] /\ (r # NoJob => r = j /\ status[j] \in Active)
  BY <1>1, ClaimantDrives
<1>3. ended \subseteq {j} /\ (j \in ended => r = j /\ status[j] \in Active)
  BY <1>2
<1>4. outcome \in Outcomes \cup {"cancelled"}
  BY <1>1 DEF FinishJob, RunsInv, SettledBeforeEnd, TypeOK
<1>5. ASSUME outcome = "cancelled", j \in ended, NEW k \in Jobs, attached[k], state[k] \in Active
      PROVE  run_id[k] # j
  <2>1. r = j /\ status[j] \in Active
    BY <1>3, <1>5
  <2>2. LiveSubscribers(j) \subseteq {j}
    <3>1. CASE abandoned
      BY <2>1, <3>1
    <3>2. CASE ~abandoned
      <4>1. cancel_requested[j]
        BY <1>5, <3>2 DEF CancelsAreAsked
      <4> QED
        BY <1>2, <2>1, <4>1 DEF TellInv, StoppedAlone
    <3> QED
      BY <3>1, <3>2
  <2> QED
    BY <1>2, <1>5, <2>1, <2>2 DEF TellInv, AttachedStay, LiveSubscribers
<1>6. \A i \in MirrorAttached(ended) : /\ i \in Jobs /\ attached[i] /\ state[i] \in Active
                                       /\ run_id[i] = j /\ j \in ended
  BY <1>3 DEF MirrorAttached, Active
<1>7. \A i \in Jobs : reservation'[i] = IF run_id[i] \in ended /\ reservation[i] = "held"
                                        THEN IF payer[run_id[i]] = i THEN "settled" ELSE "released"
                                        ELSE reservation[i]
  BY <1>1 DEF CloseSubscriptions
<1> HIDE DEF ended, outcome, abandoned, j, r
<1>8. outcome \notin Active \cup {"none"}
  BY <1>4, OutcomesAssumption DEF Active
<1>9. ASSUME NEW i \in Jobs PROVE MildJob(i)
  <2>1. \/ reservation'[i] = reservation[i]
        \/ /\ reservation[i] = "held" /\ run_id[i] \in Started
           /\ status'[run_id[i]] \notin Active
           /\ \/ reservation'[i] = "released"
              \/ reservation'[i] = "settled" /\ payer[run_id[i]] = i
    BY <1>1, <1>2, <1>3, <1>7, <1>8 DEF Started, Active
  <2>2. CASE i \in MirrorAttached(ended)
    BY <1>1, <1>2, <1>5, <1>6, <1>8, <2>1, <2>2 DEF MildJob
  <2>3. CASE i \notin MirrorAttached(ended)
    BY <1>1, <1>2, <1>8, <2>1, <2>3 DEF MildJob, Active
  <2> QED
    BY <2>2, <2>3
<1>10. ASSUME NEW q \in Jobs PROVE MildRun(q)
  BY <1>1, <1>2, <1>3, <1>5, <1>8 DEF MildRun, Active
<1> QED
  BY <1>1, <1>9, <1>10 DEF Mild

\* A cancel before intake commits stops nobody: there is no run yet.
LEMMA FlagTells ==
    ASSUME CancelInv, NEW j \in Jobs, FlagCancel(j) \/ CancelUnclaimed(j)
    PROVE  TellInv' /\ NobodyTold
<1> USE DEF CancelInv, TellInv
<1>1. /\ UNCHANGED <<run_id, attached, status, payer, reservation, detached>>
      /\ \A i \in Jobs \ {j} : cancel_requested'[i] = cancel_requested[i] /\ state'[i] = state[i]
      /\ state'[j] \in {state[j], "cancelled"}
      /\ \A i \in Jobs : cancel_requested[i] => cancel_requested'[i]
  BY DEF FlagCancel, CancelUnclaimed, OwnershipInv, TypeOK, runVars, subVars
<1>2. status[j] = "none"
  <2>1. CASE FlagCancel(j)
    BY <2>1 DEF FlagCancel, Subscribed, SubscribersStay
  <2>2. CASE CancelUnclaimed(j)
    <3>1. run_id[j] = NoJob /\ state[j] \in Active
      BY <2>2, RunsAreJobs DEF CancelUnclaimed, Active
    <3> QED
      BY <3>1 DEF SubscribersStay
  <2> QED
    BY <2>1, <2>2
<1>3. ~attached[j] \/ state'[j] = state[j]
  <2>1. CASE FlagCancel(j)
    BY <2>1 DEF FlagCancel, Subscribed, SubscribersStay
  <2>2. CASE CancelUnclaimed(j)
    BY <2>2, RunsAreJobs DEF CancelUnclaimed, SubscribersStay
  <2> QED
    BY <2>1, <2>2
<1>4. SubscribersStay' /\ SettledByPayer'
  <2>1. state[j] # "none"
    BY DEF FlagCancel, CancelUnclaimed, Active
  <2>2. \A i \in Jobs : /\ state'[i] = "none" => state[i] = "none"
                        /\ state'[i] \in Active => state[i] \in Active
    BY <1>1, <2>1 DEF Active
  <2>3. SubscribersStay'
    BY <1>1, <2>2 DEF SubscribersStay
  <2>4. SettledByPayer'
    BY <1>1 DEF SettledByPayer, Started
  <2> QED
    BY <2>3, <2>4
<1>5. StoppedAlone'
  <2>1. \A r \in Jobs : LiveSubscribers(r)' \subseteq LiveSubscribers(r)
    BY <1>1 DEF LiveSubscribers, Active
  <2> QED
    BY <1>1, <1>2, <2>1 DEF StoppedAlone, Active
<1>6. AttachedStay'
  BY <1>1, <1>3 DEF AttachedStay
<1>7. NobodyTold
  BY <1>1, <1>3 DEF NobodyTold
<1> QED
  BY <1>4, <1>5, <1>6, <1>7

\* Leaving stops the driver only when the last one leaves; the payer that leaves names
\* another, but only while the run lives and nothing of it has settled.
LEMMA DetachTells ==
    ASSUME CancelInv, NEW j \in Jobs, Detach(j)
    PROVE  TellInv' /\ NobodyTold
<1> USE DEF CancelInv, TellInv
<1>1. /\ j \in Subscribed /\ state[j] \in Active /\ ~detached[j]
      /\ UNCHANGED <<run_id, status, attached>>
  BY DEF Detach
<1>2. PICK r \in Jobs : r = run_id[j] /\ r # NoJob
  BY <1>1, RunsAreJobs DEF Subscribed, SubscribersStay
<1> DEFINE remaining == LiveSubscribers(r) \ {j}
<1>3. /\ \A i \in Jobs \ {j} : state'[i] = state[i] /\ reservation'[i] = reservation[i]
                               /\ detached'[i] = detached[i]
      /\ detached'[j]
      /\ state'[j] = IF attached[j] THEN "cancelled" ELSE state[j]
      /\ reservation'[j] \in {reservation[j], "released"}
      /\ \A i \in Jobs : cancel_requested[i] => cancel_requested'[i]
      /\ \A i \in Jobs : cancel_requested'[i] =>
             \/ cancel_requested[i]
             \/ attached[i]
             \/ remaining = {} /\ run_id[i] = r /\ ~attached[i] /\ state[i] \in Active
      /\ \A q \in Jobs : payer'[q] = payer[q] \/ (q = r /\ status[r] \in Active)
  BY <1>2 DEF Detach, OwnershipInv, TypeOK
<1>4. /\ \A q \in Jobs : LiveSubscribers(q)' \subseteq LiveSubscribers(q)
      /\ LiveSubscribers(r)' \subseteq remaining
  BY <1>1, <1>3 DEF LiveSubscribers, Active
<1> HIDE DEF remaining
<1>5. SubscribersStay'
  BY <1>1, <1>3 DEF SubscribersStay, Subscribed, Active
<1>6. SettledByPayer'
  <2> SUFFICES ASSUME NEW i \in Jobs, reservation'[i] = "settled"
               PROVE  /\ run_id[i] \in Jobs /\ status[run_id[i]] # "none"
                      /\ status[run_id[i]] \notin Active
                      /\ payer'[run_id[i]] = i
    BY <1>1 DEF SettledByPayer, Started
  <2>1. reservation[i] = "settled"
    BY <1>3
  <2> QED
    BY <1>3, <2>1 DEF SettledByPayer, Started
<1>7. StoppedAlone'
  <2> SUFFICES ASSUME NEW q \in Jobs, status[q] \in Active, cancel_requested'[q]
               PROVE  LiveSubscribers(q)' \subseteq {q}
    BY <1>1 DEF StoppedAlone
  <2>1. ~attached[q]
    BY DEF SubscribersStay, Active
  <2>2. CASE cancel_requested[q]
    BY <2>2, <1>4 DEF StoppedAlone
  <2>3. CASE remaining = {} /\ run_id[q] = r /\ state[q] \in Active
    <3>1. q = r
      BY <1>2, <2>1, <2>3 DEF OwnershipInv, RunsInv, DriverOwnsRun
    <3> QED
      BY <1>4, <2>3, <3>1
  <2> QED
    BY <1>3, <2>1, <2>2, <2>3
<1>8. AttachedStay'
  BY <1>1, <1>3 DEF AttachedStay, Active
<1>9. NobodyTold
  BY <1>3 DEF NobodyTold
<1> QED
  BY <1>5, <1>6, <1>7, <1>8, <1>9

\* Nobody attaches to a run whose driver was told to stop.
LEMMA AttachTells ==
    ASSUME CancelInv, NEW w \in Workers, AttachToRun(w)
    PROVE  TellInv' /\ NobodyTold
<1> USE DEF CancelInv, TellInv
<1>1. phase[w] # "idle" /\ Current(w) /\ state[job[w]] = "intake" /\ job[w] \notin Subscribed
  BY DEF AttachToRun, IntakeOwned, Subscribe
<1>2. PICK j \in Jobs : j = job[w] /\ ~attached[j] /\ reservation[j] = "none"
  BY <1>1, ClaimantDrives DEF Subscribed
<1>3. PICK r \in Attachable(j) : run_id' = [run_id EXCEPT ![j] = r]
  BY <1>2 DEF AttachToRun
<1>4. /\ \A i \in Jobs \ {j} :
             /\ run_id'[i] = run_id[i] /\ state'[i] = state[i] /\ attached'[i] = attached[i]
             /\ reservation'[i] = reservation[i]
      /\ run_id'[j] = r /\ state'[j] = "waiting" /\ attached'[j] /\ reservation'[j] = "held"
      /\ UNCHANGED <<cancel_requested, detached, status, payer>>
  BY <1>2, <1>3 DEF AttachToRun, Subscribe, runVars, OwnershipInv, TypeOK
<1>5. r \in Jobs /\ r # NoJob /\ status[r] \in Active
  BY <1>3, JobsAssumption DEF Attachable
<1>6. ~cancel_requested[r]
  <2>1. PICK d \in Jobs : run_id[d] = r /\ ~attached[d] /\ ~cancel_requested[d] /\ state[d] \in Active
    BY <1>3 DEF Attachable, OtherDriver
  <2>2. d = r
    BY <1>5, <2>1 DEF OwnershipInv, RunsInv, DriverOwnsRun
  <2> QED
    BY <2>1, <2>2
<1>7. status[j] = "none" /\ ~detached[j]
  BY <1>2 DEF SubscribersStay
<1>8. SubscribersStay'
  BY <1>4, <1>5, <1>7 DEF SubscribersStay, Active
<1>9. SettledByPayer'
  <2>1. \A i \in Jobs : reservation'[i] = "settled" => reservation[i] = "settled" /\ run_id'[i] = run_id[i]
    BY <1>4
  <2> QED
    BY <1>4, <2>1 DEF SettledByPayer, Started
<1>10. StoppedAlone'
  <2>1. \A q \in Jobs \ {r} : LiveSubscribers(q)' \subseteq LiveSubscribers(q)
    BY <1>4 DEF LiveSubscribers
  <2> QED
    BY <1>4, <1>6, <2>1 DEF StoppedAlone
<1>11. AttachedStay'
  BY <1>4, <1>5, <1>7 DEF AttachedStay, Active
<1>12. NobodyTold
  BY <1>2, <1>4 DEF NobodyTold
<1> QED
  BY <1>8, <1>9, <1>10, <1>11, <1>12

LEMMA StartTells ==
    ASSUME CancelInv, NEW w \in Workers, StartRun(w)
    PROVE  TellInv' /\ NobodyTold
<1> USE DEF CancelInv, TellInv
<1>1. phase[w] # "idle" /\ Current(w) /\ job[w] \notin Subscribed /\ job[w] \notin Started
  BY DEF StartRun, IntakeOwned, Subscribe
<1>2. PICK j \in Jobs : /\ j = job[w] /\ ~attached[j] /\ reservation[j] = "none"
                        /\ status[j] = "none" /\ j # NoJob
  BY <1>1, ClaimantDrives, JobsAssumption DEF Subscribed, Started
<1>3. /\ \A i \in Jobs \ {j} :
             /\ run_id'[i] = run_id[i] /\ state'[i] = state[i] /\ status'[i] = status[i]
             /\ reservation'[i] = reservation[i] /\ payer'[i] = payer[i]
      /\ run_id'[j] = j /\ state'[j] = "analysis" /\ status'[j] = "analysis"
      /\ reservation'[j] = "held"
      /\ UNCHANGED <<attached, cancel_requested, detached>>
  BY <1>2 DEF StartRun, Subscribe, OwnershipInv, TypeOK
<1>4. \A i \in Jobs : run_id[i] # j
  BY <1>2, RunsAreJobs DEF Started
<1>5. SubscribersStay'
  BY <1>2, <1>3 DEF SubscribersStay, Active
<1>6. SettledByPayer'
  <2> SUFFICES ASSUME NEW i \in Jobs, reservation'[i] = "settled"
               PROVE  /\ run_id'[i] \in Jobs /\ status'[run_id'[i]] # "none"
                      /\ status'[run_id'[i]] \notin Active
                      /\ payer'[run_id'[i]] = i
    BY DEF SettledByPayer, Started
  <2>1. i # j /\ reservation[i] = "settled" /\ run_id'[i] = run_id[i]
    BY <1>3
  <2>2. run_id[i] \in Jobs \ {j}
    BY <1>4, <2>1 DEF SettledByPayer, Started
  <2> QED
    BY <1>3, <2>1, <2>2 DEF SettledByPayer, Started
<1>7. StoppedAlone'
  <2>1. \A q \in Jobs \ {j} : LiveSubscribers(q)' \subseteq LiveSubscribers(q)
    BY <1>3 DEF LiveSubscribers
  <2>2. LiveSubscribers(j)' \subseteq {j}
    BY <1>3, <1>4 DEF LiveSubscribers
  <2> QED
    BY <1>3, <2>1, <2>2 DEF StoppedAlone
<1>8. AttachedStay'
  <2> SUFFICES ASSUME NEW i \in Jobs, attached[i], state'[i] \in Active
               PROVE  /\ ~detached[i]
                      /\ status'[run_id'[i]] \in Active => reservation'[i] = "held"
                      /\ state'[i] = "waiting" /\ status'[run_id'[i]] = "cancelled"
                             => cancel_requested[i]
    BY <1>3 DEF AttachedStay
  <2>1. i # j /\ state'[i] = state[i] /\ run_id'[i] = run_id[i] /\ reservation'[i] = reservation[i]
    BY <1>2, <1>3
  <2>2. run_id[i] \in Jobs \ {j}
    BY <1>4, RunsAreJobs DEF SubscribersStay
  <2> QED
    BY <1>3, <2>1, <2>2 DEF AttachedStay
<1>9. NobodyTold
  BY <1>2, <1>3 DEF NobodyTold
<1> QED
  BY <1>5, <1>6, <1>7, <1>8, <1>9

LEMMA AskedStep ==
    ASSUME CancelInv, [Next]_vars
    PROVE  CancelsAreAsked'
<1> USE DEF CancelInv, OwnershipInv
<1>1. ASSUME NEW w \in Workers, Forget(w), cancel_requested' = cancel_requested
      PROVE  CancelsAreAsked'
  BY <1>1 DEF CancelsAreAsked, Forget, TypeOK
<1>2. ASSUME UNCHANGED workerVars, \A j \in Jobs : cancel_requested[j] => cancel_requested'[j]
      PROVE  CancelsAreAsked'
  BY <1>2 DEF CancelsAreAsked, TokensDistinct, TypeOK
<1>3. ASSUME NEW w \in Workers, StartIntake(w) \/ StartRun(w) \/ BeginAnalysis(w) \/ ReadJob(w)
      PROVE  CancelsAreAsked'
  <2>1. /\ UNCHANGED <<cancel_requested, job, result>>
        /\ phase[w] # "settled"
        /\ phase'[w] \notin {"settled", "cancelling"}
        /\ \A v \in Workers \ {w} : phase'[v] = phase[v]
    BY <1>3 DEF StartIntake, StartRun, BeginAnalysis, ReadJob, IntakeOwned, TypeOK
  <2> QED
    BY <2>1 DEF CancelsAreAsked
<1>4. ASSUME NEW w \in Workers, Settle(w) \/ CancelBeforeStart(w)
      PROVE  CancelsAreAsked'
  <2>1. /\ UNCHANGED <<cancel_requested, job>>
        /\ phase'[w] = "settled"
        /\ result'[w] = "cancelled" => phase[w] = "cancelling" \/ SeesCancel(w)
        /\ \A v \in Workers \ {w} : phase'[v] = phase[v] /\ result'[v] = result[v]
    BY <1>4 DEF Settle, CancelBeforeStart, TypeOK
  <2> QED
    BY <2>1 DEF CancelsAreAsked, SeesCancel
<1>5. ASSUME NEW w \in Workers, Claim(w) PROVE CancelsAreAsked'
  <2>1. PICK j \in Jobs : Taken(w, j)
    BY <1>5, ClaimTakes
  <2>2. /\ cancel_requested' = cancel_requested /\ result' = result
        /\ phase[w] = "idle" /\ job'[w] = j
        /\ phase'[w] = IF cancel_requested[j] THEN "cancelling" ELSE "claimed"
        /\ \A v \in Workers \ {w} : phase'[v] = phase[v] /\ job'[v] = job[v]
    BY <2>1 DEF Taken, Quarantine, TypeOK
  <2> QED
    BY <2>2 DEF CancelsAreAsked
<1>6. ASSUME NEW w \in Workers, Proceed(w) PROVE CancelsAreAsked'
  <2>1. CASE StartIntake(w) \/ StartRun(w) \/ BeginAnalysis(w) \/ ReadJob(w)
    BY <2>1, <1>3
  <2>2. CASE Settle(w) \/ CancelBeforeStart(w)
    BY <2>2, <1>4
  <2>3. CASE GiveUp(w) \/ ServeStored(w) \/ RefuseQuota(w) \/ AttachToRun(w) \/ FinishJob(w)
    BY <2>3, <1>1 DEF GiveUp, ServeStored, RefuseQuota, AttachToRun, FinishJob
  <2>4. CASE RefusePaid(w) \/ ReadFails(w) \/ WorkerFails(w)
    BY <2>4, <1>1 DEF RefusePaid, ReadFails, WorkerFails, Fail
  <2>5. CASE BreakerWait(w) \/ SourceBusy(w) \/ ProviderWait(w)
    BY <2>5, <1>1 DEF BreakerWait, SourceBusy, ProviderWait, Wait
  <2> QED
    BY <1>6, <2>1, <2>2, <2>3, <2>4, <2>5 DEF Proceed, CommitIntake
<1>7. ASSUME NEW w \in Workers, ReconcileAttached(w) \/ ClaimNothing(w) PROVE CancelsAreAsked'
  BY <1>7, <1>2 DEF ReconcileAttached, ClaimNothing, Quarantine
<1>8. ASSUME NEW w \in Workers, Crash(w) PROVE CancelsAreAsked'
  BY <1>8, <1>1 DEF Crash
<1>9. ASSUME NEW j \in Jobs, User(j) \/ LeaseLapses(j) PROVE CancelsAreAsked'
  <2>1. UNCHANGED workerVars
    BY <1>9 DEF User, RequestCancel, Enqueue, Detach, FlagCancel, CancelUnclaimed, LeaseLapses
  <2>2. \A i \in Jobs : cancel_requested[i] => cancel_requested'[i]
    BY <1>9 DEF User, RequestCancel, Enqueue, Detach, FlagCancel, CancelUnclaimed, LeaseLapses,
                TypeOK
  <2> QED
    BY <2>1, <2>2, <1>2
<1>10. ASSUME NEW D \in SUBSET Jobs, ExpireDeadLetters(D) PROVE CancelsAreAsked'
  BY <1>10, <1>2 DEF ExpireDeadLetters
<1>11. CASE UNCHANGED vars
  BY <1>11, <1>2 DEF vars
<1> QED
  BY <1>5, <1>6, <1>7, <1>8, <1>9, <1>10, <1>11 DEF Next, Idle


LEMMA NextCancels ==
    ASSUME CancelInv, [Next]_vars
    PROVE  CancelInv' /\ NobodyTold
<1>1. OwnershipInv' /\ CancelsAreAsked'
  BY NextOwned, AskedStep DEF CancelInv
<1>2. TellInv' /\ NobodyTold
  <2>1. ASSUME NEW j \in Jobs, User(j) \/ LeaseLapses(j) PROVE TellInv' /\ NobodyTold
    <3>1. LeaseLapses(j) => Mild
      BY StillIsMild DEF LeaseLapses, runVars
    <3> QED
      BY <2>1, <3>1, EnqueueIsMild, MildTells, FlagTells, DetachTells DEF User, RequestCancel
  <2>2. ASSUME NEW w \in Workers, Idle(w) \/ Crash(w) PROVE TellInv' /\ NobodyTold
    <3>1. Crash(w) => Mild
      BY StillIsMild DEF Crash, jobVars, runVars
    <3> QED
      BY <2>2, <3>1, ReconcileIsMild, ClaimIsMild, MildTells DEF Idle
  <2>3. ASSUME NEW w \in Workers, Proceed(w) PROVE TellInv' /\ NobodyTold
    <3>1. CASE GiveUp(w) \/ StartIntake(w) \/ ReadJob(w) \/ Settle(w) \/ CancelBeforeStart(w)
      <4>1. UNCHANGED <<state, run_id, attached, cancel_requested, status, payer, subVars>>
        BY <3>1 DEF GiveUp, StartIntake, ReadJob, Settle, CancelBeforeStart, jobVars, runVars
      <4> QED
        BY <4>1, StillIsMild, MildTells
    <3>2. CASE RefusePaid(w) \/ ReadFails(w) \/ WorkerFails(w)
      <4>1. phase[w] # "idle" /\ (Fail(w, TRUE) \/ Fail(w, FALSE))
        BY <3>2 DEF RefusePaid, ReadFails, WorkerFails
      <4> QED
        BY <4>1, FailIsMild, MildTells
    <3>3. CASE BreakerWait(w) \/ SourceBusy(w) \/ ProviderWait(w)
      <4>1. phase[w] # "idle" /\ \E parked \in {"intake", "waiting"} : Wait(w, parked)
        BY <3>3 DEF BreakerWait, SourceBusy, ProviderWait
      <4> QED
        BY <4>1, WaitIsMild, MildTells
    <3>4. CASE BeginAnalysis(w) \/ ServeStored(w) \/ RefuseQuota(w) \/ FinishJob(w)
      BY <3>4, BeginIsMild, ServeIsMild, FinishIsMild, MildTells
    <3>5. CASE AttachToRun(w) \/ StartRun(w)
      BY <3>5, AttachTells, StartTells
    <3> QED
      BY <2>3, <3>1, <3>2, <3>3, <3>4, <3>5 DEF Proceed, CommitIntake
  <2>4. ASSUME NEW D \in SUBSET Jobs, ExpireDeadLetters(D) PROVE TellInv' /\ NobodyTold
    BY <2>4, ExpireIsMild, MildTells
  <2>5. CASE UNCHANGED vars
    BY <2>5, StillIsMild, MildTells DEF vars, jobVars, runVars
  <2> QED
    BY <2>1, <2>2, <2>3, <2>4, <2>5 DEF Next
<1> QED
  BY <1>1, <1>2 DEF CancelInv

LEMMA InitCancels == Init => CancelInv
BY InitOwned DEF Init, CancelInv, CancelsAreAsked, TellInv, SubscribersStay, SettledByPayer,
                 StoppedAlone, AttachedStay, Active

\* The inductive invariant: who attached, left, pays and was told to stop.
THEOREM CancelsAreKept == Spec => []CancelInv
<1>1. Init => CancelInv
  BY InitCancels
<1>2. CancelInv /\ [Next]_vars => CancelInv'
  BY NextCancels
<1> QED
  BY <1>1, <1>2, PTL DEF Spec

\* Even when reads fail and runs are left behind, a reservation settles only for a run that
\* has ended and only if it is that run's payer's, so one run never charges two.
THEOREM OnlyPayersAreCharged == Spec => []SettledByPayer
<1>1. CancelInv => SettledByPayer
  BY DEF CancelInv, TellInv
<1> QED
  BY <1>1, CancelsAreKept, PTL

\* An attached job ends cancelled only by its own detach: of the jobs that share a run,
\* the ones that stay are never told "cancelled" because the others left.
THEOREM NobodyElseCancels == Spec => NobodyCancelsForYou
<1>1. CancelInv /\ [Next]_vars => [NobodyTold]_<<state, detached>>
  BY NextCancels
<1>2. [NobodyTold]_<<state, detached>>
          => [\A j \in Jobs : attached[j] /\ state[j] = "waiting" /\ state'[j] = "cancelled"
                              => detached'[j]]_<<state, detached>>
  BY DEF NobodyTold
<1> QED
  BY <1>1, <1>2, CancelsAreKept, PTL DEF Spec, NobodyCancelsForYou

-----------------------------------------------------------------------------
(* Who drives a run, when no read fails after an intake commit: such a read   *)
(* makes its worker fail the job on a copy from before the run, which leaves  *)
(* the run behind alive (ReadFails), and with it what follows is not true.    *)

\* A live run is driven by the job that started it, and they carry one token.
Driven ==
    \A r \in Jobs : status[r] \in Active =>
        /\ state[r] \in Active /\ ~attached[r] /\ run_id[r] = r
        /\ fence[r] = claim_token[r]

\* Before intake commits a job has no run, no subscription and nobody to mirror; a job
\* past intake is subscribed, and to a run.
RunsComeLate ==
    \A j \in Jobs :
        /\ state[j] \in {"none", "intake"} => run_id[j] = NoJob /\ ~attached[j] /\ j \notin Subscribed
        /\ state[j] \in {"waiting", "analysis"} => j \in Subscribed
        /\ j \in Subscribed => run_id[j] # NoJob

\* What a worker with a good claim remembers of its job is still true of the row, unless
\* it has just committed and not read the row again.
SeenFor(w) ==
    phase[w] # "idle" /\ Current(w) =>
        /\ phase[w] # "unread" => /\ seenRun[w] = RunOf(w)
                                  /\ seenState[w] = "intake" <=> state[job[w]] = "intake"
        /\ phase[w] \in {"unread", "analysis"} => state[job[w]] # "intake"

SeenIsFresh == \A w \in Workers : SeenFor(w)

DrivenInv == OwnershipInv /\ Driven /\ RunsComeLate /\ SeenIsFresh

\* A step that leaves a worker's memory and its row as they were, or takes its claim.
StillSees(v) ==
    phase'[v] # "idle" /\ Current(v)' =>
        /\ phase'[v] = phase[v] /\ job'[v] = job[v] /\ Current(v)
        /\ seenState'[v] = seenState[v] /\ seenRun'[v] = seenRun[v]
        /\ run_id'[job[v]] = run_id[job[v]]
        /\ state'[job[v]] = "intake" <=> state[job[v]] = "intake"

LEMMA SeenStays ==
    ASSUME SeenIsFresh, \A v \in Workers : StillSees(v) \/ SeenFor(v)'
    PROVE  SeenIsFresh'
BY DEF SeenIsFresh, SeenFor, StillSees, RunOf

\* Two workers never hold a good claim on one job.
LEMMA OneClaimant ==
    ASSUME OwnershipInv, NEW v \in Workers, NEW w \in Workers, phase[v] # "idle",
           Current(v), Current(w), job[v] = job[w]
    PROVE  v = w
BY DEF OwnershipInv, TokensDistinct, Current

LEMMA EnqueueDriven ==
    ASSUME DrivenInv, NEW j \in Jobs, Enqueue(j)
    PROVE  Driven' /\ RunsComeLate' /\ SeenIsFresh'
<1> USE DEF DrivenInv, OwnershipInv
<1>1. Driven' /\ RunsComeLate'
  BY DEF Enqueue, Driven, RunsComeLate, TypeOK, Subscribed
<1>2. \A v \in Workers : StillSees(v)
  BY DEF Enqueue, StillSees, TypeOK, Current, TokensDistinct, RunsInv, DriverOwnsRun
<1> QED
  BY <1>1, <1>2, SeenStays

LEMMA DetachDriven ==
    ASSUME DrivenInv, NEW j \in Jobs, Detach(j)
    PROVE  Driven' /\ RunsComeLate' /\ SeenIsFresh'
<1> USE DEF DrivenInv, OwnershipInv
<1>1. Driven'
  BY DEF Detach, Driven, TypeOK
<1>2. RunsComeLate'
  BY DEF Detach, RunsComeLate, TypeOK, Subscribed
<1>3. \A v \in Workers : StillSees(v)
  BY DEF Detach, StillSees, TypeOK, Current
<1> QED
  BY <1>1, <1>2, <1>3, SeenStays

LEMMA FlagCancelDriven ==
    ASSUME DrivenInv, NEW j \in Jobs, FlagCancel(j)
    PROVE  Driven' /\ RunsComeLate' /\ SeenIsFresh'
<1> USE DEF DrivenInv, OwnershipInv
<1>1. Driven' /\ RunsComeLate'
  BY DEF FlagCancel, Driven, RunsComeLate, Subscribed
<1>2. \A v \in Workers : StillSees(v)
  BY DEF FlagCancel, StillSees, Current
<1> QED
  BY <1>1, <1>2, SeenStays

LEMMA CancelUnclaimedDriven ==
    ASSUME DrivenInv, NEW j \in Jobs, CancelUnclaimed(j)
    PROVE  Driven' /\ RunsComeLate' /\ SeenIsFresh'
<1> USE DEF DrivenInv, OwnershipInv
<1>1. Driven' /\ RunsComeLate'
  BY JobsAssumption DEF CancelUnclaimed, Driven, RunsComeLate, TypeOK, Subscribed
<1>2. \A v \in Workers : StillSees(v)
  BY DEF CancelUnclaimed, StillSees, TypeOK, Current
<1> QED
  BY <1>1, <1>2, SeenStays

LEMMA LeaseLapsesDriven ==
    ASSUME DrivenInv, NEW j \in Jobs, LeaseLapses(j)
    PROVE  Driven' /\ RunsComeLate' /\ SeenIsFresh'
<1> USE DEF DrivenInv, OwnershipInv
<1>1. Driven' /\ RunsComeLate'
  BY DEF LeaseLapses, Driven, RunsComeLate, Subscribed
<1>2. \A v \in Workers : StillSees(v)
  BY DEF LeaseLapses, StillSees, TypeOK, Current
<1> QED
  BY <1>1, <1>2, SeenStays

LEMMA ExpireDriven ==
    ASSUME DrivenInv, NEW D \in SUBSET Jobs, ExpireDeadLetters(D)
    PROVE  Driven' /\ RunsComeLate' /\ SeenIsFresh'
<1> USE DEF DrivenInv, OwnershipInv
<1>1. Driven'
  BY DEF ExpireDeadLetters, Driven, TypeOK
<1>2. RunsComeLate'
  BY DEF ExpireDeadLetters, RunsComeLate, TypeOK, Subscribed
<1>3. \A v \in Workers : StillSees(v)
  BY DEF ExpireDeadLetters, StillSees, TypeOK, Current
<1> QED
  BY <1>1, <1>2, <1>3, SeenStays

LEMMA ReconcileDriven ==
    ASSUME DrivenInv, NEW w \in Workers, ReconcileAttached(w)
    PROVE  Driven' /\ RunsComeLate' /\ SeenIsFresh'
<1> USE DEF DrivenInv, OwnershipInv
<1>1. \A j \in Jobs : state'[j] = state[j] \/ (attached[j] /\ status[run_id[j]] \notin Active
                                              /\ run_id[j] \in Started
                                              /\ state'[j] = status[run_id[j]])
  BY DEF ReconcileAttached, MirrorAttached
<1>2. Driven'
  BY <1>1 DEF ReconcileAttached, Driven
<1>3. \A j \in Jobs : state'[j] = state[j] \/ state'[j] \notin {"none", "intake", "waiting", "analysis"}
  BY <1>1 DEF Started
<1>4. RunsComeLate'
  BY <1>3 DEF ReconcileAttached, RunsComeLate, Subscribed
<1>5. \A v \in Workers : StillSees(v)
  BY <1>3 DEF ReconcileAttached, StillSees, TypeOK, Current
<1> QED
  BY <1>2, <1>4, <1>5, SeenStays

\* The live runs that die with the jobs Q.
LiveOf(Q) == {r \in Q : status[r] \in Active}

LEMMA AbandonDrops ==
    ASSUME TypeOK, NEW Q \in SUBSET Jobs, NEW R, Abandon(Q, R),
           \A r \in Jobs : status[r] \in Active => (r \in R <=> r \in Q)
    PROVE  /\ \A r \in Jobs : status'[r] = IF r \in LiveOf(Q) THEN "dead_letter" ELSE status[r]
           /\ reservation' = CloseSubscriptions(LiveOf(Q))
           /\ \A i \in Jobs : state'[i] = IF i \in Q \cup MirrorAttached(LiveOf(Q))
                                          THEN "dead_letter" ELSE state[i]
<1> DEFINE dying == {r \in Started \cap R : status[r] \in Active}
<1>1. dying = LiveOf(Q)
  BY DEF LiveOf, Started
<1> QED
  BY <1>1, Zenon DEF Abandon

\* The jobs a claim quarantines take their own live runs with them, and no other.
LEMMA QuarantineDrops ==
    ASSUME DrivenInv, NEW Q \in SUBSET Exhausted, Quarantine(Q)
    PROVE  /\ \A r \in Jobs : status'[r] = IF r \in LiveOf(Q) THEN "dead_letter" ELSE status[r]
           /\ reservation' = CloseSubscriptions(LiveOf(Q))
           /\ \A i \in Jobs : state'[i] = IF i \in Q \cup MirrorAttached(LiveOf(Q))
                                          THEN "dead_letter" ELSE state[i]
           /\ \A r \in Jobs : status[r] \in Active => (r \in {run_id[i] : i \in Q} <=> r \in Q)
           /\ Q \in SUBSET Jobs /\ \A i \in Q : ~attached[i] /\ run_id[i] \in {NoJob, i}
<1>1. Q \in SUBSET Jobs /\ \A i \in Q : ~attached[i] /\ run_id[i] \in {NoJob, i}
  BY DEF Exhausted, Claimable, DrivenInv, OwnershipInv, RunsInv, DriverOwnsRun
<1>2. \A r \in Jobs : status[r] \in Active => (r \in {run_id[i] : i \in Q} <=> r \in Q)
  <2> SUFFICES ASSUME NEW r \in Jobs, status[r] \in Active
               PROVE  r \in {run_id[i] : i \in Q} <=> r \in Q
    OBVIOUS
  <2>1. r # NoJob /\ run_id[r] = r
    BY JobsAssumption DEF DrivenInv, Driven
  <2>2. ASSUME NEW i \in Q, run_id[i] = r PROVE r \in Q
    BY <1>1, <2>1, <2>2
  <2> QED
    BY <2>1, <2>2
<1>3. Abandon(Q, {run_id[i] : i \in Q})
  BY DEF Quarantine
<1> QED
  BY <1>1, <1>2, <1>3, AbandonDrops DEF DrivenInv, OwnershipInv

LEMMA ClosedKeepsNames ==
    ASSUME NEW R, reservation' = CloseSubscriptions(R)
    PROVE  Subscribed' = Subscribed
BY DEF CloseSubscriptions, Subscribed

LEMMA ClaimNothingDriven ==
    ASSUME DrivenInv, NEW w \in Workers, ClaimNothing(w)
    PROVE  Driven' /\ RunsComeLate' /\ SeenIsFresh'
<1> USE DEF DrivenInv, OwnershipInv
<1> DEFINE Q == Exhausted
<1>1. Quarantine(Q) /\ run_id' = run_id /\ attached' = attached
  BY DEF ClaimNothing, Quarantine
<1>2. /\ \A r \in Jobs : status'[r] = IF r \in LiveOf(Q) THEN "dead_letter" ELSE status[r]
      /\ reservation' = CloseSubscriptions(LiveOf(Q))
      /\ \A i \in Jobs : state'[i] = IF i \in Q \cup MirrorAttached(LiveOf(Q))
                                     THEN "dead_letter" ELSE state[i]
      /\ \A r \in Jobs : status[r] \in Active => (r \in {run_id[i] : i \in Q} <=> r \in Q)
  BY <1>1, QuarantineDrops
<1>3. \A i \in MirrorAttached(LiveOf(Q)) : i \in Jobs /\ attached[i]
  BY DEF MirrorAttached
<1>4. /\ \A r \in Jobs : fence'[r] = IF r \in {run_id[i] : i \in Q} /\ status[r] \in Active
                                     THEN NoToken ELSE fence[r]
      /\ \A i \in Jobs : claim_token'[i] = IF i \in Q THEN NoToken ELSE claim_token[i]
      /\ UNCHANGED <<leased, workerVars>>
  BY DEF ClaimNothing
<1> HIDE DEF Q
<1>5. Driven'
  BY <1>1, <1>2, <1>3, <1>4 DEF Driven, LiveOf
<1>6. RunsComeLate'
  BY <1>1, <1>2, ClosedKeepsNames DEF RunsComeLate
<1>7. \A v \in Workers : StillSees(v)
  <2> SUFFICES ASSUME NEW v \in Workers, phase'[v] # "idle", Current(v)' PROVE StillSees(v)
    BY DEF StillSees
  <2>1. token[v] # NoToken /\ job[v] \in Jobs
    BY <1>4 DEF TokensDistinct, TypeOK
  <2>2. job[v] \notin Q /\ claim_token[job[v]] = token[v] /\ state'[job[v]] \in Active
    BY <1>4, <2>1 DEF Current
  <2>3. state[job[v]] = state'[job[v]]
    BY <1>2, <2>1, <2>2
  <2> QED
    BY <1>1, <1>4, <2>2, <2>3 DEF StillSees, Current
<1> QED
  BY <1>5, <1>6, <1>7, SeenStays

LEMMA ClaimDriven ==
    ASSUME DrivenInv, NEW w \in Workers, NEW j \in Jobs, Taken(w, j)
    PROVE  Driven' /\ RunsComeLate' /\ SeenIsFresh'
<1> USE DEF DrivenInv, OwnershipInv
<1> DEFINE Q == {i \in Exhausted : i < j}
           t == token'[w]
<1>1. Quarantine(Q) /\ run_id' = run_id /\ attached' = attached /\ Q \in SUBSET Exhausted
  BY DEF Taken, Quarantine
<1>2. /\ \A r \in Jobs : status'[r] = IF r \in LiveOf(Q) THEN "dead_letter" ELSE status[r]
      /\ reservation' = CloseSubscriptions(LiveOf(Q))
      /\ \A i \in Jobs : state'[i] = IF i \in Q \cup MirrorAttached(LiveOf(Q))
                                     THEN "dead_letter" ELSE state[i]
      /\ \A r \in Jobs : status[r] \in Active => (r \in {run_id[i] : i \in Q} <=> r \in Q)
  BY <1>1, QuarantineDrops
<1>3. \A i \in MirrorAttached(LiveOf(Q)) : i \in Jobs /\ attached[i]
  BY DEF MirrorAttached
<1>4. /\ \A r \in Jobs : fence'[r] = IF r = run_id[j] /\ r \in Started THEN t
                                     ELSE IF r \in {run_id[i] : i \in Q} /\ status[r] \in Active
                                          THEN NoToken ELSE fence[r]
      /\ \A i \in Jobs : claim_token'[i] = IF i = j THEN t
                                           ELSE IF i \in Q THEN NoToken ELSE claim_token[i]
  BY DEF Taken
<1>5. j \notin Q /\ ~attached[j] /\ state[j] \in Active /\ run_id[j] \in {NoJob, j}
  BY DEF Taken, Claimable, RunsInv, DriverOwnsRun
<1>6. /\ \A v \in Workers : token[v] # t
      /\ \A v \in Workers \ {w} : /\ phase'[v] = phase[v] /\ job'[v] = job[v]
                                  /\ token'[v] = token[v]
                                  /\ seenState'[v] = seenState[v] /\ seenRun'[v] = seenRun[v]
      /\ \A i \in Jobs \ {j} : leased'[i] = leased[i]
      /\ phase'[w] \in {"claimed", "cancelling"} /\ job'[w] = j
      /\ seenState'[w] = state[j] /\ seenRun'[w] = run_id[j]
  BY DEF Taken, TypeOK
<1> HIDE DEF Q, t
<1>7. Driven'
  BY <1>1, <1>2, <1>3, <1>4, <1>5, JobsAssumption DEF Driven, LiveOf, Started
<1>8. RunsComeLate'
  BY <1>1, <1>2, ClosedKeepsNames DEF RunsComeLate
<1>9. \A v \in Workers \ {w} : StillSees(v)
  <2> SUFFICES ASSUME NEW v \in Workers \ {w}, phase'[v] # "idle", Current(v)' PROVE StillSees(v)
    BY DEF StillSees
  <2>1. token[v] # NoToken /\ job[v] \in Jobs
    BY <1>6 DEF TokensDistinct, TypeOK
  <2>2. job[v] \notin Q \cup {j} /\ claim_token[job[v]] = token[v] /\ state'[job[v]] \in Active
    BY <1>4, <1>6, <2>1 DEF Current
  <2>3. state[job[v]] = state'[job[v]]
    BY <1>2, <2>1, <2>2
  <2> QED
    BY <1>1, <1>6, <2>1, <2>2, <2>3 DEF StillSees, Current
<1>10. SeenFor(w)'
  <2>1. state'[j] = state[j]
    BY <1>2, <1>3, <1>5
  <2> QED
    BY <1>1, <1>6, <2>1 DEF SeenFor, RunOf
<1> QED
  BY <1>7, <1>8, <1>9, <1>10, SeenStays

LEMMA CrashDriven ==
    ASSUME DrivenInv, NEW w \in Workers, Crash(w) \/ GiveUp(w)
    PROVE  Driven' /\ RunsComeLate' /\ SeenIsFresh'
<1> USE DEF DrivenInv, OwnershipInv
<1>1. Driven' /\ RunsComeLate'
  BY DEF Crash, GiveUp, Driven, RunsComeLate, Subscribed
<1>2. \A v \in Workers : StillSees(v)
  BY DEF Crash, GiveUp, Forget, StillSees, TypeOK, Current
<1> QED
  BY <1>1, <1>2, SeenStays

\* Another worker's step on its own job j leaves what v sees as it was.
LEMMA OthersStillSee ==
    ASSUME DrivenInv, NEW w \in Workers, phase[w] # "idle", Current(w),
           NEW v \in Workers \ {w},
           \A i \in Jobs \ {job[w]} :
               /\ claim_token'[i] = claim_token[i] /\ leased'[i] = leased[i]
               /\ run_id'[i] = run_id[i]
               /\ state'[i] = state[i] \/ attached[i],
           \A i \in Jobs : claim_token'[i] \in {claim_token[i], NoToken},
           phase'[v] = phase[v], job'[v] = job[v], token'[v] = token[v],
           seenState'[v] = seenState[v], seenRun'[v] = seenRun[v]
    PROVE  StillSees(v)
<1> USE DEF DrivenInv, OwnershipInv
<1> SUFFICES ASSUME phase'[v] # "idle", Current(v)' PROVE StillSees(v)
  BY DEF StillSees
<1>1. job[v] \in Jobs /\ token[v] # NoToken /\ token[v] # token[w]
  BY DEF TokensDistinct, TypeOK
<1>2. claim_token[job[v]] = token[v]
  BY <1>1 DEF Current
<1>3. job[v] # job[w] /\ ~attached[job[v]]
  BY <1>1, <1>2 DEF Current, RunsInv, EndedUnfenced
<1> QED
  BY <1>1, <1>2, <1>3 DEF StillSees, Current

\* What forgetting leaves of the others' memory.
LEMMA ForgetsItsOwn ==
    ASSUME TypeOK, NEW w \in Workers, Forget(w)
    PROVE  /\ SeenFor(w)'
           /\ \A v \in Workers \ {w} :
                  /\ phase'[v] = phase[v] /\ job'[v] = job[v] /\ token'[v] = token[v]
                  /\ seenState'[v] = seenState[v] /\ seenRun'[v] = seenRun[v]
BY DEF Forget, SeenFor, TypeOK

\* The job a worker may act on, its run and its fence.
LEMMA ActorDrives ==
    ASSUME DrivenInv, NEW w \in Workers, phase[w] # "idle", Current(w)
    PROVE  /\ job[w] \in Jobs /\ job[w] # NoJob /\ ~attached[job[w]]
           /\ RunOf(w) \in {NoJob, job[w]}
           /\ RunOf(w) = job[w] <=> status[job[w]] \in Active
           /\ status[job[w]] \in Active => fence[job[w]] = token[w]
           /\ claim_token[job[w]] = token[w] /\ token[w] # NoToken
           /\ state[job[w]] = "intake" => RunOf(w) = NoJob /\ job[w] \notin Subscribed
           /\ state[job[w]] # "intake" => RunOf(w) = job[w] /\ job[w] \in Subscribed
           /\ phase[w] # "unread" => seenRun[w] = RunOf(w)
           /\ phase[w] # "unread" => (seenState[w] = "intake" <=> state[job[w]] = "intake")
           /\ seenState[w] \in Active
<1>1. /\ job[w] \in Jobs /\ ~attached[job[w]]
      /\ RunOf(w) # NoJob => RunOf(w) = job[w] /\ status[job[w]] \in Active
  BY ClaimantDrives DEF DrivenInv
<1>2. claim_token[job[w]] = token[w] /\ state[job[w]] \in Active
  BY DEF Current
<1>3. job[w] # NoJob /\ token[w] # NoToken /\ seenState[w] \in Active
  BY DEF DrivenInv, OwnershipInv, TokensDistinct
<1> QED
  BY <1>1, <1>2, <1>3 DEF DrivenInv, Driven, RunsComeLate, SeenIsFresh, SeenFor, RunOf

LEMMA WaitDriven ==
    ASSUME DrivenInv, NEW w \in Workers, NEW parked \in {"intake", "waiting"}, Wait(w, parked),
           phase[w] # "idle", parked = "intake" <=> state[job[w]] = "intake"
    PROVE  Driven' /\ RunsComeLate' /\ SeenIsFresh'
<1> USE DEF DrivenInv, OwnershipInv
<1>1. Current(w)
  BY DEF Wait
<1>2. /\ job[w] \in Jobs /\ ~attached[job[w]]
      /\ RunOf(w) \in {NoJob, job[w]}
      /\ RunOf(w) = job[w] <=> status[job[w]] \in Active
      /\ status[job[w]] \in Active => fence[job[w]] = token[w]
      /\ state[job[w]] = "intake" => RunOf(w) = NoJob /\ job[w] \notin Subscribed
      /\ state[job[w]] # "intake" => RunOf(w) = job[w] /\ job[w] \in Subscribed
  BY <1>1, ActorDrives
<1>3. /\ \A r \in Jobs : status'[r] = status[r] \/ (r = job[w] /\ status[r] \in Active)
      /\ \A r \in Jobs \ {job[w]} : fence'[r] = fence[r]
      /\ status[job[w]] \in Active => fence'[job[w]] = NoToken
      /\ \A i \in Jobs : state'[i] = IF i = job[w] THEN parked ELSE state[i]
      /\ \A i \in Jobs : claim_token'[i] = IF i = job[w] THEN NoToken ELSE claim_token[i]
      /\ UNCHANGED <<run_id, attached, leased, subVars>>
  BY <1>2, JobsAssumption DEF Wait, TypeOK
<1>4. Driven'
  BY <1>2, <1>3 DEF Driven, RunOf
<1>5. RunsComeLate'
  BY <1>2, <1>3 DEF RunsComeLate, RunOf, Subscribed
<1>6. Forget(w)
  BY DEF Wait
<1>7. \A v \in Workers \ {w} : StillSees(v)
  BY <1>1, <1>3, <1>6, ForgetsItsOwn, OthersStillSee
<1> QED
  BY <1>4, <1>5, <1>6, <1>7, ForgetsItsOwn, SeenStays

\* A failure that uses up the job takes its live run with it; any other leaves the runs.
LEMMA FailDrops ==
    ASSUME DrivenInv, NEW w \in Workers, NEW permanent \in BOOLEAN, Fail(w, permanent),
           phase[w] \notin {"idle", "unread"}
    PROVE  /\ Current(w) /\ Forget(w)
           /\ UNCHANGED <<run_id, attached, cancel_requested, payer, key, detached, seq>>
           /\ \A i \in Jobs : claim_token'[i] = IF i = job[w] THEN NoToken ELSE claim_token[i]
           /\ \A i \in Jobs \ {job[w]} : leased'[i] = leased[i]
           /\ \A r \in Jobs \ {job[w]} : fence'[r] = fence[r]
           /\ \/ /\ \A r \in Jobs : status'[r] = IF r \in LiveOf({job[w]}) THEN "dead_letter"
                                                 ELSE status[r]
                 /\ reservation' = CloseSubscriptions(LiveOf({job[w]}))
                 /\ \A i \in Jobs : state'[i] = IF i \in {job[w]} \cup MirrorAttached(LiveOf({job[w]}))
                                                THEN "dead_letter" ELSE state[i]
              \/ /\ UNCHANGED <<status, reservation>>
                 /\ \A i \in Jobs : state'[i] = IF i = job[w] THEN seenState[w] ELSE state[i]
                 /\ status[job[w]] \in Active => fence'[job[w]] = NoToken
<1> USE DEF DrivenInv, OwnershipInv
<1> DEFINE j == job[w]
           dead == permanent \/ attempt[j] >= MaxAttempts
<1>1. Current(w) /\ Forget(w)
      /\ UNCHANGED <<run_id, attached, cancel_requested, payer, key, detached, seq>>
  BY DEF Fail
<1>2. /\ j \in Jobs /\ j # NoJob
      /\ RunOf(w) \in {NoJob, j}
      /\ RunOf(w) = j <=> status[j] \in Active
      /\ status[j] \in Active => fence[j] = token[w]
      /\ seenRun[w] = RunOf(w)
  BY <1>1, ActorDrives
<1>3. /\ \A i \in Jobs : claim_token'[i] = IF i = j THEN NoToken ELSE claim_token[i]
      /\ \A i \in Jobs \ {j} : leased'[i] = leased[i]
  BY <1>2 DEF Fail, TypeOK
<1>4. \A r \in Jobs \ {j} : fence'[r] = fence[r]
  BY <1>2, JobsAssumption DEF Fail
<1>5. CASE dead
  <2>1. Abandon({j}, {seenRun[w]} \ {NoJob})
    BY <1>5 DEF Fail
  <2>2. \A r \in Jobs : status[r] \in Active => (r \in {seenRun[w]} \ {NoJob} <=> r \in {j})
    BY <1>2
  <2>3. {j} \in SUBSET Jobs
    BY <1>2
  <2>4. /\ \A r \in Jobs : status'[r] = IF r \in LiveOf({j}) THEN "dead_letter" ELSE status[r]
        /\ reservation' = CloseSubscriptions(LiveOf({j}))
        /\ \A i \in Jobs : state'[i] = IF i \in {j} \cup MirrorAttached(LiveOf({j}))
                                       THEN "dead_letter" ELSE state[i]
    BY <2>1, <2>2, <2>3, AbandonDrops
  <2> QED
    BY <1>1, <1>3, <1>4, <2>4
<1>6. CASE ~dead
  <2>1. /\ UNCHANGED <<status, reservation>>
        /\ state' = [state EXCEPT ![j] = seenState[w]]
        /\ fence' = [r \in Jobs |-> IF r \in {q \in {seenRun[w]} \ {NoJob} : fence[q] = token[w]}
                                    THEN NoToken ELSE fence[r]]
    BY <1>6 DEF Fail
  <2>2. \A i \in Jobs : state'[i] = IF i = j THEN seenState[w] ELSE state[i]
    BY <2>1, <1>2 DEF TypeOK
  <2>3. status[j] \in Active => fence'[j] = NoToken
    BY <2>1, <1>2
  <2> QED
    BY <1>1, <1>3, <1>4, <2>1, <2>2, <2>3
<1> QED
  BY <1>5, <1>6

LEMMA FailDriven ==
    ASSUME DrivenInv, NEW w \in Workers, NEW permanent \in BOOLEAN, Fail(w, permanent),
           phase[w] \notin {"idle", "unread"}
    PROVE  Driven' /\ RunsComeLate' /\ SeenIsFresh'
<1> USE DEF DrivenInv, OwnershipInv
<1> DEFINE j == job[w]
<1>1. /\ Current(w) /\ Forget(w)
      /\ UNCHANGED <<run_id, attached, cancel_requested, payer, key, detached, seq>>
      /\ \A i \in Jobs : claim_token'[i] = IF i = j THEN NoToken ELSE claim_token[i]
      /\ \A i \in Jobs \ {j} : leased'[i] = leased[i]
      /\ \A r \in Jobs \ {j} : fence'[r] = fence[r]
      /\ \/ /\ \A r \in Jobs : status'[r] = IF r \in LiveOf({j}) THEN "dead_letter" ELSE status[r]
            /\ reservation' = CloseSubscriptions(LiveOf({j}))
            /\ \A i \in Jobs : state'[i] = IF i \in {j} \cup MirrorAttached(LiveOf({j}))
                                           THEN "dead_letter" ELSE state[i]
         \/ /\ UNCHANGED <<status, reservation>>
            /\ \A i \in Jobs : state'[i] = IF i = j THEN seenState[w] ELSE state[i]
            /\ status[j] \in Active => fence'[j] = NoToken
  BY FailDrops
<1>2. /\ j \in Jobs /\ ~attached[j]
      /\ RunOf(w) = j <=> status[j] \in Active
      /\ state[j] = "intake" => RunOf(w) = NoJob /\ j \notin Subscribed
      /\ state[j] # "intake" => RunOf(w) = j /\ j \in Subscribed
      /\ seenState[w] = "intake" <=> state[j] = "intake"
      /\ seenState[w] \in Active
  BY <1>1, ActorDrives
<1>3. \A i \in MirrorAttached(LiveOf({j})) : i \in Jobs /\ attached[i]
  BY DEF MirrorAttached
<1>4. Subscribed' = Subscribed
  BY <1>1, ClosedKeepsNames DEF Subscribed
<1>5. Driven'
  BY <1>1, <1>2, <1>3 DEF Driven, LiveOf, RunOf
<1>6. RunsComeLate'
  BY <1>1, <1>2, <1>3, <1>4 DEF RunsComeLate, RunOf
<1>7. \A i \in Jobs \ {j} : state'[i] = state[i] \/ attached[i]
  BY <1>1, <1>3
<1>8. \A v \in Workers \ {w} : StillSees(v)
  BY <1>1, <1>7, ForgetsItsOwn, OthersStillSee
<1> QED
  BY <1>1, <1>5, <1>6, <1>8, ForgetsItsOwn, SeenStays

LEMMA IntakeDriven ==
    ASSUME DrivenInv, NEW w \in Workers, StartIntake(w) \/ ServeStored(w) \/ RefuseQuota(w)
    PROVE  Driven' /\ RunsComeLate' /\ SeenIsFresh'
<1> USE DEF DrivenInv, OwnershipInv
<1>1. CASE StartIntake(w)
  <2>1. Driven' /\ RunsComeLate'
    BY <1>1 DEF StartIntake, Driven, RunsComeLate, Subscribed
  <2>2. SeenIsFresh'
    BY <1>1 DEF StartIntake, SeenIsFresh, SeenFor, TypeOK, Current, RunOf
  <2> QED
    BY <2>1, <2>2
<1>2. CASE ServeStored(w) \/ RefuseQuota(w)
  <2> DEFINE j == job[w]
  <2>1. phase[w] = "intake" /\ Current(w) /\ state[j] = "intake" /\ Forget(w)
    BY <1>2 DEF ServeStored, RefuseQuota, IntakeOwned
  <2>2. j \in Jobs /\ status[j] \notin Active /\ j \notin Subscribed
    BY <2>1, ActorDrives
  <2>3. /\ \A i \in Jobs \ {j} : /\ run_id'[i] = run_id[i] /\ state'[i] = state[i]
                                 /\ claim_token'[i] = claim_token[i] /\ leased'[i] = leased[i]
        /\ claim_token'[j] = NoToken
        /\ state'[j] \in {"complete", "quota_exceeded"}
        /\ UNCHANGED <<attached, runVars, subVars>>
    BY <1>2, <2>2 DEF ServeStored, RefuseQuota, TypeOK
  <2>4. Driven' /\ RunsComeLate'
    BY <2>2, <2>3 DEF Driven, RunsComeLate, Subscribed
  <2>5. \A v \in Workers \ {w} : StillSees(v)
    BY <2>1, <2>3, ForgetsItsOwn, OthersStillSee
  <2> QED
    BY <2>1, <2>4, <2>5, ForgetsItsOwn, SeenStays
<1> QED
  BY <1>1, <1>2

\* A job attaches: its row, subscription and claim, and the run it attaches to.
LEMMA Attaches ==
    ASSUME DrivenInv, NEW w \in Workers, AttachToRun(w)
    PROVE  /\ phase[w] = "intake" /\ Current(w) /\ state[job[w]] = "intake" /\ Forget(w)
           /\ run_id'[job[w]] \in Attachable(job[w])
           /\ \A i \in Jobs \ {job[w]} :
                  /\ run_id'[i] = run_id[i] /\ state'[i] = state[i] /\ attached'[i] = attached[i]
                  /\ claim_token'[i] = claim_token[i] /\ leased'[i] = leased[i]
                  /\ reservation'[i] = reservation[i] /\ seq'[i] = seq[i]
           /\ claim_token'[job[w]] = NoToken /\ attached'[job[w]]
           /\ state'[job[w]] = "waiting" /\ reservation'[job[w]] = "held"
           /\ seq'[job[w]] = Cardinality(Subscribed) + 1
           /\ UNCHANGED <<cancel_requested, detached, runVars>>
<1> USE DEF DrivenInv, OwnershipInv
<1>1. phase[w] = "intake" /\ Current(w) /\ state[job[w]] = "intake" /\ Forget(w)
  BY DEF AttachToRun, IntakeOwned
<1>2. job[w] \in Jobs
  BY <1>1, ActorDrives
<1>3. PICK r \in Attachable(job[w]) : run_id' = [run_id EXCEPT ![job[w]] = r]
  BY DEF AttachToRun
<1> QED
  BY <1>1, <1>2, <1>3 DEF AttachToRun, Subscribe, TypeOK

\* A job starts a run of its own.
LEMMA Starts ==
    ASSUME DrivenInv, NEW w \in Workers, StartRun(w)
    PROVE  /\ phase[w] = "intake" /\ Current(w) /\ state[job[w]] = "intake"
           /\ Attachable(job[w]) = {} /\ status[job[w]] = "none"
           /\ \A i \in Jobs \ {job[w]} :
                  /\ run_id'[i] = run_id[i] /\ state'[i] = state[i]
                  /\ status'[i] = status[i] /\ fence'[i] = fence[i] /\ payer'[i] = payer[i]
                  /\ reservation'[i] = reservation[i] /\ seq'[i] = seq[i]
           /\ run_id'[job[w]] = job[w] /\ state'[job[w]] = "analysis"
           /\ status'[job[w]] = "analysis" /\ fence'[job[w]] = token[w] /\ payer'[job[w]] = job[w]
           /\ reservation'[job[w]] = "held" /\ seq'[job[w]] = Cardinality(Subscribed) + 1
           /\ phase'[w] = "unread"
           /\ \A v \in Workers \ {w} : phase'[v] = phase[v]
           /\ UNCHANGED <<attached, cancel_requested, leased, claim_token, key, detached,
                          job, token, seenState, seenRun>>
<1> USE DEF DrivenInv, OwnershipInv
<1>1. phase[w] = "intake" /\ Current(w) /\ state[job[w]] = "intake"
  BY DEF StartRun, IntakeOwned
<1>2. job[w] \in Jobs
  BY <1>1, ActorDrives
<1>3. status[job[w]] = "none"
  BY <1>2 DEF StartRun, Started
<1> QED
  BY <1>1, <1>2, <1>3 DEF StartRun, Subscribe, TypeOK

LEMMA AttachDriven ==
    ASSUME DrivenInv, NEW w \in Workers, AttachToRun(w)
    PROVE  Driven' /\ RunsComeLate' /\ SeenIsFresh'
<1> USE DEF DrivenInv, OwnershipInv
<1> DEFINE j == job[w]
<1>1. /\ phase[w] = "intake" /\ Current(w) /\ state[j] = "intake" /\ Forget(w)
      /\ run_id'[j] \in Attachable(j)
      /\ \A i \in Jobs \ {j} :
             /\ run_id'[i] = run_id[i] /\ state'[i] = state[i] /\ attached'[i] = attached[i]
             /\ claim_token'[i] = claim_token[i] /\ leased'[i] = leased[i]
             /\ reservation'[i] = reservation[i]
      /\ claim_token'[j] = NoToken /\ attached'[j]
      /\ state'[j] = "waiting" /\ reservation'[j] = "held"
      /\ UNCHANGED runVars
  BY Attaches
<1>2. j \in Jobs /\ status[j] \notin Active /\ run_id'[j] # NoJob
  BY <1>1, ActorDrives, JobsAssumption DEF Attachable
<1>3. Driven'
  BY <1>1, <1>2 DEF Driven
<1>4. RunsComeLate'
  BY <1>1, <1>2 DEF RunsComeLate, Subscribed
<1>5. \A v \in Workers \ {w} : StillSees(v)
  BY <1>1, <1>2, ForgetsItsOwn, OthersStillSee
<1> QED
  BY <1>1, <1>3, <1>4, <1>5, ForgetsItsOwn, SeenStays

LEMMA StartDriven ==
    ASSUME DrivenInv, NEW w \in Workers, StartRun(w)
    PROVE  Driven' /\ RunsComeLate' /\ SeenIsFresh'
<1> USE DEF DrivenInv, OwnershipInv
<1> DEFINE j == job[w]
<1>1. /\ phase[w] = "intake" /\ Current(w) /\ state[j] = "intake"
      /\ \A i \in Jobs \ {j} :
             /\ run_id'[i] = run_id[i] /\ state'[i] = state[i]
             /\ status'[i] = status[i] /\ fence'[i] = fence[i]
             /\ reservation'[i] = reservation[i]
      /\ run_id'[j] = j /\ state'[j] = "analysis"
      /\ status'[j] = "analysis" /\ fence'[j] = token[w]
      /\ reservation'[j] = "held"
      /\ phase'[w] = "unread"
      /\ \A v \in Workers \ {w} : phase'[v] = phase[v]
      /\ UNCHANGED <<attached, leased, claim_token, job, token, seenState, seenRun>>
  BY Starts
<1>2. j \in Jobs /\ j # NoJob /\ ~attached[j] /\ claim_token[j] = token[w]
  BY <1>1, ActorDrives
<1>3. Driven'
  BY <1>1, <1>2 DEF Driven
<1>4. RunsComeLate'
  BY <1>1, <1>2 DEF RunsComeLate, Subscribed
<1>5. \A v \in Workers \ {w} : StillSees(v)
  BY <1>1, OthersStillSee
<1>6. SeenFor(w)'
  BY <1>1 DEF SeenFor
<1> QED
  BY <1>3, <1>4, <1>5, <1>6, SeenStays

LEMMA BeginDriven ==
    ASSUME DrivenInv, NEW w \in Workers, BeginAnalysis(w)
    PROVE  Driven' /\ RunsComeLate' /\ SeenIsFresh'
<1> USE DEF DrivenInv, OwnershipInv
<1> DEFINE j == job[w]
<1>1. /\ phase[w] = "claimed" /\ Current(w) /\ state[j] \in {"waiting", "analysis"}
      /\ UNCHANGED <<run_id, attached, leased, claim_token, fence, subVars,
                     job, token, seenState, seenRun>>
  BY DEF BeginAnalysis
<1>2. j \in Jobs /\ RunOf(w) = j /\ j \in Subscribed /\ fence[j] = token[w] /\ status[j] \in Active
  BY <1>1, ActorDrives
<1>3. /\ \A i \in Jobs : state'[i] = IF i = j THEN "analysis" ELSE state[i]
      /\ \A r \in Jobs : status'[r] = IF r = j THEN "analysis" ELSE status[r]
      /\ \A v \in Workers : phase'[v] = IF v = w THEN "unread" ELSE phase[v]
  BY <1>2 DEF BeginAnalysis, TypeOK
<1>4. Driven' /\ RunsComeLate'
  BY <1>1, <1>2, <1>3 DEF Driven, RunsComeLate, Subscribed
<1>5. \A v \in Workers \ {w} : StillSees(v)
  BY <1>1, <1>3, OthersStillSee
<1>6. SeenFor(w)'
  BY <1>1, <1>2, <1>3 DEF SeenFor
<1> QED
  BY <1>4, <1>5, <1>6, SeenStays

LEMMA ReadSettleDriven ==
    ASSUME DrivenInv, NEW w \in Workers, ReadJob(w) \/ Settle(w) \/ CancelBeforeStart(w)
    PROVE  Driven' /\ RunsComeLate' /\ SeenIsFresh'
<1> USE DEF DrivenInv, OwnershipInv
<1>1. UNCHANGED <<jobVars, status, fence, subVars, job, token>>
  BY DEF ReadJob, Settle, CancelBeforeStart
<1>2. Driven' /\ RunsComeLate'
  BY <1>1 DEF Driven, RunsComeLate, Subscribed
<1>3. \A v \in Workers \ {w} : StillSees(v)
  BY <1>1 DEF ReadJob, Settle, CancelBeforeStart, StillSees, TypeOK, Current
<1>4. SeenFor(w)'
  <2>1. CASE ReadJob(w)
    <3>1. /\ phase[w] = "unread" /\ Current(w)
          /\ phase'[w] = "analysis" /\ seenState'[w] = state[job[w]] /\ seenRun'[w] = run_id[job[w]]
      BY <2>1 DEF ReadJob, TypeOK
    <3>2. state[job[w]] # "intake"
      BY <3>1 DEF SeenIsFresh, SeenFor
    <3> QED
      BY <1>1, <3>1, <3>2 DEF SeenFor, RunOf
  <2>2. CASE Settle(w) \/ CancelBeforeStart(w)
    <3>1. phase[w] \in {"analysis", "cancelling"} /\ phase'[w] = "settled"
          /\ seenState' = seenState /\ seenRun' = seenRun
      BY <2>2 DEF Settle, CancelBeforeStart, SeesCancel, TypeOK
    <3> QED
      BY <1>1, <3>1 DEF SeenIsFresh, SeenFor, Current, RunOf
  <2> QED
    BY <2>1, <2>2
<1> QED
  BY <1>2, <1>3, <1>4, SeenStays

\* A job ends with its run: what terminal() writes, for one outcome.
LEMMA Finishes ==
    ASSUME DrivenInv, NEW w \in Workers, FinishJob(w)
    PROVE  /\ phase[w] = "settled" /\ Current(w) /\ Forget(w)
           /\ UNCHANGED <<run_id, attached, cancel_requested, payer, key, detached, seq>>
           /\ \A i \in Jobs : claim_token'[i] = IF i = job[w] THEN NoToken ELSE claim_token[i]
           /\ \A i \in Jobs \ {job[w]} : leased'[i] = leased[i]
           /\ \A r \in Jobs \ {job[w]} : fence'[r] = fence[r]
           /\ reservation' = CloseSubscriptions(LiveOf({job[w]}))
           /\ state'[job[w]] \in Outcomes \cup {"cancelled"}
           /\ \A r \in Jobs : status'[r] = status[r]
                              \/ (r \in LiveOf({job[w]}) /\ status'[r] \in Outcomes \cup {"cancelled"})
           /\ \A r \in LiveOf({job[w]}) : status'[r] \in Outcomes \cup {"cancelled"}
           /\ \A i \in Jobs \ {job[w]} :
                  \/ state'[i] = state[i]
                  \/ /\ i \in MirrorAttached(LiveOf({job[w]}))
                     /\ state'[i] \in Outcomes \cup {"cancelled"}
<1> USE DEF DrivenInv, OwnershipInv
<1> DEFINE j == job[w]
           ended == {q \in {RunOf(w)} \ {NoJob} : fence[q] = token[w]}
<1>1. /\ phase[w] = "settled" /\ Current(w) /\ Forget(w)
      /\ UNCHANGED <<run_id, attached, cancel_requested, payer, key, detached, seq>>
  BY DEF FinishJob
<1>2. /\ j \in Jobs /\ j # NoJob
      /\ RunOf(w) \in {NoJob, j}
      /\ RunOf(w) = j <=> status[j] \in Active
      /\ status[j] \in Active => fence[j] = token[w]
  BY <1>1, ActorDrives
<1>3. ended = LiveOf({j})
  BY <1>2 DEF LiveOf
<1>4. result[w] \in Outcomes \cup {"cancelled"}
  BY DEF FinishJob, RunsInv, SettledBeforeEnd, TypeOK
<1>5. PICK outcome \in Outcomes \cup {"cancelled"} :
          /\ status' = [q \in Jobs |-> IF q \in ended THEN outcome ELSE status[q]]
          /\ state' = [i \in Jobs |->
                          IF i = j THEN IF detached[j] THEN "cancelled" ELSE outcome
                          ELSE IF i \in MirrorAttached(ended) THEN outcome ELSE state[i]]
  BY <1>4 DEF FinishJob
<1>6. /\ reservation' = CloseSubscriptions(ended)
      /\ fence' = [q \in Jobs |-> IF q \in ended THEN NoToken ELSE fence[q]]
      /\ leased' = [leased EXCEPT ![j] = FALSE]
      /\ claim_token' = [claim_token EXCEPT ![j] = NoToken]
  BY DEF FinishJob
<1> HIDE DEF ended
<1>7. LiveOf({j}) \subseteq {j}
  BY DEF LiveOf
<1>8. /\ \A i \in Jobs : claim_token'[i] = IF i = j THEN NoToken ELSE claim_token[i]
      /\ \A i \in Jobs \ {j} : leased'[i] = leased[i]
      /\ \A r \in Jobs \ {j} : fence'[r] = fence[r]
  BY <1>2, <1>3, <1>6, <1>7 DEF TypeOK
<1>9. state'[j] \in Outcomes \cup {"cancelled"}
  BY <1>2, <1>5
<1>10. /\ \A r \in Jobs : status'[r] = status[r]
                          \/ (r \in LiveOf({j}) /\ status'[r] \in Outcomes \cup {"cancelled"})
       /\ \A r \in LiveOf({j}) : status'[r] \in Outcomes \cup {"cancelled"}
  BY <1>2, <1>3, <1>5, <1>7
<1>11. \A i \in Jobs \ {j} : \/ state'[i] = state[i]
                            \/ /\ i \in MirrorAttached(LiveOf({j}))
                               /\ state'[i] \in Outcomes \cup {"cancelled"}
  BY <1>3, <1>5
<1> QED
  BY <1>1, <1>3, <1>6, <1>8, <1>9, <1>10, <1>11

LEMMA FinishDriven ==
    ASSUME DrivenInv, NEW w \in Workers, FinishJob(w)
    PROVE  Driven' /\ RunsComeLate' /\ SeenIsFresh'
<1> USE DEF DrivenInv, OwnershipInv
<1> DEFINE j == job[w]
<1>1. /\ Current(w) /\ Forget(w) /\ phase[w] = "settled"
      /\ UNCHANGED <<run_id, attached, cancel_requested, payer, key, detached, seq>>
      /\ \A i \in Jobs : claim_token'[i] = IF i = j THEN NoToken ELSE claim_token[i]
      /\ \A i \in Jobs \ {j} : leased'[i] = leased[i]
      /\ \A r \in Jobs \ {j} : fence'[r] = fence[r]
      /\ reservation' = CloseSubscriptions(LiveOf({j}))
      /\ state'[j] \in Outcomes \cup {"cancelled"}
      /\ \A r \in Jobs : status'[r] = status[r]
                         \/ (r \in LiveOf({j}) /\ status'[r] \in Outcomes \cup {"cancelled"})
      /\ \A r \in LiveOf({j}) : status'[r] \in Outcomes \cup {"cancelled"}
      /\ \A i \in Jobs \ {j} : \/ state'[i] = state[i]
                               \/ /\ i \in MirrorAttached(LiveOf({j}))
                                  /\ state'[i] \in Outcomes \cup {"cancelled"}
  BY Finishes
<1>2. j \in Jobs
  BY <1>1, ActorDrives
<1>3. \A i \in MirrorAttached(LiveOf({j})) : i \in Jobs /\ attached[i]
  BY DEF MirrorAttached
<1>4. Subscribed' = Subscribed
  BY <1>1, ClosedKeepsNames
<1>5. Driven'
  <2> SUFFICES ASSUME NEW r \in Jobs, status'[r] \in Active
               PROVE  /\ state'[r] \in Active /\ ~attached[r] /\ run_id[r] = r
                      /\ fence'[r] = claim_token'[r]
    BY <1>1 DEF Driven
  <2>1. r \notin LiveOf({j}) /\ status'[r] = status[r]
    BY <1>1, OutcomesAssumption DEF Active
  <2>2. r # j
    BY <1>2, <2>1 DEF LiveOf
  <2>3. state[r] \in Active /\ ~attached[r] /\ run_id[r] = r /\ fence[r] = claim_token[r]
    BY <2>1 DEF Driven
  <2> QED
    BY <1>1, <1>3, <2>2, <2>3
<1>6. RunsComeLate'
  BY <1>1, <1>2, <1>4 DEF RunsComeLate
<1>7. \A i \in Jobs \ {j} : state'[i] = state[i] \/ attached[i]
  BY <1>1, <1>3
<1>8. \A v \in Workers \ {w} : StillSees(v)
  BY <1>1, <1>7, ForgetsItsOwn, OthersStillSee
<1> QED
  BY <1>1, <1>5, <1>6, <1>8, ForgetsItsOwn, SeenStays

\* Why a parked row's new state agrees with the old one on whether intake committed.
LEMMA ParksAsItWas ==
    ASSUME DrivenInv, NEW w \in Workers, BreakerWait(w) \/ SourceBusy(w) \/ ProviderWait(w)
    PROVE  /\ phase[w] # "idle"
           /\ \E parked \in {"intake", "waiting"} :
                  Wait(w, parked) /\ (parked = "intake" <=> state[job[w]] = "intake")
<1>1. PICK parked \in {"intake", "waiting"} :
          /\ Wait(w, parked) /\ phase[w] \notin {"idle", "unread"}
          /\ \/ phase[w] = "claimed" /\ parked = (IF seenRun[w] = NoJob THEN "intake" ELSE "waiting")
             \/ parked = (IF seenState[w] = "intake" THEN "intake" ELSE "waiting")
             \/ phase[w] = "analysis" /\ parked = "waiting"
  BY DEF BreakerWait, SourceBusy, ProviderWait
<1>2. Current(w)
  BY <1>1 DEF Wait
<1>3. /\ state[job[w]] = "intake" => RunOf(w) = NoJob
      /\ state[job[w]] # "intake" => RunOf(w) = job[w]
      /\ job[w] # NoJob
      /\ seenRun[w] = RunOf(w)
      /\ seenState[w] = "intake" <=> state[job[w]] = "intake"
  BY <1>1, <1>2, ActorDrives
<1>4. phase[w] = "analysis" => state[job[w]] # "intake"
  BY <1>2 DEF DrivenInv, SeenIsFresh, SeenFor
<1> QED
  BY <1>1, <1>3, <1>4

LEMMA NextDriven ==
    ASSUME ~ReadFaults, DrivenInv, [Next]_vars
    PROVE  DrivenInv'
<1>1. OwnershipInv'
  BY NextOwned DEF DrivenInv
<1>2. Driven' /\ RunsComeLate' /\ SeenIsFresh'
  <2>1. CASE \E j \in Jobs : User(j) \/ LeaseLapses(j)
    BY <2>1, EnqueueDriven, DetachDriven, FlagCancelDriven, CancelUnclaimedDriven,
       LeaseLapsesDriven DEF User, RequestCancel
  <2>2. CASE \E w \in Workers : Idle(w) \/ Crash(w) \/ GiveUp(w)
    <3>1. ASSUME NEW w \in Workers, Claim(w) PROVE Driven' /\ RunsComeLate' /\ SeenIsFresh'
      BY <3>1, ClaimTakes, ClaimDriven DEF DrivenInv, OwnershipInv
    <3> QED
      BY <2>2, <3>1, ReconcileDriven, ClaimNothingDriven, CrashDriven DEF Idle
  <2>3. ASSUME NEW w \in Workers, BreakerWait(w) \/ SourceBusy(w) \/ ProviderWait(w)
        PROVE  Driven' /\ RunsComeLate' /\ SeenIsFresh'
    BY <2>3, ParksAsItWas, WaitDriven
  <2>4. ASSUME NEW w \in Workers, RefusePaid(w) \/ WorkerFails(w)
        PROVE  Driven' /\ RunsComeLate' /\ SeenIsFresh'
    <3>1. phase[w] \notin {"idle", "unread"} /\ (Fail(w, TRUE) \/ Fail(w, FALSE))
      BY <2>4 DEF RefusePaid, WorkerFails
    <3> QED
      BY <3>1, FailDriven
  <2>5. CASE \E w \in Workers : Proceed(w)
    BY <2>5, <2>2, <2>3, <2>4, IntakeDriven, AttachDriven, StartDriven, BeginDriven,
       ReadSettleDriven, FinishDriven DEF Proceed, CommitIntake, ReadFails
  <2>6. CASE \E D \in SUBSET Jobs : ExpireDeadLetters(D)
    BY <2>6, ExpireDriven
  <2>7. CASE UNCHANGED vars
    BY <2>7 DEF vars, DrivenInv, Driven, RunsComeLate, SeenIsFresh, SeenFor, Subscribed,
                Current, RunOf
  <2> QED
    BY <2>1, <2>2, <2>5, <2>6, <2>7 DEF Next
<1> QED
  BY <1>1, <1>2 DEF DrivenInv

LEMMA InitDriven == Init => DrivenInv
BY InitOwned DEF Init, DrivenInv, Driven, RunsComeLate, SeenIsFresh, SeenFor, Subscribed

\* As long as no read fails after an intake commit, a live run always has its driver:
\* the job that started it is active, names it and is not attached to another, so the
\* next claim resumes the run whatever crashed, lapsed or was parked.
THEOREM LiveRunsAreDriven == ~ReadFaults /\ Spec => []RunHasDriver
<1> SUFFICES ASSUME ~ReadFaults PROVE Spec => []RunHasDriver
  OBVIOUS
<1>1. Init => DrivenInv
  BY InitDriven
<1>2. DrivenInv /\ [Next]_vars => DrivenInv'
  BY NextDriven
<1>3. DrivenInv => RunHasDriver
  BY DEF DrivenInv, Driven, RunHasDriver
<1> QED
  BY <1>1, <1>2, <1>3, PTL DEF Spec

-----------------------------------------------------------------------------
(* Who pays, under the same condition: the payer of a live run is the first   *)
(* of those who stayed, and when the run ends its reservation alone settles.  *)

\* Attachment order is total, and only a subscriber can have left.
SubscriptionsFit ==
    /\ \A j \in Subscribed : seq[j] <= Cardinality(Subscribed)
    /\ \A i, j \in Subscribed : seq[i] = seq[j] => i = j
    /\ \A j \in Jobs : detached[j] => j \in Subscribed

\* A live run has one payer, which holds its reservation and came before every other
\* subscriber that stayed; nobody's reservation is settled yet.
PaidFor(r) ==
    status[r] \in Active =>
        /\ payer[r] \in Jobs /\ run_id[payer[r]] = r /\ reservation[payer[r]] = "held"
        /\ \A i \in LiveSubscribers(r) \ {payer[r]} : seq[payer[r]] < seq[i]
        /\ LiveSubscribers(r) # {} => payer[r] \in LiveSubscribers(r)
        /\ \A i \in Jobs : run_id[i] = r => reservation[i] # "settled"

\* A run that ended settled its payer's reservation and let every other go.
PaidOut(r) ==
    status[r] \notin Active \cup {"none"} =>
        /\ payer[r] \in Jobs /\ run_id[payer[r]] = r /\ reservation[payer[r]] = "settled"
        /\ \A i \in Jobs \ {payer[r]} : run_id[i] = r => reservation[i] \in {"none", "released"}

RunsArePaid == \A r \in Jobs : PaidFor(r) /\ PaidOut(r)

MoneyInv == DrivenInv /\ SubscriptionsFit /\ RunsArePaid /\ OneRunPerKey

\* A step that leaves run r, its payer and its subscriptions as they were; a job that
\* comes to name r without a subscription was served r's stored result.
Kept(r) ==
    /\ status'[r] \in Active <=> status[r] \in Active
    /\ status'[r] = "none" <=> status[r] = "none"
    /\ payer'[r] = payer[r]
    /\ \A i \in Jobs :
           /\ run_id[i] = r /\ reservation[i] # "none" => run_id'[i] = r
           /\ run_id'[i] = r => run_id[i] = r \/ reservation'[i] = "none"
           /\ run_id'[i] = r \/ run_id[i] = r => reservation'[i] = reservation[i]
           /\ run_id[i] = r /\ status[r] \in Active =>
                  /\ detached'[i] = detached[i] /\ seq'[i] = seq[i]
                  /\ state'[i] \in Active <=> state[i] \in Active

\* A step that ends run r and closes its subscriptions.
Closed(r) ==
    /\ status[r] \in Active /\ status'[r] \notin Active \cup {"none"}
    /\ payer'[r] = payer[r]
    /\ run_id' = run_id
    /\ \A i \in Jobs : run_id[i] = r =>
           reservation'[i] = IF reservation[i] = "held"
                             THEN IF payer[r] = i THEN "settled" ELSE "released"
                             ELSE reservation[i]

LEMMA KeptSubscribers ==
    ASSUME NEW r \in Jobs, status[r] \in Active, Kept(r)
    PROVE  LiveSubscribers(r)' = LiveSubscribers(r)
BY DEF Kept, LiveSubscribers

LEMMA KeptIsPaid ==
    ASSUME TypeOK, NEW r \in Jobs, PaidFor(r), PaidOut(r), Kept(r)
    PROVE  PaidFor(r)' /\ PaidOut(r)'
<1>1. PaidFor(r)'
  <2> SUFFICES ASSUME status'[r] \in Active PROVE PaidFor(r)'
    BY DEF PaidFor
  <2>1. status[r] \in Active /\ payer'[r] = payer[r]
    BY DEF Kept
  <2>2. LiveSubscribers(r)' = LiveSubscribers(r)
    BY <2>1, KeptSubscribers
  <2>3. payer[r] \in Jobs /\ run_id[payer[r]] = r /\ reservation[payer[r]] = "held"
    BY <2>1 DEF PaidFor
  <2>4. run_id'[payer[r]] = r /\ reservation'[payer[r]] = "held"
    BY <2>3 DEF Kept
  <2>5. \A i \in Jobs : run_id[i] = r => seq'[i] = seq[i]
    BY <2>1 DEF Kept
  <2>6. \A i \in LiveSubscribers(r) : i \in Jobs /\ run_id[i] = r
    BY DEF LiveSubscribers
  <2>7. \A i \in LiveSubscribers(r) \ {payer[r]} : seq'[payer[r]] < seq'[i]
    BY <2>1, <2>3, <2>5, <2>6 DEF PaidFor
  <2>8. \A i \in Jobs : run_id'[i] = r => reservation'[i] # "settled"
    BY <2>1 DEF PaidFor, Kept
  <2>9. LiveSubscribers(r) # {} => payer[r] \in LiveSubscribers(r)
    BY <2>1 DEF PaidFor
  <2> QED
    BY <2>1, <2>2, <2>3, <2>4, <2>7, <2>8, <2>9 DEF PaidFor
<1>2. PaidOut(r)'
  BY DEF Kept, PaidOut
<1> QED
  BY <1>1, <1>2

LEMMA ClosedIsPaid ==
    ASSUME TypeOK, NEW r \in Jobs, PaidFor(r), Closed(r)
    PROVE  PaidFor(r)' /\ PaidOut(r)'
<1>1. /\ payer[r] \in Jobs /\ run_id[payer[r]] = r /\ reservation[payer[r]] = "held"
      /\ \A i \in Jobs : run_id[i] = r => reservation[i] # "settled"
  BY DEF PaidFor, Closed
<1>2. \A i \in Jobs : reservation[i] \in {"none", "held", "released", "settled"}
  BY DEF TypeOK
<1>3. PaidFor(r)'
  BY DEF PaidFor, Closed
<1>4. PaidOut(r)'
  BY <1>1, <1>2 DEF PaidOut, Closed
<1> QED
  BY <1>3, <1>4

\* A step in which no one subscribes, leaves or is paid back, but runs may end.
Steady ==
    /\ UNCHANGED <<key, seq, detached>>
    /\ Subscribed' = Subscribed
    /\ \A j \in Jobs : cancel_requested[j] => cancel_requested'[j]
    /\ \A r \in Jobs : Kept(r) \/ Closed(r)

LEMMA NoNewJoinable ==
    ASSUME OneRunPerKey, key' = key, \A r \in Jobs : Joinable(r)' => Joinable(r)
    PROVE  OneRunPerKey'
BY DEF OneRunPerKey

LEMMA SteadyIsPaid ==
    ASSUME MoneyInv, Steady
    PROVE  SubscriptionsFit' /\ RunsArePaid' /\ OneRunPerKey'
<1> USE DEF MoneyInv, DrivenInv, OwnershipInv
<1>1. SubscriptionsFit'
  BY DEF Steady, SubscriptionsFit
<1>2. RunsArePaid'
  BY KeptIsPaid, ClosedIsPaid DEF Steady, RunsArePaid
<1>3. ASSUME NEW r \in Jobs, Joinable(r)' PROVE Joinable(r)
  <2>1. Kept(r)
    BY <1>3 DEF Steady, Closed, Joinable
  <2>2. status[r] \in Active
    BY <1>3, <2>1 DEF Joinable, Kept
  <2>3. LiveSubscribers(r)' = LiveSubscribers(r)
    BY <2>1, <2>2, KeptSubscribers
  <2> QED
    BY <1>3, <2>2, <2>3 DEF Joinable, Steady
<1>4. OneRunPerKey'
  BY <1>3, NoNewJoinable DEF Steady
<1> QED
  BY <1>1, <1>2, <1>4

\* Steps that touch no subscription and end no run are steady.
Calm ==
    /\ UNCHANGED <<run_id, payer, key, subVars>>
    /\ \A j \in Jobs : cancel_requested[j] => cancel_requested'[j]
    /\ \A r \in Jobs : /\ status'[r] \in Active <=> status[r] \in Active
                       /\ status'[r] = "none" <=> status[r] = "none"
    /\ \A i \in Jobs : run_id[i] \in Jobs /\ status[run_id[i]] \in Active =>
                           (state'[i] \in Active <=> state[i] \in Active)

LEMMA CalmIsSteady == ASSUME Calm PROVE Steady
BY DEF Calm, Steady, Kept, Subscribed

LEMMA UsersPay ==
    ASSUME MoneyInv, NEW j \in Jobs,
           Enqueue(j) \/ FlagCancel(j) \/ CancelUnclaimed(j) \/ LeaseLapses(j)
    PROVE  Steady
<1> USE DEF MoneyInv, DrivenInv, OwnershipInv
<1>1. \A i \in Jobs : state[i] \in {"none", "intake"} => run_id[i] \notin Jobs
  BY JobsAssumption DEF RunsComeLate
<1>2. Calm
  BY <1>1 DEF Enqueue, FlagCancel, CancelUnclaimed, LeaseLapses, Calm, TypeOK
<1> QED
  BY <1>2, CalmIsSteady

LEMMA ExpirePays ==
    ASSUME MoneyInv, NEW D \in SUBSET Jobs, ExpireDeadLetters(D)
    PROVE  Steady
<1> USE DEF MoneyInv, DrivenInv, OwnershipInv
<1>1. \A j \in D : run_id[j] \in Jobs => status[run_id[j]] \notin Active
  <2> SUFFICES ASSUME NEW j \in D, run_id[j] \in Jobs, status[run_id[j]] \in Active
               PROVE  FALSE
    OBVIOUS
  <2>1. j \in Jobs /\ state[j] = "dead_letter" /\ run_id[j] # NoJob
    BY JobsAssumption DEF ExpireDeadLetters
  <2>2. ~attached[j] => run_id[j] = j
    BY <2>1 DEF RunsInv, DriverOwnsRun
  <2>3. attached[j] => status[run_id[j]] \notin Active
    BY <2>1 DEF RunsInv, DriverOwnsRun
  <2> QED
    BY <2>1, <2>2, <2>3 DEF Driven
<1>2. \A r \in Jobs : /\ status'[r] \in Active <=> status[r] \in Active
                      /\ status'[r] = "none" <=> status[r] = "none"
  BY <1>1 DEF ExpireDeadLetters
<1>3. \A i \in Jobs : state'[i] \in Active <=> state[i] \in Active
  BY DEF ExpireDeadLetters
<1>4. Calm
  BY <1>2, <1>3 DEF Calm, ExpireDeadLetters
<1> QED
  BY <1>4, CalmIsSteady

LEMMA ReconcilePays ==
    ASSUME MoneyInv, NEW w \in Workers, ReconcileAttached(w)
    PROVE  Steady
<1>1. \A i \in Jobs : state'[i] = state[i] \/ status[run_id[i]] \notin Active
  BY DEF ReconcileAttached, MirrorAttached
<1>2. Calm
  BY <1>1 DEF Calm, ReconcileAttached
<1> QED
  BY <1>2, CalmIsSteady

LEMMA MemoryPays ==
    ASSUME MoneyInv, NEW w \in Workers,
           \/ Crash(w) \/ GiveUp(w) \/ StartIntake(w) \/ ReadJob(w)
           \/ Settle(w) \/ CancelBeforeStart(w)
    PROVE  Steady
<1>1. UNCHANGED <<jobVars, status, payer, key, subVars>>
  BY DEF Crash, GiveUp, StartIntake, ReadJob, Settle, CancelBeforeStart
<1>2. Calm
  BY <1>1 DEF Calm
<1> QED
  BY <1>2, CalmIsSteady

LEMMA WaitPays ==
    ASSUME MoneyInv, NEW w \in Workers, NEW parked \in {"intake", "waiting"}, Wait(w, parked),
           phase[w] # "idle"
    PROVE  Steady
<1> USE DEF MoneyInv, DrivenInv, OwnershipInv
<1>1. Current(w)
  BY DEF Wait
<1>2. /\ job[w] \in Jobs
      /\ RunOf(w) \in {NoJob, job[w]}
      /\ RunOf(w) = job[w] <=> status[job[w]] \in Active
  BY <1>1, ActorDrives
<1>3. /\ \A r \in Jobs : /\ status'[r] \in Active <=> status[r] \in Active
                         /\ status'[r] = "none" <=> status[r] = "none"
      /\ \A i \in Jobs : state'[i] \in Active <=> state[i] \in Active
      /\ UNCHANGED <<run_id, cancel_requested, payer, key, subVars>>
  BY <1>1, <1>2, JobsAssumption DEF Wait, TypeOK, Current
<1>4. Calm
  BY <1>3 DEF Calm
<1> QED
  BY <1>4, CalmIsSteady

LEMMA BeginPays ==
    ASSUME MoneyInv, NEW w \in Workers, BeginAnalysis(w)
    PROVE  Steady
<1> USE DEF MoneyInv, DrivenInv, OwnershipInv
<1>1. /\ phase[w] = "claimed" /\ Current(w) /\ state[job[w]] \in {"waiting", "analysis"}
      /\ UNCHANGED <<run_id, cancel_requested, payer, key, subVars>>
  BY DEF BeginAnalysis
<1>2. job[w] \in Jobs /\ RunOf(w) = job[w] /\ status[job[w]] \in Active
  BY <1>1, ActorDrives
<1>3. /\ \A i \in Jobs : state'[i] = IF i = job[w] THEN "analysis" ELSE state[i]
      /\ \A r \in Jobs : status'[r] = status[r] \/ (r = job[w] /\ status'[r] = "analysis")
  BY <1>2 DEF BeginAnalysis, TypeOK
<1>4. Calm
  BY <1>1, <1>2, <1>3 DEF Calm
<1> QED
  BY <1>4, CalmIsSteady

LEMMA ServePays ==
    ASSUME MoneyInv, NEW w \in Workers, ServeStored(w) \/ RefuseQuota(w)
    PROVE  Steady
<1> USE DEF MoneyInv, DrivenInv, OwnershipInv
<1> DEFINE j == job[w]
<1>1. phase[w] = "intake" /\ Current(w) /\ state[j] = "intake"
  BY DEF ServeStored, RefuseQuota, IntakeOwned
<1>2. j \in Jobs /\ RunOf(w) = NoJob /\ j \notin Subscribed
  BY <1>1, ActorDrives
<1>3. /\ \A i \in Jobs \ {j} : run_id'[i] = run_id[i] /\ state'[i] = state[i]
      /\ UNCHANGED <<cancel_requested, runVars, subVars>>
  BY <1>2 DEF ServeStored, RefuseQuota, TypeOK
<1>4. run_id[j] \notin Jobs /\ reservation[j] = "none"
  BY <1>2, JobsAssumption DEF RunOf, Subscribed
<1>5. \A r \in Jobs : Kept(r)
  BY <1>2, <1>3, <1>4 DEF Kept
<1> QED
  BY <1>3, <1>5 DEF Steady, Subscribed

\* The steps in which the jobs Q die or end, and their live runs with them.
LEMMA EndingPays ==
    ASSUME MoneyInv, NEW Q \in SUBSET Jobs,
           \A q \in Q : run_id[q] \in {NoJob, q} /\ state[q] \in Active /\ ~attached[q],
           \A r \in Jobs : status'[r] = status[r]
                           \/ (r \in LiveOf(Q) /\ status'[r] \notin Active \cup {"none"}),
           \A r \in LiveOf(Q) : status'[r] \notin Active \cup {"none"},
           reservation' = CloseSubscriptions(LiveOf(Q)),
           \A i \in Jobs \ Q : state'[i] = state[i] \/ i \in MirrorAttached(LiveOf(Q)),
           UNCHANGED <<run_id, cancel_requested, payer, key, detached, seq>>
    PROVE  Steady
<1> USE DEF MoneyInv, DrivenInv, OwnershipInv
<1>1. Subscribed' = Subscribed
  BY ClosedKeepsNames
<1>2. ASSUME NEW r \in LiveOf(Q) PROVE Closed(r)
  BY <1>2 DEF LiveOf, Closed, CloseSubscriptions
<1>3. ASSUME NEW r \in Jobs, r \notin LiveOf(Q) PROVE Kept(r)
  <2>1. \A i \in Jobs : run_id[i] = r => reservation'[i] = reservation[i]
    BY <1>3 DEF CloseSubscriptions
  <2>2. status'[r] = status[r]
    BY <1>3
  <2>3. ASSUME NEW i \in Jobs, run_id[i] = r, status[r] \in Active
        PROVE  state'[i] = state[i]
    <3>1. i \notin MirrorAttached(LiveOf(Q))
      BY <1>3, <2>3 DEF MirrorAttached
    <3>2. i \notin Q
      BY <1>3, <2>3, JobsAssumption DEF LiveOf
    <3> QED
      BY <3>1, <3>2
  <2> QED
    BY <2>1, <2>2, <2>3 DEF Kept
<1> QED
  BY <1>1, <1>2, <1>3 DEF Steady

LEMMA QuarantinePays ==
    ASSUME MoneyInv, NEW Q \in SUBSET Exhausted, Quarantine(Q)
    PROVE  Steady
<1>1. /\ \A r \in Jobs : status'[r] = IF r \in LiveOf(Q) THEN "dead_letter" ELSE status[r]
      /\ reservation' = CloseSubscriptions(LiveOf(Q))
      /\ \A i \in Jobs : state'[i] = IF i \in Q \cup MirrorAttached(LiveOf(Q))
                                     THEN "dead_letter" ELSE state[i]
      /\ Q \in SUBSET Jobs /\ \A i \in Q : ~attached[i] /\ run_id[i] \in {NoJob, i}
  BY QuarantineDrops DEF MoneyInv
<1>2. \A q \in Q : state[q] \in Active
  BY DEF Exhausted, Claimable
<1>3. UNCHANGED <<run_id, cancel_requested, payer, key, detached, seq>>
  BY DEF Quarantine
<1>4. LiveOf(Q) \subseteq Jobs
  BY <1>1 DEF LiveOf
<1>5. /\ \A r \in Jobs : status'[r] = status[r]
                         \/ (r \in LiveOf(Q) /\ status'[r] \notin Active \cup {"none"})
      /\ \A r \in LiveOf(Q) : status'[r] \notin Active \cup {"none"}
      /\ \A i \in Jobs \ Q : state'[i] = state[i] \/ i \in MirrorAttached(LiveOf(Q))
      /\ \A q \in Q : run_id[q] \in {NoJob, q} /\ state[q] \in Active /\ ~attached[q]
  BY <1>1, <1>2, <1>4
<1> QED
  BY <1>1, <1>3, <1>5, EndingPays

LEMMA ClaimsPay ==
    ASSUME MoneyInv, NEW w \in Workers, Claim(w) \/ ClaimNothing(w)
    PROVE  Steady
<1>1. CASE Claim(w)
  <2>1. PICK j \in Jobs : Taken(w, j)
    BY <1>1, ClaimTakes DEF MoneyInv, DrivenInv, OwnershipInv
  <2>2. Quarantine({i \in Exhausted : i < j}) /\ {i \in Exhausted : i < j} \in SUBSET Exhausted
    BY <2>1 DEF Taken
  <2> QED
    BY <2>2, QuarantinePays
<1>2. CASE ClaimNothing(w)
  BY <1>2, QuarantinePays DEF ClaimNothing
<1> QED
  BY <1>1, <1>2

LEMMA FailPays ==
    ASSUME MoneyInv, NEW w \in Workers, NEW permanent \in BOOLEAN, Fail(w, permanent),
           phase[w] \notin {"idle", "unread"}
    PROVE  Steady
<1> USE DEF MoneyInv, DrivenInv, OwnershipInv
<1> DEFINE j == job[w]
<1>1. /\ Current(w)
      /\ UNCHANGED <<run_id, attached, cancel_requested, payer, key, detached, seq>>
      /\ \/ /\ \A r \in Jobs : status'[r] = IF r \in LiveOf({j}) THEN "dead_letter" ELSE status[r]
            /\ reservation' = CloseSubscriptions(LiveOf({j}))
            /\ \A i \in Jobs : state'[i] = IF i \in {j} \cup MirrorAttached(LiveOf({j}))
                                           THEN "dead_letter" ELSE state[i]
         \/ /\ UNCHANGED <<status, reservation>>
            /\ \A i \in Jobs : state'[i] = IF i = j THEN seenState[w] ELSE state[i]
  BY FailDrops
<1>2. /\ j \in Jobs /\ ~attached[j] /\ run_id[j] \in {NoJob, j}
      /\ state[j] \in Active /\ seenState[w] \in Active
  BY <1>1, ActorDrives DEF RunOf, Current
<1>3. CASE /\ \A r \in Jobs : status'[r] = IF r \in LiveOf({j}) THEN "dead_letter" ELSE status[r]
           /\ reservation' = CloseSubscriptions(LiveOf({j}))
           /\ \A i \in Jobs : state'[i] = IF i \in {j} \cup MirrorAttached(LiveOf({j}))
                                          THEN "dead_letter" ELSE state[i]
  <2>1. LiveOf({j}) \subseteq Jobs
    BY <1>2 DEF LiveOf
  <2>2. /\ \A r \in Jobs : status'[r] = status[r]
                           \/ (r \in LiveOf({j}) /\ status'[r] \notin Active \cup {"none"})
        /\ \A r \in LiveOf({j}) : status'[r] \notin Active \cup {"none"}
        /\ \A i \in Jobs \ {j} : state'[i] = state[i] \/ i \in MirrorAttached(LiveOf({j}))
        /\ \A q \in {j} : run_id[q] \in {NoJob, q} /\ state[q] \in Active /\ ~attached[q]
        /\ {j} \in SUBSET Jobs
    BY <1>2, <1>3, <2>1
  <2> QED
    BY <1>1, <1>3, <2>2, EndingPays
<1>4. CASE /\ UNCHANGED <<status, reservation>>
           /\ \A i \in Jobs : state'[i] = IF i = j THEN seenState[w] ELSE state[i]
  <2>1. Calm
    BY <1>1, <1>2, <1>4 DEF Calm
  <2> QED
    BY <2>1, CalmIsSteady
<1> QED
  BY <1>1, <1>3, <1>4

LEMMA FinishPays ==
    ASSUME MoneyInv, NEW w \in Workers, FinishJob(w)
    PROVE  Steady
<1> USE DEF MoneyInv, DrivenInv, OwnershipInv
<1> DEFINE j == job[w]
<1>1. /\ Current(w) /\ phase[w] = "settled"
      /\ UNCHANGED <<run_id, attached, cancel_requested, payer, key, detached, seq>>
      /\ reservation' = CloseSubscriptions(LiveOf({j}))
      /\ \A r \in Jobs : status'[r] = status[r]
                         \/ (r \in LiveOf({j}) /\ status'[r] \in Outcomes \cup {"cancelled"})
      /\ \A r \in LiveOf({j}) : status'[r] \in Outcomes \cup {"cancelled"}
      /\ \A i \in Jobs \ {j} : state'[i] = state[i] \/ i \in MirrorAttached(LiveOf({j}))
  BY Finishes
<1>2. j \in Jobs /\ ~attached[j] /\ run_id[j] \in {NoJob, j} /\ state[j] \in Active
  BY <1>1, ActorDrives DEF RunOf, Current
<1>3. /\ \A r \in Jobs : status'[r] = status[r]
                         \/ (r \in LiveOf({j}) /\ status'[r] \notin Active \cup {"none"})
      /\ \A r \in LiveOf({j}) : status'[r] \notin Active \cup {"none"}
      /\ \A q \in {j} : run_id[q] \in {NoJob, q} /\ state[q] \in Active /\ ~attached[q]
      /\ {j} \in SUBSET Jobs
  BY <1>1, <1>2
<1> QED
  BY <1>1, <1>3, EndingPays

\* The earliest of some subscribers attached no later than any of them.
LEMMA EarliestIsFirst ==
    ASSUME TypeOK, NEW S \in SUBSET Jobs, S # {}
    PROVE  \A i \in S : seq[Earliest(S)] <= seq[i]
<1> DEFINE order == {seq[j] : j \in S}
<1>1. order \subseteq Nat /\ order # {}
  BY DEF TypeOK
<1>2. PICK n \in order : \A m \in order : ~ (<<m, n>> \in OpToRel(<, Nat))
  BY <1>1, WFMin, NatLessThanWellFounded, Zenon
<1>3. \A m \in order : ~ (m < n)
  BY <1>1, <1>2, Zenon DEF OpToRel
<1>4. PICK j \in S : seq[j] = n
  BY <1>2
<1>5. \A i \in S : seq[j] <= seq[i]
  BY <1>1, <1>3, <1>4
<1> QED
  BY <1>5, Zenon DEF Earliest

\* A job that came before every other of S is the earliest of S.
LEMMA FirstIsEarliest ==
    ASSUME TypeOK, NEW S \in SUBSET Jobs, NEW p \in S, \A i \in S \ {p} : seq[p] < seq[i]
    PROVE  Earliest(S) = p
<1>1. Earliest(S) \in S /\ \A i \in S : seq[Earliest(S)] <= seq[i]
  BY EarliestIsMember, EarliestIsFirst
<1>2. seq[p] \in Nat /\ seq[Earliest(S)] \in Nat
  BY <1>1 DEF TypeOK
<1> QED
  BY <1>1, <1>2

\* Whoever leaves: the payer hands over to the earliest of those who stay, anyone else
\* only lets its own reservation go.
LEMMA DetachPays ==
    ASSUME MoneyInv, NEW j \in Jobs, Detach(j)
    PROVE  SubscriptionsFit' /\ RunsArePaid' /\ OneRunPerKey'
<1> USE DEF MoneyInv, DrivenInv, OwnershipInv
<1>0. j \in Subscribed /\ run_id[j] \in Started
  BY DEF Detach, RunsComeLate, RunsInv, DriverOwnsRun
<1>1. PICK r \in Jobs : r = run_id[j] /\ status[r] # "none"
  BY <1>0 DEF Started
<1> DEFINE remaining == LiveSubscribers(r) \ {j}
           transfers == /\ reservation[j] = "held"
                        /\ payer[r] = j
                        /\ remaining # {}
                        /\ status[r] \in Active
           releases == reservation[j] = "held" /\ payer[r] # j
<1>2. /\ UNCHANGED <<run_id, status, key, seq>>
      /\ \A i \in Jobs \ {j} : state'[i] = state[i] /\ reservation'[i] = reservation[i]
                               /\ detached'[i] = detached[i]
      /\ detached'[j]
      /\ \A i \in Jobs : cancel_requested[i] => cancel_requested'[i]
      /\ \A q \in Jobs \ {r} : payer'[q] = payer[q]
      /\ reservation'[j] = IF transfers \/ releases THEN "released" ELSE reservation[j]
      /\ payer'[r] = IF transfers THEN Earliest(remaining) ELSE payer[r]
  BY <1>1 DEF Detach, TypeOK
<1>3. \A q \in Jobs \ {r} : Kept(q)
  BY <1>1, <1>2 DEF Kept
<1>4. LiveSubscribers(r)' = remaining
  BY <1>2 DEF LiveSubscribers
<1>5. remaining \in SUBSET Jobs /\ \A i \in remaining : i # j /\ run_id[i] = r /\ reservation[i] = "held"
  BY DEF LiveSubscribers
<1>6. PaidFor(r) /\ PaidOut(r)
  BY <1>1 DEF RunsArePaid
<1>7. Subscribed' = Subscribed
  BY <1>0, <1>2 DEF Subscribed
<1>8. transfers => Earliest(remaining) \in remaining
                   /\ \A i \in remaining : seq[Earliest(remaining)] <= seq[i]
  BY <1>5, EarliestIsMember, EarliestIsFirst
<1> HIDE DEF remaining
<1>9. PaidFor(r)'
  <2> SUFFICES ASSUME status[r] \in Active PROVE PaidFor(r)'
    BY <1>2 DEF PaidFor
  <2>1. /\ payer[r] \in Jobs /\ run_id[payer[r]] = r /\ reservation[payer[r]] = "held"
        /\ \A i \in LiveSubscribers(r) \ {payer[r]} : seq[payer[r]] < seq[i]
        /\ LiveSubscribers(r) # {} => payer[r] \in LiveSubscribers(r)
        /\ \A i \in Jobs : run_id[i] = r => reservation[i] # "settled"
    BY <1>6 DEF PaidFor
  <2>2. \A i \in Jobs : run_id'[i] = r => reservation'[i] # "settled"
    BY <1>2, <2>1
  <2>3. CASE payer[r] # j
    <3>1. payer'[r] = payer[r] /\ reservation'[payer[r]] = "held"
      BY <1>2, <2>1, <2>3
    <3>2. remaining \subseteq LiveSubscribers(r)
      BY DEF remaining
    <3>3. remaining # {} => payer[r] \in remaining
      BY <2>1, <2>3 DEF remaining
    <3> QED
      BY <1>2, <1>4, <2>1, <2>2, <3>1, <3>2, <3>3 DEF PaidFor
  <2>4. CASE payer[r] = j /\ remaining = {}
    <3>1. payer'[r] = j /\ reservation'[j] = "held"
      BY <1>2, <2>1, <2>4
    <3> QED
      BY <1>2, <1>4, <2>1, <2>2, <2>4, <3>1 DEF PaidFor
  <2>5. CASE payer[r] = j /\ remaining # {}
    <3> DEFINE p == Earliest(remaining)
    <3>1. transfers
      BY <2>1, <2>5
    <3>2. p \in remaining /\ \A i \in remaining : seq[p] <= seq[i]
      BY <1>8, <3>1
    <3>3. payer'[r] = p /\ p # j /\ p \in Jobs /\ run_id[p] = r /\ reservation'[p] = "held"
      BY <1>2, <1>5, <3>1, <3>2
    <3>4. \A i \in remaining \ {p} : seq[p] < seq[i]
      <4> SUFFICES ASSUME NEW i \in remaining \ {p} PROVE seq[p] < seq[i]
        OBVIOUS
      <4>1. i \in Subscribed /\ p \in Subscribed /\ seq[i] \in Nat /\ seq[p] \in Nat
        BY <1>5, <3>2 DEF Subscribed, TypeOK
      <4>2. seq[p] # seq[i]
        BY <4>1 DEF SubscriptionsFit
      <4> QED
        BY <3>2, <4>1, <4>2
    <3> HIDE DEF p
    <3> QED
      BY <1>2, <1>4, <2>2, <3>2, <3>3, <3>4 DEF PaidFor
  <2> QED
    BY <2>3, <2>4, <2>5
<1>10. PaidOut(r)'
  <2> SUFFICES ASSUME status[r] \notin Active \cup {"none"} PROVE PaidOut(r)'
    BY <1>2 DEF PaidOut
  <2>1. reservation[j] # "held"
    BY <1>1, <1>6 DEF PaidOut
  <2>2. reservation' = reservation /\ payer'[r] = payer[r]
    BY <1>1, <2>1 DEF Detach
  <2> QED
    BY <1>2, <1>6, <2>2 DEF PaidOut
<1>11. RunsArePaid'
  <2> SUFFICES ASSUME NEW q \in Jobs PROVE PaidFor(q)' /\ PaidOut(q)'
    BY DEF RunsArePaid
  <2>1. CASE q = r
    BY <2>1, <1>9, <1>10
  <2>2. CASE q # r
    BY <2>2, <1>3, KeptIsPaid DEF RunsArePaid
  <2> QED
    BY <2>1, <2>2
<1>12. SubscriptionsFit'
  BY <1>0, <1>2, <1>7 DEF SubscriptionsFit
<1>13. ASSUME NEW q \in Jobs, Joinable(q)' PROVE Joinable(q)
  <2>1. status[q] \in Active
    BY <1>2, <1>13 DEF Joinable
  <2>2. LiveSubscribers(q)' \subseteq LiveSubscribers(q)
    BY <1>3, <1>4, <2>1, KeptSubscribers DEF remaining
  <2> QED
    BY <1>2, <1>13, <2>1, <2>2 DEF Joinable
<1>14. OneRunPerKey'
  BY <1>2, <1>13, NoNewJoinable
<1> QED
  BY <1>11, <1>12, <1>14

\* A new subscription is the last in attachment order.
LEMMA SubscribesLast ==
    ASSUME MoneyInv, NEW j \in Jobs, j \notin Subscribed,
           reservation'[j] = "held", seq'[j] = Cardinality(Subscribed) + 1,
           \A i \in Jobs \ {j} : reservation'[i] = reservation[i] /\ seq'[i] = seq[i],
           detached' = detached
    PROVE  SubscriptionsFit' /\ \A i \in Subscribed : seq[i] < seq'[j]
<1> USE DEF MoneyInv, DrivenInv, OwnershipInv
<1>1. Subscribed' = Subscribed \cup {j}
  BY DEF Subscribed
<1>2. IsFiniteSet(Subscribed)
  BY JobsAssumption, FS_Subset DEF Subscribed
<1>3. Cardinality(Subscribed) \in Nat /\ Cardinality(Subscribed \cup {j}) = Cardinality(Subscribed) + 1
  BY <1>2, FS_CardinalityType, FS_AddElement
<1>4. \A i \in Subscribed : i \in Jobs /\ i # j /\ seq[i] \in Nat /\ seq[i] <= Cardinality(Subscribed)
  BY DEF Subscribed, SubscriptionsFit, TypeOK
<1>5. \A i \in Subscribed : seq[i] < seq'[j] /\ seq'[i] = seq[i]
  BY <1>3, <1>4
<1>6. Cardinality(Subscribed') = Cardinality(Subscribed) + 1
  BY <1>1, <1>3
<1>7. \A i \in Subscribed' : seq'[i] <= Cardinality(Subscribed')
  BY <1>1, <1>3, <1>4, <1>5, <1>6
<1>8. \A i, k \in Subscribed' : seq'[i] = seq'[k] => i = k
  BY <1>1, <1>4, <1>5 DEF SubscriptionsFit
<1>9. \A i \in Jobs : detached'[i] => i \in Subscribed'
  BY <1>1 DEF SubscriptionsFit
<1> QED
  BY <1>5, <1>7, <1>8, <1>9 DEF SubscriptionsFit

\* Whoever attaches to a live run comes after its payer.
LEMMA AttachPays ==
    ASSUME MoneyInv, NEW w \in Workers, AttachToRun(w)
    PROVE  SubscriptionsFit' /\ RunsArePaid' /\ OneRunPerKey'
<1> USE DEF MoneyInv, DrivenInv, OwnershipInv
<1>1. /\ phase[w] = "intake" /\ Current(w) /\ state[job[w]] = "intake"
      /\ run_id'[job[w]] \in Attachable(job[w])
      /\ \A i \in Jobs \ {job[w]} :
             /\ run_id'[i] = run_id[i] /\ state'[i] = state[i]
             /\ reservation'[i] = reservation[i] /\ seq'[i] = seq[i]
      /\ reservation'[job[w]] = "held" /\ seq'[job[w]] = Cardinality(Subscribed) + 1
      /\ UNCHANGED <<cancel_requested, detached, runVars>>
  BY Attaches
<1>2. PICK j \in Jobs : /\ j = job[w] /\ run_id[j] = NoJob /\ j \notin Subscribed
  BY <1>1, ActorDrives DEF RunOf
<1>3. PICK r \in Jobs : r = run_id'[j] /\ r \in Attachable(j)
  BY <1>1, <1>2 DEF Attachable
<1>4. r # NoJob /\ status[r] \in Active /\ LiveSubscribers(r) # {}
  BY <1>3, JobsAssumption DEF Attachable
<1>5. /\ \A i \in Jobs \ {j} :
             /\ run_id'[i] = run_id[i] /\ state'[i] = state[i]
             /\ reservation'[i] = reservation[i] /\ seq'[i] = seq[i]
      /\ reservation'[j] = "held" /\ seq'[j] = Cardinality(Subscribed) + 1
      /\ UNCHANGED <<cancel_requested, detached, status, payer, key>>
  BY <1>1, <1>2
<1>6. SubscriptionsFit' /\ \A i \in Subscribed : seq[i] < seq'[j]
  BY <1>2, <1>5, SubscribesLast
<1>7. \A q \in Jobs \ {r} : Kept(q)
  BY <1>2, <1>3, <1>5, JobsAssumption DEF Kept
<1>8. LiveSubscribers(r)' \subseteq LiveSubscribers(r) \cup {j} /\ LiveSubscribers(r) \subseteq LiveSubscribers(r)'
  BY <1>2, <1>4, <1>5 DEF LiveSubscribers
<1>9. PaidFor(r)'
  <2>1. /\ payer[r] \in Jobs /\ run_id[payer[r]] = r /\ reservation[payer[r]] = "held"
        /\ \A i \in LiveSubscribers(r) \ {payer[r]} : seq[payer[r]] < seq[i]
        /\ payer[r] \in LiveSubscribers(r)
        /\ \A i \in Jobs : run_id[i] = r => reservation[i] # "settled"
    BY <1>4 DEF RunsArePaid, PaidFor
  <2>2. payer[r] # j /\ payer[r] \in Subscribed
    BY <1>2, <1>4, <2>1 DEF Subscribed
  <2>3. seq'[payer[r]] = seq[payer[r]] /\ seq[payer[r]] < seq'[j]
    BY <1>5, <1>6, <2>1, <2>2
  <2>4. \A i \in LiveSubscribers(r) : i \in Jobs /\ i # j
    BY <1>2, <1>4 DEF LiveSubscribers
  <2>5. \A i \in LiveSubscribers(r)' \ {payer[r]} : seq'[payer[r]] < seq'[i]
    BY <1>5, <1>8, <2>1, <2>3, <2>4
  <2>6. run_id'[payer[r]] = r /\ reservation'[payer[r]] = "held" /\ payer[r] \in LiveSubscribers(r)'
    BY <1>5, <1>8, <2>1, <2>2
  <2>7. \A i \in Jobs : run_id'[i] = r => reservation'[i] # "settled"
    BY <1>5, <2>1
  <2> QED
    BY <1>5, <2>1, <2>5, <2>6, <2>7 DEF PaidFor
<1>10. PaidOut(r)'
  BY <1>4, <1>5 DEF PaidOut
<1>11. RunsArePaid'
  <2> SUFFICES ASSUME NEW q \in Jobs PROVE PaidFor(q)' /\ PaidOut(q)'
    BY DEF RunsArePaid
  <2>1. CASE q = r
    BY <2>1, <1>9, <1>10
  <2>2. CASE q # r
    BY <2>2, <1>7, KeptIsPaid DEF RunsArePaid
  <2> QED
    BY <2>1, <2>2
<1>12. ASSUME NEW q \in Jobs, Joinable(q)' PROVE Joinable(q)
  <2>1. status[q] \in Active
    BY <1>5, <1>12 DEF Joinable
  <2>2. LiveSubscribers(q) # {}
    <3>1. CASE q = r
      BY <1>4, <3>1
    <3>2. CASE q # r
      BY <1>7, <1>12, <2>1, <3>2, KeptSubscribers DEF Joinable
    <3> QED
      BY <3>1, <3>2
  <2> QED
    BY <1>5, <1>12, <2>1, <2>2 DEF Joinable
<1>13. OneRunPerKey'
  BY <1>5, <1>12, NoNewJoinable
<1> QED
  BY <1>6, <1>11, <1>13

\* A joinable run is one that a second intake of its key would attach to.
LEMMA JoinableIsAttachable ==
    ASSUME MoneyInv, NEW r \in Jobs, Joinable(r), NEW j \in Jobs, j # r, key[j] = key[r]
    PROVE  r \in Attachable(j)
<1> USE DEF MoneyInv, DrivenInv, OwnershipInv
<1>1. status[r] \in Active /\ key[r] \notin PrivateKeys /\ ~cancel_requested[r] /\ LiveSubscribers(r) # {}
  BY DEF Joinable
<1>2. payer[r] # NoJob
  BY <1>1, JobsAssumption DEF RunsArePaid, PaidFor
<1>3. OtherDriver(j, r)
  BY <1>1 DEF Driven, OtherDriver
<1> QED
  BY <1>1, <1>2, <1>3 DEF Attachable, Coalesces

\* A new run is paid for by the job that started it, and no run of its key was joinable.
LEMMA StartPays ==
    ASSUME MoneyInv, NEW w \in Workers, StartRun(w)
    PROVE  SubscriptionsFit' /\ RunsArePaid' /\ OneRunPerKey'
<1> USE DEF MoneyInv, DrivenInv, OwnershipInv
<1>1. /\ phase[w] = "intake" /\ Current(w) /\ state[job[w]] = "intake"
      /\ Attachable(job[w]) = {} /\ status[job[w]] = "none"
      /\ \A i \in Jobs \ {job[w]} :
             /\ run_id'[i] = run_id[i] /\ state'[i] = state[i]
             /\ status'[i] = status[i] /\ payer'[i] = payer[i]
             /\ reservation'[i] = reservation[i] /\ seq'[i] = seq[i]
      /\ run_id'[job[w]] = job[w] /\ state'[job[w]] = "analysis"
      /\ status'[job[w]] = "analysis" /\ payer'[job[w]] = job[w]
      /\ reservation'[job[w]] = "held" /\ seq'[job[w]] = Cardinality(Subscribed) + 1
      /\ UNCHANGED <<cancel_requested, key, detached>>
  BY Starts
<1>2. PICK j \in Jobs : /\ j = job[w] /\ run_id[j] = NoJob /\ j \notin Subscribed
                        /\ Attachable(j) = {} /\ status[j] = "none"
  BY <1>1, ActorDrives DEF RunOf
<1>3. /\ \A i \in Jobs \ {j} :
             /\ run_id'[i] = run_id[i] /\ state'[i] = state[i]
             /\ status'[i] = status[i] /\ payer'[i] = payer[i]
             /\ reservation'[i] = reservation[i] /\ seq'[i] = seq[i]
      /\ run_id'[j] = j /\ state'[j] = "analysis"
      /\ status'[j] = "analysis" /\ payer'[j] = j
      /\ reservation'[j] = "held" /\ seq'[j] = Cardinality(Subscribed) + 1
      /\ UNCHANGED <<cancel_requested, key, detached>>
  BY <1>1, <1>2
<1>4. j # NoJob /\ \A i \in Jobs : run_id[i] # j
  BY <1>2, JobsAssumption DEF RunsInv, DriverOwnsRun, Started
<1>5. SubscriptionsFit'
  BY <1>2, <1>3, SubscribesLast
<1>6. \A q \in Jobs \ {j} : Kept(q)
  BY <1>2, <1>3, <1>4, JobsAssumption DEF Kept
<1>7. ~detached[j]
  BY <1>2 DEF SubscriptionsFit
<1>8. LiveSubscribers(j)' = {j}
  BY <1>3, <1>4, <1>7 DEF LiveSubscribers
<1>9. \A i \in Jobs : run_id'[i] = j => i = j
  BY <1>3, <1>4
<1>10. PaidFor(j)' /\ PaidOut(j)'
  BY <1>3, <1>8, <1>9 DEF PaidFor, PaidOut
<1>11. RunsArePaid'
  <2> SUFFICES ASSUME NEW q \in Jobs PROVE PaidFor(q)' /\ PaidOut(q)'
    BY DEF RunsArePaid
  <2>1. CASE q = j
    BY <2>1, <1>10
  <2>2. CASE q # j
    BY <2>2, <1>6, KeptIsPaid DEF RunsArePaid
  <2> QED
    BY <2>1, <2>2
<1>12. ASSUME NEW q \in Jobs \ {j}, Joinable(q)' PROVE Joinable(q)
  <2>1. status[q] \in Active
    BY <1>3, <1>12 DEF Joinable
  <2>2. LiveSubscribers(q)' = LiveSubscribers(q)
    BY <1>6, <2>1, KeptSubscribers
  <2> QED
    BY <1>3, <1>12, <2>1, <2>2 DEF Joinable
<1>13. \A q \in Jobs \ {j} : Joinable(q) => key[q] # key[j]
  BY <1>2, JoinableIsAttachable
<1>14. OneRunPerKey'
  <2> SUFFICES ASSUME NEW q \in Jobs, NEW s \in Jobs, Joinable(q)', Joinable(s)', key[q] = key[s]
               PROVE  q = s
    BY <1>3 DEF OneRunPerKey
  <2>1. CASE q # j /\ s # j
    BY <2>1, <1>12 DEF OneRunPerKey
  <2>2. CASE q = j \/ s = j
    BY <2>2, <1>12, <1>13
  <2> QED
    BY <2>1, <2>2
<1> QED
  BY <1>5, <1>11, <1>14

LEMMA InitPays == Init => MoneyInv
<1> SUFFICES ASSUME Init PROVE MoneyInv
  OBVIOUS
<1>1. DrivenInv
  BY InitDriven
<1>2. SubscriptionsFit /\ RunsArePaid /\ OneRunPerKey
  BY DEF Init, SubscriptionsFit, Subscribed, RunsArePaid, PaidFor, PaidOut, OneRunPerKey, Joinable
<1> QED
  BY <1>1, <1>2 DEF MoneyInv

LEMMA NextPays ==
    ASSUME ~ReadFaults, MoneyInv, [Next]_vars
    PROVE  MoneyInv'
<1>1. DrivenInv'
  BY NextDriven DEF MoneyInv
<1>2. Steady => SubscriptionsFit' /\ RunsArePaid' /\ OneRunPerKey'
  BY SteadyIsPaid
<1>3. SubscriptionsFit' /\ RunsArePaid' /\ OneRunPerKey'
  <2>1. CASE \E j \in Jobs : User(j) \/ LeaseLapses(j)
    BY <2>1, <1>2, UsersPay, DetachPays DEF User, RequestCancel
  <2>2. CASE \E w \in Workers : Idle(w) \/ Crash(w)
    BY <2>2, <1>2, ReconcilePays, ClaimsPay, MemoryPays DEF Idle
  <2>3. ASSUME NEW w \in Workers, BreakerWait(w) \/ SourceBusy(w) \/ ProviderWait(w)
        PROVE  Steady
    BY <2>3, ParksAsItWas, WaitPays DEF MoneyInv
  <2>4. ASSUME NEW w \in Workers, RefusePaid(w) \/ WorkerFails(w)
        PROVE  Steady
    <3>1. phase[w] \notin {"idle", "unread"} /\ (Fail(w, TRUE) \/ Fail(w, FALSE))
      BY <2>4 DEF RefusePaid, WorkerFails
    <3> QED
      BY <3>1, FailPays
  <2>5. CASE \E w \in Workers : Proceed(w)
    BY <2>5, <1>2, <2>3, <2>4, MemoryPays, ServePays, AttachPays, StartPays, BeginPays,
       FinishPays DEF Proceed, CommitIntake, ReadFails
  <2>6. CASE \E D \in SUBSET Jobs : ExpireDeadLetters(D)
    BY <2>6, <1>2, ExpirePays
  <2>7. CASE UNCHANGED vars
    <3>1. Calm
      BY <2>7 DEF vars, Calm
    <3> QED
      BY <3>1, <1>2, CalmIsSteady
  <2> QED
    BY <2>1, <2>2, <2>5, <2>6, <2>7 DEF Next
<1> QED
  BY <1>1, <1>3 DEF MoneyInv

\* The whole invariant, for any number of jobs, workers, keys and retries.
THEOREM MoneyIsKept == ~ReadFaults /\ Spec => []MoneyInv
<1> SUFFICES ASSUME ~ReadFaults PROVE Spec => []MoneyInv
  OBVIOUS
<1>1. Init => MoneyInv
  BY InitPays
<1>2. MoneyInv /\ [Next]_vars => MoneyInv'
  BY NextPays
<1> QED
  BY <1>1, <1>2, PTL DEF Spec

\* In whatever order jobs attach and leave, a live run is paid for by the
\* earliest-attached subscriber that stayed, whose reservation is still held.
THEOREM TheEarliestPays == ~ReadFaults /\ Spec => []EarliestPays
<1>1. MoneyInv => EarliestPays
  <2> SUFFICES ASSUME MoneyInv, NEW r \in Jobs, status[r] \in Active
               PROVE  /\ payer[r] \in Subscribed
                      /\ run_id[payer[r]] = r
                      /\ reservation[payer[r]] = "held"
                      /\ LiveSubscribers(r) # {} => payer[r] = Earliest(LiveSubscribers(r))
    BY DEF EarliestPays
  <2>1. /\ payer[r] \in Jobs /\ run_id[payer[r]] = r /\ reservation[payer[r]] = "held"
        /\ \A i \in LiveSubscribers(r) \ {payer[r]} : seq[payer[r]] < seq[i]
        /\ LiveSubscribers(r) # {} => payer[r] \in LiveSubscribers(r)
    BY DEF MoneyInv, RunsArePaid, PaidFor
  <2>2. LiveSubscribers(r) \in SUBSET Jobs
    BY DEF LiveSubscribers
  <2>3. LiveSubscribers(r) # {} => payer[r] = Earliest(LiveSubscribers(r))
    BY <2>1, <2>2, FirstIsEarliest DEF MoneyInv, DrivenInv, OwnershipInv
  <2> QED
    BY <2>1, <2>3 DEF Subscribed
<1> QED
  BY <1>1, MoneyIsKept, PTL

\* However a run ended - a result, a cancel, a dead letter or its expiry - its payer's
\* reservation settled, no other did, and nobody's is still held.
THEOREM OnlyThePayerSettles == ~ReadFaults /\ Spec => []OneSettles
<1>1. MoneyInv => OneSettles
  <2> SUFFICES ASSUME MoneyInv, NEW r \in Started, status[r] \notin Active
               PROVE  /\ {j \in Subscribed : run_id[j] = r /\ reservation[j] = "settled"} = {payer[r]}
                      /\ {j \in Subscribed : run_id[j] = r /\ reservation[j] = "held"} = {}
    BY DEF OneSettles
  <2>1. /\ payer[r] \in Jobs /\ run_id[payer[r]] = r /\ reservation[payer[r]] = "settled"
        /\ \A i \in Jobs \ {payer[r]} : run_id[i] = r => reservation[i] \in {"none", "released"}
    BY DEF MoneyInv, RunsArePaid, PaidOut, Started
  <2>2. \A j \in Subscribed : j \in Jobs
    BY DEF Subscribed
  <2>3. payer[r] \in Subscribed
    BY <2>1 DEF Subscribed
  <2>4. \A j \in Subscribed : run_id[j] = r /\ reservation[j] = "settled" <=> j = payer[r]
    BY <2>1, <2>2
  <2>5. \A j \in Subscribed : ~(run_id[j] = r /\ reservation[j] = "held")
    BY <2>1, <2>2
  <2> QED
    BY <2>3, <2>4, <2>5
<1> QED
  BY <1>1, MoneyIsKept, PTL

\* Two public runs of one analysis key are never both joinable: of two intakes that
\* raced for a key, the second attached instead of paying for the work again.
THEOREM KeysCoalesce == ~ReadFaults /\ Spec => []OneRunPerKey
<1>1. MoneyInv => OneRunPerKey
  BY DEF MoneyInv
<1> QED
  BY <1>1, MoneyIsKept, PTL

-----------------------------------------------------------------------------
(* The queue implements FencedRuns: its claim fences are what they promise. *)

\* How the run stands, seen without jobs.
Outcome(r) == IF status[r] \in Active THEN "live" ELSE status[r]

\* The abstract steps, in the queue's terms.
LEMMA StandsStep ==
    ASSUME NEW r \in Jobs, Holder(r)' = Holder(r), Outcome(r)' = Outcome(r),
           settlement'[r] = settlement[r]
    PROVE  Fenced!RunStep(r)
BY DEF Fenced!RunStep, Fenced!Same, Outcome

LEMMA LetGoStep ==
    ASSUME NEW r \in Jobs, Holder(r)' = NoToken, Outcome(r) = "live", Outcome(r)' = Outcome(r),
           settlement'[r] = settlement[r]
    PROVE  Fenced!RunStep(r)
BY DEF Fenced!RunStep, Fenced!LetGo, Fenced!Same, Outcome

LEMMA BeginStep ==
    ASSUME NEW r \in Jobs, NEW w \in Workers, Outcome(r) = "none", Outcome(r)' = "live",
           Holder(r)' = w, settlement'[r] = settlement[r]
    PROVE  Fenced!RunStep(r)
BY DEF Fenced!RunStep, Fenced!Begin, Fenced!Same, Outcome

LEMMA TakeOverStep ==
    ASSUME NEW r \in Jobs, NEW w \in Workers, Outcome(r) = "live", Outcome(r)' = "live",
           Holder(r) = NoToken, Holder(r)' = w, settlement'[r] = settlement[r]
    PROVE  Fenced!RunStep(r)
BY DEF Fenced!RunStep, Fenced!TakeOver, Fenced!Same, Outcome

LEMMA SettleStep ==
    ASSUME NEW r \in Jobs, NEW w \in Workers, Holder(r) = w, Holder(r)' = w,
           Outcome(r)' = Outcome(r), settlement'[r] \in Outcomes \cup {"cancelled", "failed"}
    PROVE  Fenced!RunStep(r)
BY DEF Fenced!RunStep, Fenced!SettleRun, Fenced!Same, Fenced!Verdicts, Outcome

LEMMA EndStep ==
    ASSUME NEW r \in Jobs, NEW w \in Workers, Holder(r) = w, Holder(r)' = NoToken,
           Outcome(r) = "live", Outcome(r)' \in Outcomes \cup {"cancelled"},
           settlement'[r] = Outcome(r)',
           settlement'[r] = settlement[r] \/ Outcome(r)' = "cancelled"
    PROVE  Fenced!RunStep(r)
BY DEF Fenced!RunStep, Fenced!EndRun, Fenced!Same, Fenced!Verdicts, Outcome

LEMMA AbandonStep ==
    ASSUME NEW r \in Jobs, Outcome(r) \in {"live", "dead_letter"},
           Outcome(r)' \in {"dead_letter", "failed"} \ {Outcome(r)}, Holder(r)' = NoToken,
           settlement'[r] = settlement[r]
    PROVE  Fenced!RunStep(r)
BY DEF Fenced!RunStep, Fenced!AbandonRun, Fenced!Abandoned, Fenced!Same, Outcome

\* A run's fence is passed through the job that started it and no other.
Holds(v, r) ==
    /\ token[v] # NoToken
    /\ fence[r] = token[v]
    /\ claim_token[r] = token[v]
    /\ run_id[r] = r
    /\ leased[r]
    /\ state[r] \in Active

HoldersFit ==
    \A r \in Jobs :
        /\ \A v \in Workers : /\ RunFence(v, r) <=> Holds(v, r)
                              /\ Holds(v, r) => Holder(r) = v /\ status[r] \in Active
        /\ (\A v \in Workers : ~Holds(v, r)) => Holder(r) = NoToken

LEMMA HoldersAreFit == OwnershipInv => HoldersFit
<1> SUFFICES ASSUME OwnershipInv, NEW r \in Jobs
             PROVE  /\ \A v \in Workers : /\ RunFence(v, r) <=> Holds(v, r)
                                          /\ Holds(v, r) => Holder(r) = v /\ status[r] \in Active
                    /\ (\A v \in Workers : ~Holds(v, r)) => Holder(r) = NoToken
  BY DEF HoldersFit
<1> USE DEF OwnershipInv, RunsInv
<1>1. ASSUME NEW v \in Workers PROVE RunFence(v, r) <=> Holds(v, r)
  <2>1. ASSUME RunFence(v, r) PROVE Holds(v, r)
    <3>1. PICK j \in Jobs : /\ run_id[j] = r /\ claim_token[j] = token[v]
                            /\ leased[j] /\ state[j] \in Active
      BY <2>1 DEF RunFence
    <3>2. j = r
      BY <2>1, <3>1, JobsAssumption DEF RunFence, EndedUnfenced, DriverOwnsRun, TypeOK
    <3> QED
      BY <2>1, <3>1, <3>2 DEF RunFence, Holds
  <2>2. ASSUME Holds(v, r) PROVE RunFence(v, r)
    BY <2>2 DEF RunFence, Holds
  <2> QED
    BY <2>1, <2>2
<1>2. ASSUME NEW v \in Workers, Holds(v, r) PROVE Holder(r) = v /\ status[r] \in Active
  <2>1. RunFence(v, r) /\ \A u \in Workers : RunFence(u, r) => u = v
    BY <1>1, <1>2 DEF Holds, TokensDistinct
  <2>2. Holder(r) = v
    BY <2>1 DEF Holder
  <2> QED
    BY <1>2, <2>2 DEF Holds, EndedUnfenced
<1>3. (\A v \in Workers : ~Holds(v, r)) => Holder(r) = NoToken
  BY <1>1 DEF Holder
<1> QED
  BY <1>1, <1>2, <1>3

\* What a step does to a run's row when nobody can gain its fence by it.
Loses(r) ==
    /\ fence'[r] \in {fence[r], NoToken}
    /\ claim_token'[r] \in {claim_token[r], NoToken}
    /\ claim_token'[r] # NoToken =>
           /\ run_id'[r] = run_id[r]
           /\ leased'[r] => leased[r]
           /\ state'[r] \in Active => state[r] \in Active

TokensStay == \A v \in Workers : token'[v] \in {token[v], NoToken}

LEMMA NobodyGains ==
    ASSUME HoldersFit, HoldersFit', NEW r \in Jobs,
           \A v \in Workers : Holds(v, r)' => Holds(v, r),
           settlement'[r] = settlement[r], Outcome(r)' = Outcome(r)
    PROVE  Fenced!RunStep(r)
<1>1. CASE \E v \in Workers : Holds(v, r)'
  <2>1. PICK v \in Workers : Holds(v, r)'
    BY <1>1
  <2>2. Holder(r)' = v /\ Holder(r) = v
    BY <2>1 DEF HoldersFit
  <2> QED
    BY <2>2, StandsStep
<1>2. CASE ~ \E v \in Workers : Holds(v, r)'
  <2>1. Holder(r)' = NoToken
    BY <1>2 DEF HoldersFit
  <2>2. CASE \E v \in Workers : Holds(v, r)
    <3>1. Outcome(r) = "live"
      BY <2>2 DEF HoldersFit, Outcome
    <3> QED
      BY <2>1, <3>1, LetGoStep
  <2>3. CASE ~ \E v \in Workers : Holds(v, r)
    <3>1. Holder(r) = NoToken
      BY <2>3 DEF HoldersFit
    <3> QED
      BY <2>1, <3>1, StandsStep
  <2> QED
    BY <2>2, <2>3
<1> QED
  BY <1>1, <1>2

LEMMA OnlyLoses ==
    ASSUME HoldersFit, HoldersFit', TokensStay, NEW r \in Jobs, Loses(r),
           settlement'[r] = settlement[r], Outcome(r)' = Outcome(r)
    PROVE  Fenced!RunStep(r)
<1>1. \A v \in Workers : Holds(v, r)' => Holds(v, r)
  BY DEF Holds, Loses, TokensStay
<1> QED
  BY <1>1, NobodyGains

LEMMA HoldersStayFit == OwnershipInv /\ [Next]_vars => HoldersFit /\ HoldersFit'
<1>1. (OwnershipInv => HoldersFit) /\ (OwnershipInv' => HoldersFit')
  BY HoldersAreFit, PTL
<1> QED
  BY <1>1, NextOwned

\* A step after which every run stands as it did, or was let go.
Quiet ==
    /\ TokensStay
    /\ \A r \in Jobs : Loses(r) /\ settlement'[r] = settlement[r] /\ Outcome(r)' = Outcome(r)

LEMMA QuietIsFenced ==
    ASSUME HoldersFit, HoldersFit', Quiet
    PROVE  \A r \in Jobs : Fenced!RunStep(r)
BY OnlyLoses DEF Quiet

\* A run given up in a step that nobody gains it by.
LEMMA GivenUp ==
    ASSUME HoldersFit, HoldersFit', NEW r \in Jobs, fence'[r] = NoToken,
           Outcome(r) \in {"live", "dead_letter"},
           Outcome(r)' \in {"dead_letter", "failed"} \ {Outcome(r)},
           settlement'[r] = settlement[r]
    PROVE  Fenced!RunStep(r)
<1>1. \A v \in Workers : ~Holds(v, r)'
  BY DEF Holds
<1>2. Holder(r)' = NoToken
  BY <1>1 DEF HoldersFit
<1> QED
  BY <1>2, AbandonStep

LEMMA UsersQuiet ==
    ASSUME OwnershipInv, NEW j \in Jobs, User(j) \/ LeaseLapses(j)
    PROVE  Quiet
<1> USE DEF OwnershipInv, RunsInv, TypeOK, Quiet, TokensStay, Loses, Outcome
<1>1. CASE Enqueue(j)
  BY <1>1 DEF Enqueue, DriverOwnsRun
<1>2. CASE Detach(j)
  <2>1. UNCHANGED <<run_id, status, fence, settlement, token>>
    BY <1>2 DEF Detach
  <2>2. \A i \in Jobs : \/ claim_token'[i] = NoToken
                        \/ claim_token'[i] = claim_token[i] /\ leased'[i] = leased[i]
                           /\ state'[i] = state[i]
    BY <1>2 DEF Detach
  <2> QED
    BY <2>1, <2>2
<1>3. CASE FlagCancel(j) \/ CancelUnclaimed(j) \/ LeaseLapses(j)
  BY <1>3 DEF FlagCancel, CancelUnclaimed, LeaseLapses
<1> QED
  BY <1>1, <1>2, <1>3 DEF User, RequestCancel

LEMMA MemoryQuiet ==
    ASSUME OwnershipInv, NEW w \in Workers,
           Crash(w) \/ GiveUp(w) \/ StartIntake(w) \/ ReadJob(w) \/ ReconcileAttached(w)
    PROVE  Quiet
<1> USE DEF OwnershipInv, RunsInv, TypeOK, Quiet, TokensStay, Loses, Outcome
<1>1. CASE Crash(w) \/ GiveUp(w)
  BY <1>1 DEF Crash, GiveUp, Forget
<1>2. CASE StartIntake(w) \/ ReadJob(w)
  BY <1>2 DEF StartIntake, ReadJob
<1>3. CASE ReconcileAttached(w)
  BY <1>3 DEF ReconcileAttached, MirrorAttached, Started
<1> QED
  BY <1>1, <1>2, <1>3

LEMMA ParkingQuiet ==
    ASSUME OwnershipInv, NEW w \in Workers, NEW parked \in {"intake", "waiting"}, Wait(w, parked),
           phase[w] # "idle"
    PROVE  Quiet
<1> USE DEF OwnershipInv, TypeOK
<1>1. TokensStay
  BY DEF Wait, Forget, TokensStay
<1>2. \A r \in Jobs : settlement'[r] = settlement[r] /\ Outcome(r)' = Outcome(r)
  <2>1. \A r \in Jobs : status'[r] = status[r] \/ (status[r] \in Active /\ status'[r] = "waiting")
    BY ClaimantDrives DEF Wait
  <2> QED
    BY <2>1 DEF Wait, Outcome
<1>3. \A r \in Jobs : Loses(r)
  <2>1. job[w] \in Jobs /\ run_id' = run_id /\ leased' = leased
    BY DEF Wait, Current
  <2>2. \A r \in Jobs : fence'[r] \in {fence[r], NoToken}
    BY DEF Wait
  <2>3. \A r \in Jobs : \/ claim_token'[r] = NoToken
                        \/ claim_token'[r] = claim_token[r] /\ state'[r] = state[r]
    BY <2>1 DEF Wait
  <2> QED
    BY <2>1, <2>2, <2>3 DEF Loses
<1> QED
  BY <1>1, <1>2, <1>3 DEF Quiet

LEMMA ServingQuiet ==
    ASSUME OwnershipInv, NEW w \in Workers, ServeStored(w) \/ RefuseQuota(w) \/ AttachToRun(w)
    PROVE  Quiet
<1> USE DEF OwnershipInv, TypeOK
<1>1. TokensStay
  BY DEF ServeStored, RefuseQuota, AttachToRun, Forget, TokensStay
<1>2. UNCHANGED <<status, fence, settlement>> /\ job[w] \in Jobs
  BY DEF ServeStored, RefuseQuota, AttachToRun, IntakeOwned, Current
<1>3. claim_token'[job[w]] = NoToken
      /\ \A i \in Jobs \ {job[w]} : /\ claim_token'[i] = claim_token[i]
                                    /\ run_id'[i] = run_id[i]
                                    /\ leased'[i] = leased[i]
                                    /\ state'[i] = state[i]
  BY <1>2 DEF ServeStored, RefuseQuota, AttachToRun
<1> QED
  BY <1>1, <1>2, <1>3 DEF Quiet, Loses, Outcome

LEMMA BeginningQuiet ==
    ASSUME OwnershipInv, NEW w \in Workers, BeginAnalysis(w)
    PROVE  Quiet
<1> USE DEF OwnershipInv, RunsInv, TypeOK
<1>1. TokensStay
  BY DEF BeginAnalysis, TokensStay
<1>2. RunOf(w) \in Jobs => (fence[RunOf(w)] = token[w] => status[RunOf(w)] \in Active)
  BY DEF BeginAnalysis, TokensDistinct, EndedUnfenced
<1>3. \A r \in Jobs : status'[r] = status[r] \/ (status[r] \in Active /\ status'[r] = "analysis")
  BY <1>2 DEF BeginAnalysis
<1>4. UNCHANGED <<run_id, leased, claim_token, fence, settlement>>
      /\ \A r \in Jobs : state'[r] \in Active => state[r] \in Active
  BY DEF BeginAnalysis
<1> QED
  BY <1>1, <1>3, <1>4 DEF Quiet, Loses, Outcome

LEMMA StartFenced ==
    ASSUME OwnershipInv, HoldersFit, HoldersFit', NEW w \in Workers, StartRun(w)
    PROVE  \A r \in Jobs : Fenced!RunStep(r)
<1> USE DEF OwnershipInv, TypeOK
<1> PICK j \in Jobs : j = job[w]
  BY DEF StartRun, IntakeOwned, Current
<1>1. j = job[w] /\ status[j] = "none" /\ token[w] # NoToken /\ Current(w)
  BY DEF StartRun, IntakeOwned, Current, Started, TokensDistinct
<1>2. /\ UNCHANGED <<token, leased, claim_token, settlement>>
      /\ run_id'[j] = j /\ state'[j] = "analysis" /\ status'[j] = "analysis"
      /\ fence'[j] = token[w]
  BY <1>1 DEF StartRun
<1>3. \A r \in Jobs \ {j} : /\ run_id'[r] = run_id[r] /\ state'[r] = state[r]
                            /\ status'[r] = status[r] /\ fence'[r] = fence[r]
  BY <1>1 DEF StartRun
<1>4. Holds(w, j)'
  BY <1>1, <1>2 DEF Holds, Current
<1>5. Outcome(j) = "none" /\ Outcome(j)' = "live" /\ Holder(j)' = w
  BY <1>1, <1>2, <1>4 DEF Outcome, HoldersFit
<1>6. Fenced!RunStep(j)
  BY <1>1, <1>2, <1>5, BeginStep
<1>7. TokensStay
  BY <1>2 DEF TokensStay
<1>8. ASSUME NEW r \in Jobs \ {j} PROVE Fenced!RunStep(r)
  <2>1. Loses(r) /\ settlement'[r] = settlement[r] /\ Outcome(r)' = Outcome(r)
    BY <1>2, <1>3 DEF Loses, Outcome
  <2> QED
    BY <1>7, <2>1, OnlyLoses
<1> QED
  BY <1>6, <1>8

LEMMA SettleFenced ==
    ASSUME OwnershipInv, HoldersFit, HoldersFit', NEW w \in Workers, Settle(w)
    PROVE  \A r \in Jobs : Fenced!RunStep(r)
<1> USE DEF OwnershipInv, TypeOK
<1>1. UNCHANGED <<jobVars, status, fence, token>> /\ TokensStay
  BY DEF Settle, TokensStay
<1>2. \A r \in Jobs : Loses(r) /\ Outcome(r)' = Outcome(r)
  BY <1>1 DEF Loses, Outcome
<1>3. PICK q, o : /\ o \in Outcomes \cup {"cancelled", "failed"} /\ q = RunOf(w)
                  /\ settlement' = [settlement EXCEPT ![q] = o]
  BY DEF Settle
<1>4. ASSUME NEW r \in Jobs, r = q PROVE Fenced!RunStep(r)
  <2>1. Holds(w, r)
    BY <1>3, <1>4 DEF Settle, HoldersFit
  <2>2. Holds(w, r)'
    BY <1>1, <2>1 DEF Holds
  <2>3. Holder(r) = w /\ Holder(r)' = w
    BY <2>1, <2>2 DEF HoldersFit
  <2>4. settlement'[r] \in Outcomes \cup {"cancelled", "failed"}
    BY <1>3, <1>4
  <2> QED
    BY <1>2, <2>3, <2>4, SettleStep
<1>5. ASSUME NEW r \in Jobs, r # q PROVE Fenced!RunStep(r)
  <2>1. settlement'[r] = settlement[r]
    BY <1>3, <1>5
  <2> QED
    BY <1>1, <1>2, <2>1, OnlyLoses
<1> QED
  BY <1>4, <1>5

LEMMA CancelFenced ==
    ASSUME OwnershipInv, HoldersFit, HoldersFit', NEW w \in Workers, CancelBeforeStart(w)
    PROVE  \A r \in Jobs : Fenced!RunStep(r)
<1> USE DEF OwnershipInv, TypeOK
<1>1. UNCHANGED <<jobVars, status, fence, token>> /\ TokensStay
  BY DEF CancelBeforeStart, TokensStay
<1>2. \A r \in Jobs : Loses(r) /\ Outcome(r)' = Outcome(r)
  BY <1>1 DEF Loses, Outcome
<1>3. CASE seenRun[w] \in Started
  <2>1. PICK q \in Jobs : q = seenRun[w]
    BY <1>3 DEF Started
  <2>2. /\ RunFence(w, q)
        /\ settlement' = [settlement EXCEPT ![q] = IF @ = "none" THEN "cancelled" ELSE @]
    BY <1>3, <2>1 DEF CancelBeforeStart
  <2>3. Holds(w, q)
    BY <2>2 DEF HoldersFit
  <2>4. Holds(w, q)'
    BY <1>1, <2>3 DEF Holds
  <2>5. Holder(q) = w /\ Holder(q)' = w
    BY <2>3, <2>4 DEF HoldersFit
  <2>6. settlement'[q] \in Outcomes \cup {"cancelled", "failed"}
    <3>1. settlement[q] \in Settlements
      OBVIOUS
    <3> QED
      BY <2>2, <3>1
  <2>7. Fenced!RunStep(q)
    BY <1>2, <2>5, <2>6, SettleStep
  <2>8. ASSUME NEW r \in Jobs, r # q PROVE Fenced!RunStep(r)
    <3>1. settlement'[r] = settlement[r]
      BY <2>2, <2>8
    <3> QED
      BY <1>1, <1>2, <3>1, OnlyLoses
  <2> QED
    BY <2>7, <2>8
<1>4. CASE seenRun[w] \notin Started
  <2>1. settlement' = settlement
    BY <1>4 DEF CancelBeforeStart
  <2> QED
    BY <1>1, <1>2, <2>1, OnlyLoses
<1> QED
  BY <1>3, <1>4

LEMMA FinishFenced ==
    ASSUME OwnershipInv, HoldersFit, HoldersFit', NEW w \in Workers, FinishJob(w)
    PROVE  \A r \in Jobs : Fenced!RunStep(r)
<1> USE DEF OwnershipInv, TypeOK
<1> DEFINE ended == {q \in {RunOf(w)} \ {NoJob} : fence[q] = token[w]}
<1>1. PICK j \in Jobs : j = job[w]
  BY DEF FinishJob, Current
<1>2. Current(w) /\ Forget(w) /\ phase[w] = "settled" /\ UNCHANGED run_id
  BY DEF FinishJob
<1>3. RunOf(w) \in {NoJob, j} /\ token[w] # NoToken /\ TokensStay
  BY <1>1, <1>2, ClaimantDrives DEF RunOf, TokensDistinct, Forget, TokensStay
<1>4. result[w] \in Outcomes \cup {"cancelled"}
  BY DEF FinishJob, RunsInv, SettledBeforeEnd
<1>5. PICK o \in Outcomes \cup {"cancelled"} :
          /\ o = "cancelled" \/ o = result[w]
          /\ status' = [q \in Jobs |-> IF q \in ended THEN o ELSE status[q]]
          /\ settlement' = [q \in Jobs |->
                               IF q \in ended /\ o = "cancelled" /\ settlement[q] # "none"
                               THEN "cancelled" ELSE settlement[q]]
          /\ state' = [i \in Jobs |->
                          IF i = job[w] THEN IF detached[job[w]] THEN "cancelled" ELSE o
                          ELSE IF i \in MirrorAttached(ended) THEN o ELSE state[i]]
  <2> DEFINE abandoned == /\ cancel_requested[job[w]]
                          /\ \E i \in Subscribed : run_id[i] = RunOf(w)
                          /\ LiveSubscribers(RunOf(w)) = {}
             outcome == IF RunOf(w) # NoJob /\ abandoned THEN "cancelled" ELSE result[w]
  <2>1. outcome \in Outcomes \cup {"cancelled"} /\ (outcome = "cancelled" \/ outcome = result[w])
    BY <1>4
  <2>2. /\ status' = [q \in Jobs |-> IF q \in ended THEN outcome ELSE status[q]]
        /\ settlement' = [q \in Jobs |->
                             IF q \in ended /\ outcome = "cancelled" /\ settlement[q] # "none"
                             THEN "cancelled" ELSE settlement[q]]
        /\ state' = [i \in Jobs |->
                        IF i = job[w] THEN IF detached[job[w]] THEN "cancelled" ELSE outcome
                        ELSE IF i \in MirrorAttached(ended) THEN outcome ELSE state[i]]
    BY DEF FinishJob
  <2> HIDE DEF outcome, ended
  <2> QED
    BY <2>1, <2>2, Zenon
<1>6. /\ fence' = [q \in Jobs |-> IF q \in ended THEN NoToken ELSE fence[q]]
      /\ leased' = [leased EXCEPT ![job[w]] = FALSE]
      /\ claim_token' = [claim_token EXCEPT ![job[w]] = NoToken]
  BY DEF FinishJob
<1>7. ASSUME NEW r \in Jobs PROVE Loses(r)
  <2>1. MirrorAttached(ended) \subseteq {i \in Jobs : state[i] = "waiting"}
    BY DEF MirrorAttached
  <2> HIDE DEF ended
  <2> QED
    BY <1>1, <1>2, <1>5, <1>6, <2>1 DEF Loses
<1>8. ASSUME NEW r \in Jobs, r \notin ended PROVE Fenced!RunStep(r)
  <2> HIDE DEF ended
  <2>1. settlement'[r] = settlement[r] /\ Outcome(r)' = Outcome(r)
    BY <1>5, <1>8 DEF Outcome
  <2> QED
    BY <1>3, <1>7, <2>1, OnlyLoses
<1>9. ASSUME NEW r \in Jobs, r \in ended PROVE Fenced!RunStep(r)
  <2>1. r = j /\ RunOf(w) = r /\ fence[r] = token[w] /\ r # NoJob
    BY <1>3, <1>9
  <2>2. Holds(w, r)
    BY <1>1, <1>2, <1>3, <2>1 DEF Holds, Current, RunOf
  <2>3. Holder(r) = w /\ Outcome(r) = "live"
    BY <2>2 DEF HoldersFit, Outcome
  <2>4. settlement[r] # "none" /\ (result[w] = "cancelled" \/ settlement[r] = result[w])
    BY <1>2, <2>1 DEF RunsInv, SettledBeforeEnd
  <2> HIDE DEF ended
  <2>5. fence'[r] = NoToken /\ status'[r] = o
        /\ settlement'[r] = IF o = "cancelled" THEN "cancelled" ELSE settlement[r]
    BY <1>5, <1>6, <1>9, <2>4
  <2>6. Holder(r)' = NoToken
    <3>1. \A v \in Workers : ~Holds(v, r)'
      BY <2>5 DEF Holds
    <3> QED
      BY <3>1 DEF HoldersFit
  <2>7. Outcome(r)' = o
    BY <2>5 DEF Outcome
  <2>8. settlement'[r] = o /\ (settlement'[r] = settlement[r] \/ o = "cancelled")
    BY <1>5, <2>4, <2>5
  <2> QED
    BY <2>3, <2>6, <2>7, <2>8, EndStep
<1> QED
  BY <1>8, <1>9

\* Abandoning the runs R on their dead jobs Q: no live run of R keeps its fence, and
\* the dead jobs lose their claims.
LEMMA AbandonFenced ==
    ASSUME OwnershipInv, HoldersFit, HoldersFit', NEW Q, NEW R, Abandon(Q, R), TokensStay,
           UNCHANGED <<run_id, settlement>>,
           \A r \in Jobs : /\ claim_token'[r] \in {claim_token[r], NoToken}
                           /\ claim_token'[r] # NoToken => (leased'[r] => leased[r])
                           /\ fence'[r] \in {fence[r], NoToken}
                           /\ r \in R /\ status[r] \in Active => fence'[r] = NoToken
    PROVE  \A r \in Jobs : Fenced!RunStep(r)
<1> DEFINE dying == {r \in Started \cap R : status[r] \in Active}
<1>1. /\ status' = [r \in Jobs |-> IF r \in dying THEN "dead_letter" ELSE status[r]]
      /\ \A r \in Jobs : state'[r] \in Active => state[r] \in Active
  BY DEF Abandon
<1>2. ASSUME NEW r \in Jobs, r \in dying PROVE Fenced!RunStep(r)
  <2>1. fence'[r] = NoToken /\ Outcome(r) = "live" /\ Outcome(r)' = "dead_letter"
    BY <1>1, <1>2 DEF Outcome
  <2> QED
    BY <2>1, GivenUp
<1>3. ASSUME NEW r \in Jobs, r \notin dying PROVE Fenced!RunStep(r)
  <2>1. status'[r] = status[r]
    BY <1>1, <1>3
  <2>2. Loses(r) /\ Outcome(r)' = Outcome(r)
    BY <1>1, <2>1 DEF Loses, Outcome
  <2> QED
    BY <2>2, OnlyLoses
<1> QED
  BY <1>2, <1>3

LEMMA FailFenced ==
    ASSUME OwnershipInv, HoldersFit, HoldersFit', NEW w \in Workers, NEW permanent \in BOOLEAN,
           Fail(w, permanent), phase[w] # "idle"
    PROVE  \A r \in Jobs : Fenced!RunStep(r)
<1> USE DEF OwnershipInv, TypeOK
<1> DEFINE dead == permanent \/ attempt[job[w]] >= MaxAttempts
<1>1. TokensStay /\ UNCHANGED <<run_id, settlement>> /\ Current(w) /\ job[w] \in Jobs
  BY DEF Fail, Forget, TokensStay, Current
<1>2. \A r \in Jobs : \/ claim_token'[r] = NoToken
                      \/ /\ r # job[w]
                         /\ claim_token'[r] = claim_token[r] /\ leased'[r] = leased[r]
  <2>1. /\ claim_token' = [claim_token EXCEPT ![job[w]] = NoToken]
        /\ leased' = [leased EXCEPT ![job[w]] = FALSE]
    BY DEF Fail
  <2>2. claim_token \in [Jobs -> Tokens \cup {NoToken}] /\ leased \in [Jobs -> BOOLEAN]
    OBVIOUS
  <2> HIDE DEF OwnershipInv, TypeOK
  <2> QED
    BY <2>1, <2>2
<1>3. CASE dead
  <2>1. /\ Abandon({job[w]}, {seenRun[w]} \ {NoJob})
        /\ fence' = [r \in Jobs |-> IF r = seenRun[w] /\ status[r] \in Active
                                    THEN NoToken ELSE fence[r]]
    BY <1>3 DEF Fail
  <2>2. \A r \in Jobs :
            /\ claim_token'[r] \in {claim_token[r], NoToken}
            /\ claim_token'[r] # NoToken => (leased'[r] => leased[r])
            /\ fence'[r] \in {fence[r], NoToken}
            /\ r \in {seenRun[w]} \ {NoJob} /\ status[r] \in Active => fence'[r] = NoToken
    BY <1>2, <2>1
  <2> QED
    BY <1>1, <2>1, <2>2, AbandonFenced
<1>4. CASE ~dead
  <2>1. /\ UNCHANGED status /\ state' = [state EXCEPT ![job[w]] = seenState[w]]
        /\ \A r \in Jobs : fence'[r] \in {fence[r], NoToken}
    BY <1>4 DEF Fail
  <2>2. claim_token'[job[w]] = NoToken
    BY <1>1, <1>2
  <2>3. \A r \in Jobs : Loses(r) /\ Outcome(r)' = Outcome(r)
    BY <1>1, <1>2, <2>1, <2>2 DEF Loses, Outcome
  <2> QED
    BY <1>1, <2>3, OnlyLoses
<1> QED
  BY <1>3, <1>4

LEMMA ClaimNothingFenced ==
    ASSUME OwnershipInv, HoldersFit, HoldersFit', NEW w \in Workers, ClaimNothing(w)
    PROVE  \A r \in Jobs : Fenced!RunStep(r)
<1>1. /\ Abandon(Exhausted, {run_id[i] : i \in Exhausted})
      /\ UNCHANGED <<run_id, settlement, token, leased>> /\ TokensStay
  BY DEF ClaimNothing, Quarantine, TokensStay
<1>2. \A r \in Jobs :
          /\ claim_token'[r] \in {claim_token[r], NoToken}
          /\ fence'[r] \in {fence[r], NoToken}
          /\ r \in {run_id[i] : i \in Exhausted} /\ status[r] \in Active => fence'[r] = NoToken
  BY DEF ClaimNothing
<1> QED
  BY <1>1, <1>2, AbandonFenced

\* A claim takes over its job's run, if there is one, from nobody; the runs of the jobs
\* it quarantines are given up.
LEMMA ClaimFenced ==
    ASSUME OwnershipInv, HoldersFit, HoldersFit', NEW w \in Workers, Claim(w)
    PROVE  \A r \in Jobs : Fenced!RunStep(r)
<1> USE DEF OwnershipInv, TypeOK
<1>1. PICK j \in Jobs : Taken(w, j)
  BY ClaimTakes
<1> DEFINE Q == {i \in Exhausted : i < j}
           R == {run_id[i] : i \in Q}
           dying == {r \in Started \cap R : status[r] \in Active}
<1>2. PICK t \in Tokens :
          /\ t = token'[w] /\ t # NoToken
          /\ \A i \in Jobs : claim_token[i] # t /\ fence[i] # t
          /\ token' = [token EXCEPT ![w] = t]
          /\ claim_token' = [i \in Jobs |-> IF i = j THEN t
                                            ELSE IF i \in Q THEN NoToken ELSE claim_token[i]]
          /\ fence' = [r \in Jobs |-> IF r = run_id[j] /\ r \in Started THEN t
                                      ELSE IF r \in R /\ status[r] \in Active
                                           THEN NoToken ELSE fence[r]]
          /\ leased' = [leased EXCEPT ![j] = TRUE]
  BY <1>1 DEF Taken
<1>3. /\ UNCHANGED <<run_id, settlement>>
      /\ status' = [r \in Jobs |-> IF r \in dying THEN "dead_letter" ELSE status[r]]
      /\ state' = [i \in Jobs |-> IF i \in Q \cup MirrorAttached(dying)
                                  THEN "dead_letter" ELSE state[i]]
  BY <1>1 DEF Taken, Quarantine, Abandon
<1>4. /\ j \notin Q /\ ~attached[j] /\ ~leased[j] /\ state[j] \in Active
      /\ j \notin MirrorAttached(dying)
      /\ run_id[j] # NoJob => run_id[j] = j /\ status[j] \in Active /\ j \in Started
  BY <1>1 DEF Taken, Claimable, MirrorAttached, RunsInv, DriverOwnsRun, Started
<1>5. j \notin R /\ j # NoJob
  <2>1. \A i \in Q : i \in Jobs /\ i # j /\ run_id[i] \in {NoJob, i}
    BY <1>4 DEF Exhausted, Claimable, RunsInv, DriverOwnsRun
  <2> QED
    BY <2>1, JobsAssumption
<1> HIDE DEF Q, R
<1>6. Fenced!RunStep(j)
  <2>1. status'[j] = status[j] /\ Outcome(j)' = Outcome(j)
    BY <1>3, <1>5 DEF Outcome
  <2>2. CASE run_id[j] = NoJob
    <3>1. \A v \in Workers : ~Holds(v, j)'
      BY <1>3, <1>5, <2>2 DEF Holds
    <3> QED
      BY <1>3, <2>1, <3>1, NobodyGains
  <2>3. CASE run_id[j] # NoJob
    <3>1. Holds(w, j)'
      BY <1>2, <1>3, <1>4, <2>3 DEF Holds
    <3>2. Holder(j)' = w /\ Holder(j) = NoToken
      BY <1>4, <3>1 DEF HoldersFit, Holds
    <3>3. Outcome(j) = "live"
      BY <1>4, <2>3 DEF Outcome
    <3> QED
      BY <1>3, <2>1, <3>2, <3>3, TakeOverStep
  <2> QED
    BY <2>2, <2>3
<1>7. ASSUME NEW r \in Jobs \ {j} PROVE Fenced!RunStep(r)
  <2>1. fence'[r] \in {fence[r], NoToken} /\ r # run_id[j]
    BY <1>2, <1>4, JobsAssumption
  <2>2. ASSUME NEW v \in Workers, Holds(v, r)' PROVE Holds(v, r)
    <3>1. v # w
      BY <1>2, <2>1, <2>2 DEF Holds
    <3>2. token'[v] = token[v] /\ leased'[r] = leased[r] /\ claim_token'[r] \in {claim_token[r], NoToken}
          /\ (state'[r] \in Active => state[r] \in Active)
      BY <1>2, <1>3, <3>1
    <3> QED
      BY <1>3, <2>1, <2>2, <3>2 DEF Holds
  <2>3. CASE r \in dying
    <3>1. fence'[r] = NoToken
      BY <1>2, <2>1, <2>3
    <3>2. Outcome(r) = "live" /\ Outcome(r)' = "dead_letter"
      BY <1>3, <2>3 DEF Outcome
    <3> QED
      BY <1>3, <3>1, <3>2, GivenUp
  <2>4. CASE r \notin dying
    <3>1. Outcome(r)' = Outcome(r)
      BY <1>3, <2>4 DEF Outcome
    <3> QED
      BY <1>3, <2>2, <3>1, NobodyGains
  <2> QED
    BY <2>3, <2>4
<1> QED
  BY <1>6, <1>7

LEMMA ExpireFenced ==
    ASSUME OwnershipInv, HoldersFit, HoldersFit', NEW D \in SUBSET Jobs, ExpireDeadLetters(D)
    PROVE  \A r \in Jobs : Fenced!RunStep(r)
<1> USE DEF OwnershipInv, TypeOK
<1> DEFINE runs == {run_id[i] : i \in D}
           failing == {r \in runs : r \in Jobs /\ status[r] \in Active \cup {"dead_letter"}}
<1>1. /\ UNCHANGED <<run_id, settlement, claim_token, leased, token>> /\ TokensStay
      /\ status' = [r \in Jobs |-> IF r \in failing THEN "failed" ELSE status[r]]
      /\ fence' = [r \in Jobs |-> IF r \in failing THEN NoToken ELSE fence[r]]
      /\ \A r \in Jobs : state'[r] \in Active => state[r] \in Active
  BY DEF ExpireDeadLetters, TokensStay
<1>2. ASSUME NEW r \in Jobs, r \in failing PROVE Fenced!RunStep(r)
  <2>1. Outcome(r) \in {"live", "dead_letter"} /\ Outcome(r)' = "failed" /\ fence'[r] = NoToken
    BY <1>1, <1>2 DEF Outcome
  <2> QED
    BY <1>1, <2>1, GivenUp
<1>3. ASSUME NEW r \in Jobs, r \notin failing PROVE Fenced!RunStep(r)
  <2>1. status'[r] = status[r] /\ fence'[r] = fence[r]
    BY <1>1, <1>3
  <2>2. Loses(r) /\ Outcome(r)' = Outcome(r)
    BY <1>1, <2>1 DEF Loses, Outcome
  <2> QED
    BY <1>1, <2>2, OnlyLoses
<1> QED
  BY <1>2, <1>3

LEMMA ProceedFenced ==
    ASSUME OwnershipInv, HoldersFit, HoldersFit', NEW w \in Workers, Proceed(w)
    PROVE  \A r \in Jobs : Fenced!RunStep(r)
<1>1. CASE RefusePaid(w) \/ ReadFails(w) \/ WorkerFails(w)
  <2>1. phase[w] # "idle" /\ (Fail(w, TRUE) \/ Fail(w, FALSE))
    BY <1>1 DEF RefusePaid, ReadFails, WorkerFails
  <2> QED
    BY <2>1, FailFenced
<1>2. CASE BreakerWait(w) \/ SourceBusy(w) \/ ProviderWait(w)
  <2>1. phase[w] # "idle" /\ (Wait(w, "intake") \/ Wait(w, "waiting"))
    BY <1>2 DEF BreakerWait, SourceBusy, ProviderWait
  <2> QED
    BY <2>1, ParkingQuiet, QuietIsFenced
<1>3. CASE GiveUp(w) \/ StartIntake(w) \/ ReadJob(w) \/ BeginAnalysis(w)
  BY <1>3, MemoryQuiet, BeginningQuiet, QuietIsFenced
<1>4. CASE CommitIntake(w)
  BY <1>4, ServingQuiet, QuietIsFenced, StartFenced DEF CommitIntake
<1>5. CASE Settle(w) \/ CancelBeforeStart(w) \/ FinishJob(w)
  BY <1>5, SettleFenced, CancelFenced, FinishFenced
<1> QED
  BY <1>1, <1>2, <1>3, <1>4, <1>5 DEF Proceed

LEMMA NextFenced == OwnershipInv /\ [Next]_vars => [Fenced!FRNext]_(Fenced!frVars)
<1> SUFFICES ASSUME OwnershipInv, [Next]_vars PROVE Fenced!FRNext
  OBVIOUS
<1>1. HoldersFit /\ HoldersFit' /\ OwnershipInv'
  BY HoldersStayFit, NextOwned
<1>2. \A r \in Jobs : Fenced!RunStep(r)
  <2>1. CASE \E j \in Jobs : User(j) \/ LeaseLapses(j)
    BY <1>1, <2>1, UsersQuiet, QuietIsFenced
  <2>2. CASE \E w \in Workers : Idle(w) \/ Crash(w)
    BY <1>1, <2>2, MemoryQuiet, QuietIsFenced, ClaimFenced, ClaimNothingFenced DEF Idle
  <2>3. CASE \E w \in Workers : Proceed(w)
    BY <1>1, <2>3, ProceedFenced
  <2>4. CASE \E D \in SUBSET Jobs : ExpireDeadLetters(D)
    BY <1>1, <2>4, ExpireFenced
  <2>5. CASE UNCHANGED vars
    <3>1. Quiet
      BY <2>5 DEF vars, Quiet, TokensStay, Loses, Outcome
    <3> QED
      BY <1>1, <3>1, QuietIsFenced
  <2> QED
    BY <2>1, <2>2, <2>3, <2>4, <2>5 DEF Next
<1>3. DOMAIN settlement' = Jobs
  BY <1>1 DEF OwnershipInv, TypeOK
<1> QED
  BY <1>2, <1>3 DEF Fenced!FRNext

LEMMA InitFenced == Init => Fenced!FRInit
<1> SUFFICES ASSUME Init PROVE Fenced!FRInit
  OBVIOUS
<1>1. \A r \in Jobs : Holder(r) = NoToken
  BY DEF Init, Holder, RunFence
<1> QED
  BY <1>1 DEF Init, Fenced!FRInit

\* The queue's claim tokens, leases and run fences implement what FencedRuns promises of
\* runs alone, with every fault: nobody but the worker that passes a run's fence settles
\* or ends it, nobody takes it over while it is held, it ends once, and it ends with the
\* result that was settled.
THEOREM RunsAreFenced == Spec => ImplementsFencedRuns
<1>1. Init => Fenced!FRInit
  BY InitFenced
<1>2. OwnershipInv /\ [Next]_vars => [Fenced!FRNext]_(Fenced!frVars)
  BY NextFenced
<1> QED
  BY <1>1, <1>2, Ownership, PTL DEF Spec, ImplementsFencedRuns, Fenced!FRSpec
=============================================================================
