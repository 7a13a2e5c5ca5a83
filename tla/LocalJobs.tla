----------------------------- MODULE LocalJobs -----------------------------
(***************************************************************************)
(* Jobs on the owner's own machine (idea_web/jobs/local.py): the windows   *)
(* (`idea serve` processes) that submit, cancel and answer offers, the one *)
(* of them that supervises a worker process, and the workers that run the  *)
(* jobs.                                                                   *)
(*                                                                         *)
(* A Deep job stops after its free pass with an offer.  Approving it       *)
(* creates the job that may spend, whose id is derived from the offer's.   *)
(*                                                                         *)
(* Abstractions.                                                           *)
(*  - Windows are not told apart.  Any number of them make requests; one   *)
(*    of them at a time supervises, by the lock, and that one has a state. *)
(*  - A job that waits for a provider has ended like one that failed.      *)
(*  - The queue's rules are those of JobQueue, of which a row here has     *)
(*    what a job without subscribers needs: a claim is the worker that     *)
(*    holds it, and a lease is live or not.                                *)
(*  - The plan of a paid step sends nothing, lies within what was approved *)
(*    or exceeds it: a choice made when it is planned.                     *)
(*  - What nobody reads of a row that has ended is reset.                  *)
(***************************************************************************)
EXTENDS Naturals, FiniteSets

CONSTANTS
    Workers,      \* worker processes
    ByHand,    \* bound: jobs submitted by hand, named 1..ByHand
    Approvals,      \* bound: approvals one after the other
    MaxAttempts,  \* the queue's
    MaxSpawns     \* bound: worker processes ever started

ASSUME LocalBounded == {ByHand, Approvals, MaxAttempts, MaxSpawns} \subseteq Nat

VARIABLES
    rows,         \* the queue's row of a job
    supervisor,   \* where the window that holds the lock is, and the jobs it has still to stop
    worker,       \* where a worker is, and what it remembers
    spawned       \* worker processes started so far

localVars == <<rows, supervisor, worker, spawned>>

Nobody == "nobody"
Ids == 1..ByHand * (Approvals + 1)
\* approval_job_id(): the one job an approval may create, and the job whose offer it was.
FollowUp(j) == j + ByHand

InWork == {"intake", "analysis"}
Ended == {"complete", "failed", "cancelled"}

LocalTypeOK ==
    /\ rows \in [Ids -> [state : {"none"} \cup InWork \cup Ended, claim : Workers \cup {Nobody},
                         leased : BOOLEAN, cancel_requested : BOOLEAN, attempt : 0..MaxAttempts,
                         queued : BOOLEAN, approved : BOOLEAN,
                         offer : {"none", "open", "approved", "skipped"},
                         reserved : BOOLEAN, inherited : BOOLEAN]]
    /\ supervisor \in [at : {"none", "sweeping", "owner", "closing"}, todo : SUBSET Ids]
    /\ worker \in [Workers -> [at : {"dead", "idle", "claimed", "running", "planned", "declined",
                                      "ended"},
                               tied : BOOLEAN, job : Ids \cup {0}, stopped : BOOLEAN,
                               approved : BOOLEAN, offer : {"none", "open"}]]
    /\ spawned \in 0..MaxSpawns

NoRow == [state |-> "none", claim |-> Nobody, leased |-> FALSE, cancel_requested |-> FALSE,
          attempt |-> 0, queued |-> TRUE, approved |-> FALSE, offer |-> "none",
          reserved |-> FALSE, inherited |-> FALSE]
NoWorker == [at |-> "dead", tied |-> FALSE, job |-> 0, stopped |-> FALSE, approved |-> FALSE,
             offer |-> "none"]

LocalInit ==
    /\ rows = [j \in Ids |-> NoRow]
    /\ supervisor = [at |-> "none", todo |-> {}]
    /\ worker = [k \in Workers |-> NoWorker]
    /\ spawned = 0

InFlight == {j \in Ids : rows[j].state \in InWork}
Its == {k \in Workers : worker[k].tied}

\* A row as it ends.  inherited is history: in flight when the last supervisor took over.
Ends(row, state, offer) == [NoRow EXCEPT !.state = state, !.offer = offer,
                                         !.reserved = row.reserved]

----------------------------------------------------------------------------
(* The owner's requests, from any window. *)

\* insert_job(): a job of one of the two kinds below.
Insert(j, approved) == [NoRow EXCEPT !.state = "intake", !.approved = approved]

Submit(j) ==
    /\ j <= ByHand /\ rows[j].state = "none"
    /\ rows' = [rows EXCEPT ![j] = Insert(j, FALSE)]
    /\ UNCHANGED <<supervisor, worker, spawned>>

\* cancel() and each step of cancel_all(): a job nobody ever claimed ends at once, any other
\* is asked to stop.  The snapshot it looked at may be older than the row it writes.
Cancelled(j) ==
    \/ /\ rows[j].state = "intake" /\ rows[j].claim = Nobody /\ rows[j].queued
       /\ rows' = [rows EXCEPT ![j] = Ends(@, "cancelled", @.offer)]
    \/ /\ j \in InFlight
       /\ rows' = [rows EXCEPT ![j].cancel_requested = TRUE]

Cancel(j) ==
    /\ Cancelled(j)
    /\ UNCHANGED <<supervisor, worker, spawned>>

\* approve_offer(): the answer and the job it authorises in one transaction.
Approve(j) ==
    /\ FollowUp(j) \in Ids
    /\ rows[j].state \in Ended /\ rows[j].offer = "open"
    /\ rows' = [rows EXCEPT ![j].offer = "approved", ![FollowUp(j)] = Insert(FollowUp(j), TRUE)]
    /\ UNCHANGED <<supervisor, worker, spawned>>

\* Mutant of Skip: over any answer.
SkipAnyway(j) ==
    /\ rows[j].state \in Ended /\ rows[j].offer # "none"
    /\ rows' = [rows EXCEPT ![j].offer = "skipped"]
    /\ UNCHANGED <<supervisor, worker, spawned>>

\* skip_offer(): _decide() writes only over an offer nobody answered.
Skip(j) ==
    /\ rows[j].state \in Ended /\ rows[j].offer = "open"
    /\ rows' = [rows EXCEPT ![j].offer = "skipped"]
    /\ UNCHANGED <<supervisor, worker, spawned>>

----------------------------------------------------------------------------
(* The supervisor. *)

\* Mutant of TakeOver: only what no worker has claimed is stopped.
TakeOverUnclaimed ==
    /\ supervisor.at = "none"
    /\ supervisor' = [at |-> "sweeping", todo |-> {j \in InFlight : rows[j].claim = Nobody}]
    /\ rows' = [j \in Ids |-> [rows[j] EXCEPT !.inherited = j \in InFlight]]
    /\ UNCHANGED <<worker, spawned>>

\* start(): the window that gets the lock stops what a dead server left in flight.
TakeOver ==
    /\ supervisor.at = "none"
    /\ supervisor' = [at |-> "sweeping", todo |-> InFlight]
    /\ rows' = [j \in Ids |-> [rows[j] EXCEPT !.inherited = j \in InFlight]]
    /\ UNCHANGED <<worker, spawned>>

\* cancel_all(), job by job.
StopOne ==
    \E j \in supervisor.todo :
        /\ supervisor' = [supervisor EXCEPT !.todo = @ \ {j}]
        /\ \/ Cancelled(j)
           \/ j \notin InFlight /\ UNCHANGED rows
        /\ UNCHANGED <<worker, spawned>>

\* _spawn(): at first, and from _watch() when the process is gone.
Spawn ==
    \E k \in Workers :
        /\ \/ supervisor.at = "sweeping" /\ supervisor.todo = {}
           \/ supervisor.at = "owner" /\ Its = {}
        /\ worker[k].at = "dead" /\ spawned < MaxSpawns
        /\ spawned' = spawned + 1
        /\ supervisor' = [supervisor EXCEPT !.at = "owner"]
        /\ worker' = [worker EXCEPT ![k] = [NoWorker EXCEPT !.at = "idle", !.tied = TRUE]]
        /\ UNCHANGED <<rows>>

\* stop(): what is in flight is stopped, then the worker; one that does not end is killed.
Closes ==
    /\ supervisor.at = "owner"
    /\ supervisor' = [at |-> "closing", todo |-> InFlight]
    /\ UNCHANGED <<rows, worker, spawned>>

StopWorker ==
    /\ supervisor.at = "closing" /\ supervisor.todo = {}
    /\ \E k \in Its : ~worker[k].stopped /\ worker' = [worker EXCEPT ![k].stopped = TRUE]
    /\ UNCHANGED <<rows, supervisor, spawned>>

Closed ==
    /\ supervisor.at = "closing" /\ supervisor.todo = {}
    /\ \A k \in Its : worker[k].stopped
    /\ supervisor' = [supervisor EXCEPT !.at = "none"]
    /\ worker' = [k \in Workers |-> IF k \in Its THEN NoWorker ELSE worker[k]]
    /\ UNCHANGED <<rows, spawned>>

\* The window is killed.  Its lock is free at once; its worker will notice, or die with it.
Killed ==
    /\ supervisor.at # "none"
    /\ supervisor' = [at |-> "none", todo |-> {}]
    /\ worker' = [k \in Workers |-> [worker[k] EXCEPT !.tied = FALSE]]
    /\ rows' = [j \in Ids |-> [rows[j] EXCEPT !.inherited = @ /\ supervisor.at # "sweeping"]]
    /\ UNCHANGED spawned

----------------------------------------------------------------------------
(* A worker. *)

\* _watch_parent_pid() and the closed pipe: the worker of a dead window stops.
Orphaned(k) ==
    /\ worker[k].at # "dead" /\ ~worker[k].tied /\ ~worker[k].stopped
    /\ worker' = [worker EXCEPT ![k].stopped = TRUE]
    /\ UNCHANGED <<rows, supervisor, spawned>>

Dies(k) ==
    /\ worker[k].at # "dead"
    /\ worker' = [worker EXCEPT ![k] = NoWorker]
    /\ UNCHANGED <<rows, supervisor, spawned>>

LeaseLapses(j) ==
    /\ rows[j].leased
    /\ rows' = [rows EXCEPT ![j].leased = FALSE]
    /\ UNCHANGED <<supervisor, worker, spawned>>

Idles(k) == worker' = [worker EXCEPT ![k] = [NoWorker EXCEPT !.at = "idle", !.tied = worker[k].tied,
                                                             !.stopped = worker[k].stopped]]

\* Does the worker hold the claim it took?
Holds(k) ==
    LET j == worker[k].job
    IN j # 0 /\ rows[j].claim = k /\ rows[j].leased /\ rows[j].state \in InWork

\* Mutant of Exhausted: one attempt too many.
ExhaustedLate(j) == rows[j].attempt > MaxAttempts

Exhausted(j) == rows[j].attempt >= MaxAttempts
Free(j) == j \in InFlight /\ ~rows[j].leased

\* claim(): an exhausted row is a dead letter; else the row, and job_view()'s copy of it.
Claim(k) ==
    /\ worker[k].at = "idle" /\ ~worker[k].stopped
    /\ \E j \in Ids :
          /\ Free(j)
          /\ \/ /\ Exhausted(j)
                /\ rows' = [rows EXCEPT ![j] = Ends(@, "failed", @.offer)]
                /\ UNCHANGED worker
             \/ /\ ~Exhausted(j)
                /\ rows' = [rows EXCEPT ![j].claim = k, ![j].leased = TRUE, ![j].attempt = @ + 1]
                /\ worker' = [worker EXCEPT ![k] =
                      [@ EXCEPT !.at = IF rows[j].cancel_requested THEN "ended" ELSE "claimed",
                                !.job = j,
                                !.approved = rows[j].approved, !.offer = rows[j].offer]]
    /\ UNCHANGED <<supervisor, spawned>>

\* _restarted(): a later attempt is a new job, without an offer or what was approved.
Restarted(copy) == [copy EXCEPT !.approved = FALSE, !.offer = "none"]

\* run_once() goes on to _execute(), unless the worker was told to stop.
Execute(k) ==
    /\ worker[k].at = "claimed"
    /\ worker' = [worker EXCEPT ![k] =
          IF worker[k].stopped THEN [@ EXCEPT !.at = "ended"]
          ELSE [IF rows[worker[k].job].attempt > 1 THEN Restarted(@) ELSE @ EXCEPT
                    !.at = "running"]]
    /\ UNCHANGED <<rows, supervisor, spawned>>

\* _ProgressPublisher: the copy goes to the row under the claim.
Publish(k) ==
    LET j == worker[k].job
    IN /\ worker[k].at \in {"running", "planned", "declined"} /\ Holds(k)
       /\ rows' = [rows EXCEPT ![j].queued = FALSE, ![j].approved = worker[k].approved,
                               ![j].offer = worker[k].offer]
       /\ UNCHANGED <<supervisor, worker, spawned>>

\* paid_gate(), after the free pass: a plan that sends nothing passes, and one the owner has
\* approved, or a dead worker had already reserved; else the job will end with the offer.
PlanPaid(k) ==
    LET j == worker[k].job
    IN /\ worker[k].at = "running" /\ Holds(k)
       /\ \E plan \in {"nothing", "within", "exceeds"} :
             LET passes == \/ plan = "nothing" \/ rows[j].reserved
                           \/ plan = "within" /\ worker[k].approved
             IN /\ rows' = [rows EXCEPT ![j].reserved = @ \/ (passes /\ plan # "nothing")]
                /\ worker' = [worker EXCEPT ![k].at = IF passes THEN "planned" ELSE "declined",
                                            ![k].offer = IF passes THEN "none" ELSE "open"]
       /\ UNCHANGED <<supervisor, spawned>>

\* What the publisher relays: a cancel, a lost claim, the worker's own end.
ToldToStop(k) == worker[k].stopped \/ ~Holds(k) \/ rows[worker[k].job].cancel_requested

Results(k) ==
    CASE worker[k].at = "ended" -> {"cancelled"}
      [] worker[k].at = "declined" -> {"complete"}
      [] worker[k].at = "running" -> {"failed"} \cup IF ToldToStop(k) THEN {"cancelled"} ELSE {}
      [] worker[k].at = "planned" -> {"complete", "failed"}
                                     \cup IF ToldToStop(k) THEN {"cancelled"} ELSE {}
      [] OTHER -> {}

\* The run ends one way or the other, and _settle() writes it under the claim, or nothing.
Settle(k) ==
    \E result \in Results(k) :
        /\ rows' = IF ~Holds(k) THEN rows
                   ELSE [rows EXCEPT ![worker[k].job] = Ends(@, result, worker[k].offer)]
        /\ Idles(k)
        /\ UNCHANGED <<supervisor, spawned>>

\* run_once(): an exception hands the job back.
HandsBack(k) ==
    LET j == worker[k].job
    IN /\ worker[k].at \notin {"dead", "idle"}
       /\ rows' = IF ~Holds(k) THEN rows
                  ELSE IF Exhausted(j)
                  THEN [rows EXCEPT ![j] = Ends(@, "failed", @.offer)]
                  ELSE [rows EXCEPT ![j].claim = Nobody, ![j].leased = FALSE]
       /\ Idles(k)
       /\ UNCHANGED <<supervisor, spawned>>

\* run_forever() ends when it was told to stop and holds nothing.
Exits(k) ==
    /\ worker[k].at = "idle" /\ worker[k].stopped
    /\ worker' = [worker EXCEPT ![k] = NoWorker]
    /\ UNCHANGED <<rows, supervisor, spawned>>

LocalNext ==
    \/ \E j \in Ids : Submit(j) \/ Cancel(j) \/ Approve(j) \/ Skip(j) \/ LeaseLapses(j)
    \/ TakeOver \/ StopOne \/ Spawn \/ Closes \/ StopWorker \/ Closed \/ Killed
    \/ \E k \in Workers : \/ Orphaned(k) \/ Dies(k) \/ Claim(k) \/ Execute(k) \/ Publish(k)
                          \/ PlanPaid(k) \/ Settle(k) \/ HandsBack(k) \/ Exits(k)

LocalSpec == LocalInit /\ [][LocalNext]_localVars

----------------------------------------------------------------------------
(* What the local jobs promise. *)

\* An offer is answered once: the paid job exists exactly when its offer says approved,
\* whoever raced, restarted or published meanwhile.
OneAnswer ==
    \A j \in Ids : FollowUp(j) \in Ids =>
        (rows[FollowUp(j)].state # "none" <=> rows[j].offer = "approved")

\* "Stopped, not silently resumed": once a window has taken over, what was in flight before
\* is not taken up any more, by its own worker or by one left from the window before.
NotResumed ==
    [][\A k \in Workers : worker[k].at = "idle" /\ worker'[k].at = "claimed"
          => ~rows[worker'[k].job].inherited \/ supervisor.at = "sweeping"]_localVars
=============================================================================
