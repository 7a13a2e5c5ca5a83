----------------------------- MODULE JobStore -----------------------------
(***************************************************************************)
(* One paid file scan in the job store of a media (id_detector/jobs.py):   *)
(* its row, the budget of its provider and the process that drives it      *)
(* (scan.py _scan_one with audd.py or acrcloud.py execute_job, and the     *)
(* retry command), against a provider that accepts late, refuses or is     *)
(* not heard.                                                              *)
(*                                                                         *)
(* The store is locked by one process at a time and written by one task,   *)
(* so what interleaves is the process with its own death, with time and    *)
(* with the provider.  Each transaction and each request is a step.        *)
(*                                                                         *)
(* Abstractions.                                                           *)
(*  - Units stand for the billed amount in either currency (requests, US   *)
(*    cents): both ceilings are checked and settled side by side.          *)
(*  - A heartbeat is recent or older than twice the lease; a process that  *)
(*    drives the job keeps it recent.                                      *)
(*  - Files of one name at ACRCloud are only counted: the adapter always   *)
(*    adopts the one with the least id.                                    *)
(*  - An exception nothing handles leaves the row as a crash does.         *)
(*  - AudD returns no more chunks than were reserved.                      *)
(***************************************************************************)
EXTENDS Naturals

CONSTANTS
    Units,     \* what one scan of this media may cost
    MaxOpens   \* bound: how often the store is opened

ASSUME StoreBounded == Units \in Nat \ {0}

VARIABLES
    engine,      \* the provider: its driver and whether it can be reconciled
    state,       \* the row's state, "none" before it exists
    submitted_at, remote_ref, result_path,   \* are they set?
    reserved,    \* reserved_units
    recent,      \* is its heartbeat younger than twice the lease?
    budget,      \* the budgets row
    step,        \* where the process that holds the store is
    known,       \* the driver knows a remote file
    billed,      \* what the provider's answer says it billed
    post,        \* the request it waits for
    late,        \* requests nobody waits for, which the provider may still accept
    accepted,    \* uploads the provider accepted
    charged,     \* what it charged for them
    opens, acknowledged,   \* history: how often each happened
    unanswered             \* history: the row does not say how the last upload ended

rowVars == <<state, submitted_at, remote_ref, result_path, reserved, recent>>
driverVars == <<step, known, billed>>
providerVars == <<post, late, accepted, charged>>
historyVars == <<opens, acknowledged, unanswered>>
storeVars == <<engine, rowVars, budget, driverVars, providerVars, historyVars>>

Active == {"leased", "submission_started", "submitted"}
Terminal == {"succeeded", "no_match", "permanent_failure"}
States == {"none", "pending", "outcome_unknown"} \cup Active \cup Terminal
Steps == {"closed", "open", "extending", "resetting", "leasing", "leased", "reserved", "listing",
          "uploading", "waiting", "found", "polling", "answered", "parsed", "malformed"}

StoreTypeOK ==
    /\ engine \in {"audd", "acrcloud"}
    /\ state \in States
    /\ {submitted_at, remote_ref, result_path, recent, known, unanswered} \subseteq BOOLEAN
    /\ reserved \in Nat
    /\ budget \in [max : Nat, reserved : Nat, used : Nat]
    /\ step \in Steps
    /\ billed \in 0..Units
    /\ post \in {"none", "flying", "accepted", "refused"}
    /\ {late, accepted, charged} \subseteq Nat
    /\ {opens, acknowledged} \subseteq Nat

StoreInit ==
    /\ engine \in {"audd", "acrcloud"}
    /\ state = "none"
    /\ submitted_at = FALSE /\ remote_ref = FALSE /\ result_path = FALSE /\ recent = FALSE
    /\ reserved = 0
    /\ budget = [max |-> 0, reserved |-> 0, used |-> 0]
    /\ step = "closed" /\ known = FALSE /\ billed = 0
    /\ post = "none" /\ late = 0 /\ accepted = 0 /\ charged = 0
    /\ opens = 0 /\ acknowledged = 0 /\ unanswered = FALSE

----------------------------------------------------------------------------
(* The store's transactions. *)

\* The process leaves the store; what it knew is gone, a request it waited for is not.
Leave ==
    /\ step' = "closed" /\ known' = FALSE /\ billed' = 0
    /\ post' = "none"
    /\ late' = IF post = "flying" THEN late + 1 ELSE late

\* The lease ends: owner, expiry and heartbeat are cleared.
Unlease(next) == state' = next /\ recent' = FALSE

\* finish(): the reservation is settled at what the scan cost.
Finish(next, actual, stored) ==
    /\ Unlease(next)
    /\ reserved' = 0
    /\ result_path' = stored
    /\ budget' = [budget EXCEPT !.reserved = @ - reserved, !.used = @ + actual]
    /\ unanswered' = FALSE
    /\ UNCHANGED <<submitted_at, remote_ref>>

\* Mutant of FinishFailed: a failed scan costs nothing.
FinishFailedFree == Finish("permanent_failure", 0, FALSE) /\ Leave

FinishFailed == Finish("permanent_failure", Units, FALSE) /\ Leave

\* release_owner(): what was submitted under a name can be polled again.
Release ==
    /\ Unlease(IF state = "submitted" /\ remote_ref THEN "pending" ELSE "outcome_unknown")
    /\ UNCHANGED <<submitted_at, remote_ref, result_path, reserved, budget, unanswered>>

\* Mutant of Recovered: an upload that was not acknowledged is made again.
RecoveredPending ==
    CASE state \in {"leased", "submission_started"} /\ ~submitted_at -> "pending"
      [] state = "submitted" /\ ~remote_ref -> "outcome_unknown"
      [] state \in {"leased", "submitted"} -> "pending"
      [] OTHER -> state

\* recover_startup(): by state, and only where nobody beat for twice the lease.
Recovered ==
    CASE state = "leased" -> "pending"
      [] state = "submission_started" /\ ~submitted_at -> "outcome_unknown"
      [] state = "submitted" /\ remote_ref -> "pending"
      [] state = "submitted" /\ ~remote_ref -> "outcome_unknown"
      [] OTHER -> state

Open ==
    /\ step = "closed"
    /\ opens < MaxOpens
    /\ step' = "open"
    /\ opens' = opens + 1
    /\ state' = IF recent THEN state ELSE Recovered
    /\ UNCHANGED <<engine, submitted_at, remote_ref, result_path, reserved, recent, budget, known,
                   billed, providerVars, acknowledged, unanswered>>

\* retry --acknowledge-billing: the unknown exposure counts as spent, the next is funded.
Acknowledge ==
    /\ step = "open"
    /\ state = "outcome_unknown"
    /\ Unlease("pending")
    /\ reserved' = 0
    /\ budget' = [max |-> budget.max + reserved, reserved |-> budget.reserved - reserved,
                  used |-> budget.used + reserved]
    /\ acknowledged' = acknowledged + 1 /\ unanswered' = FALSE
    /\ Leave
    /\ UNCHANGED <<engine, submitted_at, remote_ref, result_path, accepted, charged, opens>>

----------------------------------------------------------------------------
(* A scan: _scan_one. *)

\* ensure_budget, ensure_job, and whether a stored answer will do: it is still to be had, and
\* nobody asked for another.  Any other end the row records makes way for a new scan, an error
\* of the provider too.
Prepare ==
    /\ step = "open"
    /\ \E refresh, valid \in BOOLEAN :
        LET hit == ~refresh /\ valid /\ result_path /\ state \in {"succeeded", "no_match"}
        IN step' = IF hit THEN "closed" ELSE IF state \in Terminal THEN "extending" ELSE "leasing"
    /\ state' = IF state = "none" THEN "pending" ELSE state
    /\ budget' = IF budget.max = 0 THEN [budget EXCEPT !.max = Units] ELSE budget
    /\ UNCHANGED <<engine, submitted_at, remote_ref, result_path, reserved, recent, known, billed,
                   providerVars, historyVars>>

Extend ==
    /\ step = "extending"
    /\ budget' = [budget EXCEPT !.max = @ + Units]
    /\ step' = "resetting"
    /\ UNCHANGED <<engine, rowVars, known, billed, providerVars, historyVars>>

\* reset_for_refresh(): the remote file is forgotten, and so is the first submission.
Reset ==
    /\ step = "resetting"
    /\ state' = "pending"
    /\ submitted_at' = FALSE /\ remote_ref' = FALSE /\ result_path' = FALSE
    /\ step' = "leasing"
    /\ UNCHANGED <<engine, reserved, recent, budget, known, billed, providerVars, historyVars>>

\* lease_next() for this query: only a pending row; else the scan is not runnable.
Lease ==
    /\ step = "leasing"
    /\ \/ /\ state = "pending"
          /\ state' = "leased" /\ recent' = TRUE /\ step' = "leased"
       \/ /\ state # "pending"
          /\ step' = "closed" /\ UNCHANGED <<state, recent>>
    /\ UNCHANGED <<engine, submitted_at, remote_ref, result_path, reserved, budget, known, billed,
                   providerVars, historyVars>>

\* reserve_billing(): an existing reservation is used again; a full budget ends the scan.
Reserve ==
    /\ step = "leased"
    /\ \/ /\ reserved = Units
          /\ step' = "reserved" /\ UNCHANGED <<reserved, budget>>
       \/ /\ reserved = 0 /\ budget.used + budget.reserved + Units <= budget.max
          /\ step' = "reserved"
          /\ reserved' = Units
          /\ budget' = [budget EXCEPT !.reserved = @ + Units]
       \/ /\ reserved = 0 /\ budget.used + budget.reserved + Units > budget.max
          /\ step' = "closed" /\ UNCHANGED <<reserved, budget>>
    /\ UNCHANGED <<engine, state, submitted_at, remote_ref, result_path, recent, known, billed,
                   providerVars, historyVars>>

\* submission_started() is durable before any request.
Start ==
    /\ step = "reserved"
    /\ state' = "submission_started"
    /\ known' = remote_ref
    /\ step' = IF engine = "audd" THEN "uploading" ELSE IF remote_ref THEN "found" ELSE "listing"
    /\ UNCHANGED <<engine, submitted_at, remote_ref, result_path, reserved, recent, budget, billed,
                   providerVars, historyVars>>

----------------------------------------------------------------------------
(* The driver and the provider. *)

\* A request that was not answered: AudD's outcome is unknown, ACRCloud's lease released.
Unheard == Release /\ Leave

\* reconcile(): ACRCloud lists the files of the scan's name.
List ==
    /\ step = "listing"
    /\ \/ /\ step' = IF accepted > 0 THEN "found" ELSE "uploading"
          /\ known' = (accepted > 0)
          /\ UNCHANGED <<rowVars, budget, billed, post, late, unanswered>>
       \/ Unheard
       \/ FinishFailed
    /\ UNCHANGED <<engine, accepted, charged, opens, acknowledged>>

Upload ==
    /\ step = "uploading"
    /\ step' = "waiting"
    /\ post' = "flying"
    /\ unanswered' = TRUE
    /\ UNCHANGED <<engine, rowVars, budget, known, billed, late, accepted, charged, opens,
                   acknowledged>>

\* The provider takes the upload and charges for it, in time or too late, or never.
Charge(cost) == accepted' = accepted + 1 /\ charged' = charged + cost
\* Mutant of Costs: the answer bills a chunk more than was reserved.
CostsOneMore == IF engine = "audd" THEN 1..(Units + 1) ELSE {Units}

Costs == IF engine = "audd" THEN 1..Units ELSE {Units}

Accept ==
    /\ post = "flying"
    /\ post' = "accepted"
    /\ \E cost \in Costs : Charge(cost) /\ billed' = cost
    /\ UNCHANGED <<engine, rowVars, budget, step, known, late, historyVars>>

\* An error status; behind a gateway the upload may have been accepted all the same.
Refuse ==
    /\ post = "flying"
    /\ post' = "refused"
    /\ \/ UNCHANGED <<accepted, charged>>
       \/ \E cost \in Costs : Charge(cost)
    /\ UNCHANGED <<engine, rowVars, budget, step, known, billed, late, historyVars>>

AcceptLate ==
    /\ late > 0
    /\ late' = late - 1
    /\ \/ UNCHANGED <<accepted, charged>>
       \/ \E cost \in Costs : Charge(cost)
    /\ UNCHANGED <<engine, rowVars, budget, driverVars, post, historyVars>>

\* The answer arrives, or does not.
Hear ==
    /\ step = "waiting"
    /\ \/ /\ post = "accepted"
          /\ step' = "found" /\ post' = "none" /\ known' = (engine = "acrcloud")
          /\ UNCHANGED <<rowVars, budget, billed, late, unanswered>>
       \/ post = "refused" /\ FinishFailed
       \/ Unheard
    /\ UNCHANGED <<engine, accepted, charged, opens, acknowledged>>

\* submitted(): the acknowledgement and the name of the remote file, in one transaction.
Submitted ==
    /\ step = "found"
    /\ state' = "submitted" /\ submitted_at' = TRUE
    /\ remote_ref' = (remote_ref \/ known)
    /\ step' = IF engine = "audd" THEN "answered" ELSE "polling"
    /\ UNCHANGED <<engine, result_path, reserved, recent, budget, known, billed, providerVars,
                   historyVars>>

\* poll(): the result, silence, or a scan that failed or took more than 48 hours.
Poll ==
    /\ step = "polling"
    /\ \/ /\ step' = "answered" /\ billed' = Units
          /\ UNCHANGED <<rowVars, budget, known, post, late, unanswered>>
       \/ Unheard
       \/ FinishFailed
    /\ UNCHANGED <<engine, accepted, charged, opens, acknowledged>>

\* The raw answer is on disk before the row says so; then it is parsed.
Write ==
    /\ step = "answered"
    /\ step' \in {"parsed", "malformed"}
    /\ UNCHANGED <<engine, rowVars, budget, known, billed, providerVars, historyVars>>

Conclude ==
    /\ \/ step = "malformed" /\ FinishFailed
       \/ /\ step = "parsed"
          /\ \E next \in {"succeeded", "no_match"} : Finish(next, billed, TRUE)
          /\ Leave
    /\ UNCHANGED <<engine, accepted, charged, opens, acknowledged>>

\* The process dies, or an exception leaves the driver; the row stays as it is.
Crash ==
    /\ step # "closed"
    /\ Leave
    /\ UNCHANGED <<engine, rowVars, budget, accepted, charged, historyVars>>

\* Twice the lease passes without a heartbeat.
Age ==
    /\ step = "closed" /\ recent
    /\ recent' = FALSE
    /\ UNCHANGED <<engine, state, submitted_at, remote_ref, result_path, reserved, budget,
                   driverVars, providerVars, historyVars>>

StoreNext ==
    \/ Open \/ Acknowledge \/ Prepare \/ Extend \/ Reset \/ Lease \/ Reserve \/ Start
    \/ List \/ Upload \/ Accept \/ Refuse \/ AcceptLate \/ Hear \/ Submitted \/ Poll
    \/ Write \/ Conclude \/ Crash \/ Age

StoreSpec == StoreInit /\ [][StoreNext]_storeVars

----------------------------------------------------------------------------
(* What the store promises. *)

\* Whatever is lost between the store and the provider, the budget has at least what the
\* provider charged, spent or still reserved, and never more than its ceiling.
BudgetCoversCharges ==
    /\ charged <= budget.used + budget.reserved
    /\ budget.used + budget.reserved <= budget.max
    /\ budget.reserved = reserved

\* An outcome that is unknown is never repeated unasked.  AudD cannot be asked what it holds:
\* no second upload is begun before the row says how the one before it ended, with a result or
\* with an error of the provider, or before someone acknowledged its cost, whatever was cut
\* short, lost or answered late between the two.  What an error leaves open is not covered: the
\* row counts it as an end and the next plain scan uploads again, although behind a gateway the
\* first upload may have been taken.  ACRCloud, which can be asked, holds a second copy only
\* where someone acknowledged.
NoBlindResubmission ==
    IF engine = "audd" THEN step = "uploading" => ~unanswered
                       ELSE accepted <= 1 + acknowledged
=============================================================================
