----------------------------- MODULE FencedRuns -----------------------------
(***************************************************************************)
(* What the claim fence of ID'er's queue promises about analysis runs,     *)
(* without jobs, leases, tokens or subscriptions: a live run is in the     *)
(* hands of at most one worker, only that worker may settle or end it, it  *)
(* ends once, and a result it ends with is the one that was settled.       *)
(* A run nobody holds can still be abandoned.                              *)
(***************************************************************************)
CONSTANTS
    Runs,       \* the runs that may ever be started
    Workers,    \* the worker processes
    Nobody,     \* the holder of a run no worker holds
    Results     \* the statuses a pipeline's result may have

VARIABLES
    holder,     \* who may write to the run
    outcome,    \* "none", "live", or how the run ended
    verdict     \* what is settled for the run, or "none"

frVars == <<holder, outcome, verdict>>

Abandoned == {"dead_letter", "failed"}
Verdicts == Results \cup {"cancelled"}

FRInit ==
    /\ holder = [r \in Runs |-> Nobody]
    /\ outcome = [r \in Runs |-> "none"]
    /\ verdict = [r \in Runs |-> "none"]

Same(f, r) == f'[r] = f[r]

\* A worker starts the run and holds it.
Begin(w, r) ==
    /\ outcome[r] = "none"
    /\ outcome'[r] = "live"
    /\ holder'[r] = w
    /\ Same(verdict, r)

\* A worker takes over a run nobody holds any more.
TakeOver(w, r) ==
    /\ outcome[r] = "live"
    /\ holder[r] = Nobody
    /\ holder'[r] = w
    /\ Same(outcome, r) /\ Same(verdict, r)

\* The holder parks or loses the run.
LetGo(r) ==
    /\ outcome[r] = "live"
    /\ holder'[r] = Nobody
    /\ Same(outcome, r) /\ Same(verdict, r)

\* The holder settles the run, again if a resumed pass reports something else.
SettleRun(w, r) ==
    /\ holder[r] = w
    /\ verdict'[r] \in Verdicts \cup {"failed"}
    /\ Same(holder, r) /\ Same(outcome, r)

\* The holder ends the run with what is settled; a run its last subscriber left
\* ends cancelled, and then it is settled as cancelled.
EndRun(w, r) ==
    /\ holder[r] = w
    /\ outcome[r] = "live"
    /\ outcome'[r] \in Verdicts
    /\ verdict'[r] = outcome'[r]
    /\ Same(verdict, r) \/ outcome'[r] = "cancelled"
    /\ holder'[r] = Nobody

\* The run is given up; a day later it counts as failed.
AbandonRun(r) ==
    /\ outcome[r] \in {"live", "dead_letter"}
    /\ outcome'[r] \in Abandoned \ {outcome[r]}
    /\ holder'[r] = Nobody
    /\ Same(verdict, r)

RunStep(r) ==
    \/ \E w \in Workers : Begin(w, r) \/ TakeOver(w, r) \/ SettleRun(w, r) \/ EndRun(w, r)
    \/ LetGo(r)
    \/ AbandonRun(r)
    \/ Same(holder, r) /\ Same(outcome, r) /\ Same(verdict, r)

\* One transaction may touch several runs, each by a step of its own.
FRNext == /\ DOMAIN holder' = Runs /\ DOMAIN outcome' = Runs /\ DOMAIN verdict' = Runs
          /\ \A r \in Runs : RunStep(r)

FRSpec == FRInit /\ [][FRNext]_frVars
=============================================================================
