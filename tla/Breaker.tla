------------------------------ MODULE Breaker ------------------------------
(***************************************************************************)
(* The Shazam breaker that all worker processes of one egress share        *)
(* (idea_web/breaker.py, asked by id_detector/shazam.py): one row and the  *)
(* append-only ledger of attempts, judged by whoever wants to send.        *)
(*                                                                         *)
(* A requester is one task of one worker.  It asks before each request and *)
(* in several steps: it takes the time, judges the ledger it sees, reads   *)
(* the row again and, if its judgement would change it, judges once more   *)
(* in a write transaction, with the time it took at first.  Any other      *)
(* requester, the operator and the clock may step in between.              *)
(*                                                                         *)
(* Abstractions.                                                           *)
(*  - A request is free (running_free: a primary sweep, never refused) or  *)
(*    held: the end-of-sweep retries, which ask reason() first, and any    *)
(*    dispatch without running_free.  The judgement a retry's dispatch     *)
(*    repeats is that of a free request.                                   *)
(*  - A process' own count of what it sent (sent()) is left out: each row  *)
(*    is in the ledger before it counts, so the ledger's count is larger.  *)
(*  - Requests in flight are not told apart: any of those sent may get its *)
(*    answer next, or never.                                               *)
(*  - An event carries the time of its insertion; its id is its place in   *)
(*    the sequence of resolved events.                                     *)
(***************************************************************************)
EXTENDS Integers, Sequences, FiniteSetsExt

CONSTANTS
    Requesters,     \* the tasks that send, of any number of processes
    DayLength,      \* moments in a UTC day
    WindowLength,   \* window_seconds
    Cooldown,       \* cooldown_seconds
    FailureRateE4,  \* failure_rate_e4
    MinimumSample,  \* minimum_sample
    DailyBudget,    \* shazam_daily_budget_per_egress
    LatchCount,     \* latch_count
    MaxTime,        \* bound: the last moment
    MaxTraffic,     \* bound: requests sent and answers that came, together
    MaxGeneration   \* bound: re-enables, by the command and by configuration

\* What BreakerConfig() accepts.
ASSUME BreakerBounded ==
    /\ IsFiniteSet(Requesters)
    /\ {DayLength, WindowLength, Cooldown, MinimumSample, DailyBudget, LatchCount} \subseteq Nat \ {0}
    /\ {FailureRateE4, MaxTime, MaxTraffic, MaxGeneration} \subseteq Nat

VARIABLES
    clock,
    breakerRow,   \* provider_breaker_state
    resolved,     \* the ledger's resolved events, in the order of their ids
    dispatched,   \* the ledger's dispatched rows by day, of free primaries and of others
    generation,   \* the reenable_generation of the configuration
    asking,       \* where a requester is
    free,         \* running_free of its request
    moment        \* the time it took when it began to ask, or when it was last idle

breakerVars == <<clock, breakerRow, resolved, dispatched, generation, asking, free, moment>>
askingVars == <<asking, free, moment>>

Never == -1
Today(time) == time \div DayLength
Days == 0..Today(MaxTime)
Rows == [day : Days \cup {Never}, opens : Nat, open_until : Nat \cup {Never},
         latched : BOOLEAN, reenable_generation : Nat, reenabled_at : Nat \cup {Never},
         cursor : Nat]
FreshRow == [day |-> Never, opens |-> 0, open_until |-> Never, latched |-> FALSE,
          reenable_generation |-> 0, reenabled_at |-> Never, cursor |-> 0]

BreakerTypeOK ==
    /\ clock \in 0..MaxTime
    /\ breakerRow \in Rows
    /\ resolved \in Seq([failed : BOOLEAN, at : 0..MaxTime])
    /\ dispatched \in [Days -> [free : Nat, held : Nat]]
    /\ generation \in 0..MaxGeneration
    /\ asking \in [Requesters -> {"idle", "differs", "admitted"}]
    /\ free \in [Requesters -> BOOLEAN]
    /\ moment \in [Requesters -> 0..MaxTime]

BreakerInit ==
    /\ clock = 0
    /\ breakerRow = FreshRow
    /\ resolved = <<>>
    /\ dispatched = [d \in Days |-> [free |-> 0, held |-> 0]]
    /\ generation = 0
    /\ asking = [p \in Requesters |-> "idle"]
    /\ free = [p \in Requesters |-> FALSE]
    /\ moment = [p \in Requesters |-> 0]

----------------------------------------------------------------------------
(* The judgement: pure, over a row, the ledger and the time it is given.   *)

\* The stored row; before the first write, the row of a day that just began.
ReadState(today) == IF breakerRow.day = Never THEN [FreshRow EXCEPT !.day = today] ELSE breakerRow

Cutoff(row, time, configured) ==
    IF configured > row.reenable_generation THEN time ELSE row.reenabled_at

\* The events rule (a) counts: inside the window and after the last re-enable.
Sample(time, since) ==
    {e \in DOMAIN resolved : resolved[e].at >= time - WindowLength /\ resolved[e].at > since}
Failures(sample) == {e \in sample : resolved[e].failed}
NewestOf(sample) == Max(sample \cup {0})
Used(day) == dispatched[day].free + dispatched[day].held
SentInAll == MapThenSumSet(Used, Days)

Reenabled(row, time, configured) ==
    IF configured > row.reenable_generation
    THEN [row EXCEPT !.latched = FALSE, !.opens = 0, !.open_until = Never,
                     !.reenable_generation = configured, !.reenabled_at = time]
    ELSE row

NewDay(row, today) ==
    IF row.day # today THEN [row EXCEPT !.day = today, !.opens = 0] ELSE row

\* Mutant of Tripping: what fails while the breaker is open trips it again.
TrippingOpen(row, time, sample) ==
    /\ Cardinality(sample) >= MinimumSample
    /\ Cardinality(Failures(sample)) * 10000 > Cardinality(sample) * FailureRateE4
    /\ NewestOf(sample) > row.cursor
    /\ ~row.latched

Tripping(row, time, sample) ==
    /\ Cardinality(sample) >= MinimumSample
    /\ Cardinality(Failures(sample)) * 10000 > Cardinality(sample) * FailureRateE4
    /\ NewestOf(sample) > row.cursor
    /\ ~row.latched
    /\ ~(time < row.open_until)

Trip(row, time, sample) ==
    IF Tripping(row, time, sample)
    THEN [row EXCEPT !.opens = row.opens + 1, !.open_until = time + Cooldown,
                     !.latched = row.opens + 1 >= LatchCount, !.cursor = NewestOf(sample)]
    ELSE row

\* Mutant of Refuses: one more than the budget.
RefusesAbove(row, time) ==
    row.latched \/ Used(Today(time)) > DailyBudget \/ time < row.open_until

Refuses(row, time) ==
    row.latched \/ Used(Today(time)) >= DailyBudget \/ time < row.open_until

Judge(row, time, configured) ==
    LET sample == Sample(time, Cutoff(row, time, configured))
        judged == Trip(NewDay(Reenabled(row, time, configured), Today(time)), time, sample)
    IN [refused |-> Refuses(judged, time), row |-> judged]

----------------------------------------------------------------------------
(* Asking: dispatch() and refusal(). *)

\* A refused request is not sent; a free primary that runs is never refused.
Admits(refused, f) == ~refused \/ f
Answer(p, refused, f) ==
    /\ moment' = [moment EXCEPT ![p] = clock]
    /\ asking' = [asking EXCEPT ![p] = IF Admits(refused, f) THEN "admitted" ELSE "idle"]
    /\ free' = [free EXCEPT ![p] = f /\ Admits(refused, f)]

\* The first judgement writes nothing.  It stands if it would change nothing, which is
\* compared with the row read once more: two reads that are one step here, because a
\* change between them is the change of a judgement made a moment later.  The time was
\* taken before anything was read: it may be any since the last request was over.
View(p) ==
    \E f \in BOOLEAN, time \in moment[p]..clock :
        LET row == ReadState(Today(time))
            judged == Judge(row, time, generation)
            stands == judged.row = row
        IN /\ asking[p] = "idle"
           /\ IF stands
              THEN Answer(p, judged.refused, f)
              ELSE /\ asking' = [asking EXCEPT ![p] = "differs"]
                   /\ free' = [free EXCEPT ![p] = f]
                   /\ moment' = [moment EXCEPT ![p] = time]
           /\ UNCHANGED <<clock, breakerRow, resolved, dispatched, generation>>

\* The write transaction: judged again on the row and the ledger it finds.
JudgeAgain(p) ==
    LET row == ReadState(Today(moment[p]))
        judged == Judge(row, moment[p], generation)
    IN /\ asking[p] = "differs"
       /\ breakerRow' = IF judged.row = row THEN breakerRow ELSE judged.row
       /\ Answer(p, judged.refused, free[p])
       /\ UNCHANGED <<clock, resolved, dispatched, generation>>

----------------------------------------------------------------------------
(* Sending, the operator, and time. *)

\* What it asked is over and forgotten.
Over(p) ==
    /\ asking' = [asking EXCEPT ![p] = "idle"]
    /\ moment' = [moment EXCEPT ![p] = clock]
    /\ free' = [free EXCEPT ![p] = FALSE]

\* The dispatched row is committed just before the request leaves.
Dispatch(p) ==
    /\ asking[p] = "admitted"
    /\ SentInAll + Len(resolved) < MaxTraffic
    /\ dispatched' = IF free[p] THEN [dispatched EXCEPT ![Today(clock)].free = @ + 1]
                               ELSE [dispatched EXCEPT ![Today(clock)].held = @ + 1]
    /\ Over(p)
    /\ UNCHANGED <<clock, breakerRow, resolved, generation>>

\* The fence refuses the row, or the process dies: nothing is sent.
GiveUp(p) ==
    /\ asking[p] = "admitted"
    /\ Over(p)
    /\ UNCHANGED <<clock, breakerRow, resolved, dispatched, generation>>

\* A request that was sent is journalled with its outcome, if its process lives.
Resolve ==
    /\ SentInAll + Len(resolved) < MaxTraffic
    /\ Len(resolved) < SentInAll
    /\ \E f \in BOOLEAN : resolved' = Append(resolved, [failed |-> f, at |-> clock])
    /\ UNCHANGED <<clock, breakerRow, dispatched, generation, askingVars>>

\* The configured generation is raised; a process whose own is older judges as before.
Configure ==
    /\ generation < MaxGeneration
    /\ generation' = generation + 1
    /\ UNCHANGED <<clock, breakerRow, resolved, dispatched, askingVars>>

\* reenable(): the command takes the time before it holds the write transaction, and runs
\* with the default configuration, whose generation is 0.
Reenable ==
    /\ breakerRow.reenable_generation < MaxGeneration
    /\ \E time \in 0..clock :
          breakerRow' = [FreshRow EXCEPT !.day = Today(time), !.reenabled_at = time,
                             !.reenable_generation = breakerRow.reenable_generation + 1]
    /\ UNCHANGED <<clock, resolved, dispatched, generation, askingVars>>

Tick ==
    /\ clock < MaxTime
    /\ clock' = clock + 1
    /\ UNCHANGED <<breakerRow, resolved, dispatched, generation, askingVars>>

BreakerNext ==
    \/ \E p \in Requesters : \/ View(p) \/ JudgeAgain(p) \/ Dispatch(p) \/ GiveUp(p)
    \/ Resolve \/ Configure \/ Reenable \/ Tick

BreakerSpec == BreakerInit /\ [][BreakerNext]_breakerVars

----------------------------------------------------------------------------
(* What the breaker promises. *)

\* Rule (b): however the asking of several processes interleaves, what asks before it
\* starts exceeds a day's budget at most by the other requesters that were just asking:
\* nobody asks twice on a count that does not hold its own request.
FleetKeepsBudget ==
    \A d \in Days : dispatched[d].held < DailyBudget + Cardinality(Requesters)

Trips ==
    /\ breakerRow'.open_until # Never
    /\ breakerRow'.open_until # breakerRow.open_until \/ breakerRow'.opens > breakerRow.opens

\* The moment a row that tripped was judged at.
Tripped(row) == row.open_until - Cooldown

\* Two workers that see one incident trip once: a trip finds the row neither open at its moment
\* nor latched, unless the breaker was re-enabled with it; it adds one to the opens of the day,
\* and rests on an event later than the last re-enable and than the last trip.
TripsAreCounted ==
    [][Trips =>
        LET fresh(e) == /\ resolved[e].at > breakerRow'.reenabled_at
                        /\ e > breakerRow.cursor
        IN /\ \/ breakerRow'.reenable_generation > breakerRow.reenable_generation
              \/ ~breakerRow.latched /\ breakerRow.open_until <= Tripped(breakerRow')
           /\ \E e \in DOMAIN resolved : fresh(e)
           /\ breakerRow'.opens = 1 + (IF /\ breakerRow'.day = breakerRow.day
                                          /\ breakerRow'.reenable_generation
                                                = breakerRow.reenable_generation
                                       THEN breakerRow.opens ELSE 0)]_breakerVars
=============================================================================
