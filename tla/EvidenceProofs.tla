--------------------------- MODULE EvidenceProofs ---------------------------
(***************************************************************************)
(* What a mix is heard to be: the paid rows take nothing from the free     *)
(* ones but in one way, the free sweep never asks again about a clip that  *)
(* may have been answered, and its allowance is what its rows reserve.     *)
(* For any clips, tasks, limits, places and rows; and the types of the     *)
(* components of the run together.                                         *)
(***************************************************************************)
EXTENDS MCEvidence, RecoveryProofs, FiniteSetTheorems, TLAPS

\* Each free row that was taken out has a row in its place, and where a row meant for the result
\* has the id of a free row of its work, that free row was taken out.
MergeInv ==
    /\ replaced \subseteq freeRows
    /\ \A f \in replaced : \E x \in extra : HasAllOf(x, f)
    /\ \A x \in extra : \A g \in x.sameId :
            SameCandidate(x.row, g) /\ (SameWork(x.row, g) => g \in replaced)

LEMMA AddKeeps ==
    ASSUME MergeInv, NEW item \in Combined, AddRow(item), freeRows' = freeRows
    PROVE  MergeInv'
<1>1. \A x, f : HasAllOf(x, f)' <=> HasAllOf(x, f)
  BY DEF HasAllOf, Listed, Lifted
<1>2. \A g \in item.sameId : g \in freeRows /\ SameCandidate(item.row, g)
  BY DEF Combined
<1>3. \A g \in item.sameId : ~SameWork(item.row, g)
  BY <1>2 DEF AddRow, OfSameWork, SameCandidate
<1> QED
  BY <1>1, <1>2, <1>3 DEF MergeInv, AddRow

LEMMA ConfirmKeeps ==
    ASSUME MergeInv, NEW item \in Combined, ConfirmRow(item), freeRows' = freeRows
    PROVE  MergeInv'
<1>1. \A x, f : HasAllOf(x, f)' <=> HasAllOf(x, f)
  BY DEF HasAllOf, Listed, Lifted
<1>2. \A f \in OfSameWork(item.row) : f \in freeRows /\ HasAllOf(item, f)
  BY DEF ConfirmRow, OfSameWork, Preserves, HasAllOf
<1>3. \A g \in item.sameId : g \in freeRows /\ SameCandidate(item.row, g)
  BY DEF Combined
<1>4. \A g \in item.sameId : SameWork(item.row, g) => g \in OfSameWork(item.row)
  BY <1>3 DEF OfSameWork, SameCandidate
<1> QED
  BY <1>1, <1>2, <1>3, <1>4 DEF MergeInv, ConfirmRow

LEMMA StepMerge == MergeInv /\ [AdditiveNext]_additiveVars => MergeInv'
<1> SUFFICES ASSUME MergeInv, [AdditiveNext]_additiveVars PROVE MergeInv'
  OBVIOUS
<1>1. freeRows' = freeRows
  BY DEF AdditiveNext, ConsiderRow, additiveVars
<1>2. CASE UNCHANGED <<extra, replaced>>
  BY <1>1, <1>2 DEF MergeInv, HasAllOf, Listed, Lifted
<1>3. CASE ConsiderRow
  <2>1. PICK item \in Combined : AddRow(item) \/ ConfirmRow(item) \/ KeepFree(item)
    BY <1>3 DEF ConsiderRow
  <2> QED
    BY <1>1, <1>2, <2>1, AddKeeps, ConfirmKeeps DEF KeepFree
<1> QED
  BY <1>2, <1>3 DEF AdditiveNext, additiveVars

\* A row is left out only if it is the line of text, in another work than the free fusion has it
\* in: one with a catalogue entry never is.
LEMMA OnlyTextIsLeftOut ==
    ASSUME MergeInv, NEW x \in extra, LeftOut(x)
    PROVE  /\ TextOnly(x.row)
           /\ \E g \in x.sameId \ replaced : TextOnly(g) /\ g.credit # x.row.credit
<1>1. PICK g \in x.sameId : g \notin replaced
  BY DEF LeftOut
<1>2. SameCandidate(x.row, g) /\ ~SameWork(x.row, g)
  BY <1>1 DEF MergeInv
<1> QED
  BY <1>1, <1>2 DEF SameCandidate, SameWork, TextOnly

\* Paid evidence removes no row that the free evidence supports, but in the one way that the code
\* leaves: every free row is in the Deep result, or at its place a row no less sure, which is
\* listed and named alike when the free one was.
THEOREM PaidOnlyAdds == AdditiveSpec => []NothingFreeIsLost
<1>1. AdditiveInit => MergeInv
  BY DEF AdditiveInit, MergeInv
<1>2. MergeInv => NothingFreeIsLost
  <2> SUFFICES ASSUME MergeInv, NEW f \in freeRows
               PROVE  LostToItsId(f) \/ \E item \in Merged : HasAllOf(item, f)
    BY DEF NothingFreeIsLost
  <2>1. CASE f \in replaced
    <3>1. PICK x \in extra : HasAllOf(x, f)
      BY <2>1 DEF MergeInv
    <3>2. CASE LeftOut(x)
      BY <3>1, <3>2, OnlyTextIsLeftOut DEF LostToItsId
    <3>3. CASE ~LeftOut(x)
      <4> DEFINE item == [row |-> x.row, listed |-> x.listed]
      <4>1. item \in Merged
        BY <3>3 DEF Merged
      <4>2. HasAllOf(item, f)
        BY <3>1 DEF HasAllOf
      <4> QED
        BY <4>1, <4>2
    <3> QED
      BY <3>2, <3>3
  <2>2. CASE f \notin replaced
    <3> DEFINE item == [row |-> f, listed |-> Listed(f, freeRows)]
    <3>1. item \in Merged
      BY <2>2 DEF Merged
    <3>2. HasAllOf(item, f)
      BY DEF HasAllOf, SameWork
    <3> QED
      BY <3>1, <3>2
  <2> QED
    BY <2>1, <2>2
<1> QED
  BY <1>1, <1>2, StepMerge, PTL DEF AdditiveSpec

-----------------------------------------------------------------------------
\* The sweep.

Outcomes == {"prepared", "dispatched"} \cup Replies
TaskRow == [step : TaskSteps, clip : Clips \cup {0}, outcome : {"none", Unsent} \cup Replies,
            retries : Nat, throttles : Nat, second : BOOLEAN]

\* The columns and the memory the argument is about have their types.
AskTypes ==
    /\ jobRows \in [Clips -> ClipRow]
    /\ attempts \in [Clips -> Seq(Outcomes)]
    /\ asked \in [Clips -> Nat]
    /\ pool \in [Tasks -> TaskRow]
    /\ leasable \subseteq Clips /\ again \subseteq Clips
    /\ passes \in Nat

\* What an attempt must not be if its clip is asked about again.
Held == {"answer", "dispatched"}

MayAsk(c) == NewestAttempt(c) \notin Held

\* Only the newest attempt of a clip may hold it back.
OlderAreOpen == \A c \in Clips : \A n \in 1..(Len(attempts[c]) - 1) : attempts[c][n] \notin Held

Busy(t) == pool[t].step # "idle"

\* No two tasks are at one clip.
TasksApart == \A t, u \in Tasks : t # u /\ Busy(t) /\ Busy(u) => pool[t].clip # pool[u].clip

\* How far a task has come says what the journal holds of its clip, whose row is leased to it.
TaskKnows(t) ==
    LET c == pool[t].clip
    IN  /\ c \in Clips /\ jobRows[c].state \in ActiveStates
        /\ pool[t].step \in {"leased", "asking"} => MayAsk(c)
        /\ pool[t].step \in {"gate", "counted"} => NewestAttempt(c) = "prepared"
        /\ pool[t].step = "sent" => NewestAttempt(c) = "dispatched"
        /\ pool[t].step = "answered" => pool[t].outcome = "answer"
        /\ pool[t].step = "failed" => pool[t].outcome # "answer"
        /\ pool[t].step \in {"failed", "stored"} /\ pool[t].outcome # "answer" => MayAsk(c)

TasksKnow == \A t \in Tasks : Busy(t) => TaskKnows(t)

\* A row that failed, or that this pass may lease, is of a clip nobody may have answered; what
\* succeeded in an earlier pass is an answer that will do.
RowKnows(c) ==
    /\ jobRows[c].state = "permanent_failure" => MayAsk(c)
    /\ c \in leasable /\ jobRows[c].state = "pending" => MayAsk(c)
    /\ c \in again => jobRows[c].state = "permanent_failure"
    /\ jobRows[c].state = "succeeded" /\ passes > 0 =>
           jobRows[c].result \in {"own", "earlier", "negative"}

RowsKnow == \A c \in Clips : RowKnows(c)

\* Between passes nothing is under way, and before the first nothing was asked.
AtRest ==
    /\ sweep \notin {"sweeping", "retrying"} => AllIdle /\ leasable = {} /\ again = {}
    /\ passes = 0 => sweep = "closed" /\ \A c \in Clips : attempts[c] = <<>>

AskInv == AskTypes /\ OlderAreOpen /\ TasksApart /\ TasksKnow /\ RowsKnow /\ AtRest

-----------------------------------------------------------------------------
\* The journal of a clip grows at its end, and changes there.

LEMMA AppendAttempt ==
    ASSUME AskInv, NEW c \in Clips, NEW e \in Outcomes, MayAsk(c),
           attempts' = [attempts EXCEPT ![c] = Append(@, e)]
    PROVE  /\ attempts' \in [Clips -> Seq(Outcomes)]
           /\ NewestAttempt(c)' = e
           /\ \A n \in 1..(Len(attempts'[c]) - 1) : attempts'[c][n] \notin Held
           /\ \A d \in Clips \ {c} : attempts'[d] = attempts[d]
<1> DEFINE s == attempts[c]
<1>1. s \in Seq(Outcomes) /\ attempts \in [Clips -> Seq(Outcomes)]
  BY DEF AskInv, AskTypes
<1>2. attempts'[c] = Append(s, e) /\ Append(s, e) \in Seq(Outcomes)
  BY <1>1
<1>3. /\ Len(Append(s, e)) = Len(s) + 1 /\ Append(s, e)[Len(s) + 1] = e
      /\ \A n \in 1..Len(s) : Append(s, e)[n] = s[n]
      /\ Append(s, e) # <<>> /\ Len(s) \in Nat
  BY <1>1
<1>4. \A n \in 1..Len(s) : s[n] \notin Held
  <2> SUFFICES ASSUME NEW n \in 1..Len(s) PROVE s[n] \notin Held
    OBVIOUS
  <2>1. CASE n = Len(s)
    BY <1>1, <2>1 DEF MayAsk, NewestAttempt
  <2>2. CASE n # Len(s)
    BY <1>3, <2>2 DEF AskInv, OlderAreOpen
  <2> QED
    BY <2>1, <2>2
<1> QED
  BY <1>1, <1>2, <1>3, <1>4 DEF NewestAttempt

LEMMA ReplaceAttempt ==
    ASSUME AskInv, NEW c \in Clips, NEW e \in Outcomes, NewestAttempt(c) # "none",
           attempts' = [attempts EXCEPT ![c][Len(attempts[c])] = e]
    PROVE  /\ attempts' \in [Clips -> Seq(Outcomes)]
           /\ NewestAttempt(c)' = e
           /\ \A n \in 1..(Len(attempts'[c]) - 1) : attempts'[c][n] \notin Held
           /\ \A d \in Clips \ {c} : attempts'[d] = attempts[d]
<1> DEFINE s == attempts[c]
           r == [s EXCEPT ![Len(s)] = e]
<1>1. s \in Seq(Outcomes) /\ attempts \in [Clips -> Seq(Outcomes)] /\ s # <<>>
  BY DEF AskInv, AskTypes, NewestAttempt
<1>2. attempts'[c] = r
  BY <1>1
<1>3. Len(s) \in 1..Len(s) /\ r \in Seq(Outcomes) /\ Len(r) = Len(s) /\ r[Len(s)] = e
      /\ \A n \in 1..(Len(s) - 1) : r[n] = s[n]
  BY <1>1
<1>4. \A n \in 1..(Len(s) - 1) : s[n] \notin Held
  BY DEF AskInv, OlderAreOpen
<1>5. r # <<>>
  BY <1>1, <1>3
<1> QED
  BY <1>1, <1>2, <1>3, <1>4, <1>5 DEF NewestAttempt

-----------------------------------------------------------------------------
\* A step of one task, and what happens to a whole pass.

LEMMA BusyIsSweeping ==
    ASSUME AskInv, NEW t \in Tasks, Busy(t)
    PROVE  /\ sweep \in {"sweeping", "retrying"} /\ passes # 0
           /\ pool[t].clip \in Clips /\ TaskKnows(t)
BY DEF AskInv, AtRest, AllIdle, Busy, TasksKnow, TaskKnows

LEMMA TaskStepKeeps ==
    ASSUME AskInv, AskTypes', NEW t \in Tasks, Busy(t), NEW c, c = pool[t].clip,
           \A u \in Tasks \ {t} : pool'[u] = pool[u],
           \A d \in Clips \ {c} : jobRows'[d] = jobRows[d] /\ attempts'[d] = attempts[d],
           UNCHANGED <<sweep, leasable, again, passes>>,
           pool'[t].step # "idle" => pool'[t].clip = c /\ TaskKnows(t)',
           RowKnows(c)',
           \A n \in 1..(Len(attempts'[c]) - 1) : attempts'[c][n] \notin Held
    PROVE  AskInv'
<1>1. sweep \in {"sweeping", "retrying"} /\ passes # 0 /\ c \in Clips
  BY BusyIsSweeping
<1>2. OlderAreOpen'
  BY <1>1 DEF AskInv, OlderAreOpen
<1>3. TasksApart'
  BY DEF AskInv, TasksApart, Busy
<1>4. TasksKnow'
  <2> SUFFICES ASSUME NEW u \in Tasks, Busy(u)' PROVE TaskKnows(u)'
    BY DEF TasksKnow
  <2>1. CASE u = t
    BY <2>1 DEF Busy
  <2>2. CASE u # t
    <3>1. pool'[u] = pool[u] /\ Busy(u) /\ TaskKnows(u)
      BY <2>2 DEF Busy, AskInv, TasksKnow
    <3>2. pool[u].clip # c /\ pool[u].clip \in Clips
      BY <2>2, <3>1 DEF AskInv, TasksApart, TaskKnows
    <3> QED
      BY <3>1, <3>2 DEF TaskKnows, MayAsk, NewestAttempt
  <2> QED
    BY <2>1, <2>2
<1>5. RowsKnow'
  <2> SUFFICES ASSUME NEW d \in Clips PROVE RowKnows(d)'
    BY DEF RowsKnow
  <2>1. CASE d # c
    BY <2>1 DEF AskInv, RowsKnow, RowKnows, MayAsk, NewestAttempt
  <2> QED
    BY <2>1
<1>6. AtRest'
  BY <1>1 DEF AtRest
<1> QED
  BY <1>2, <1>3, <1>4, <1>5, <1>6 DEF AskInv

\* Nothing is under way: the rows that failed or succeeded are as they were.
LEMMA IdleKeeps ==
    ASSUME AskInv, AskTypes', \A t \in Tasks : pool'[t].step = "idle",
           leasable' = {}, again' = {}, UNCHANGED <<attempts, passes>>,
           passes = 0 => sweep' = "closed",
           \A c \in Clips : jobRows'[c].state \in {"permanent_failure", "succeeded"} =>
               jobRows'[c] = jobRows[c]
    PROVE  AskInv'
<1>1. OlderAreOpen' /\ TasksApart' /\ TasksKnow'
  BY DEF AskInv, OlderAreOpen, TasksApart, TasksKnow, Busy
<1>2. RowsKnow'
  BY DEF AskInv, RowsKnow, RowKnows, MayAsk, NewestAttempt
<1>3. AtRest'
  BY DEF AskInv, AtRest, AllIdle
<1> QED
  BY <1>1, <1>2, <1>3 DEF AskInv

LEMMA ReleasedIsRow ==
    ASSUME NEW row \in ClipRow
    PROVE  /\ ReleasedRow(row) \in ClipRow
           /\ ReleasedRow(row).state \in {"permanent_failure", "succeeded"} =>
                  ReleasedRow(row) = row
BY DEF ReleasedRow, ClipRow, ActiveStates, Answered

LEMMA IdleIsTask == IdleTask \in TaskRow /\ IdleTask.step = "idle"
BY DEF IdleTask, TaskRow, TaskSteps

LEMMA PassFailsKeeps ==
    ASSUME AskInv, PassFails, UNCHANGED <<attempts, passes, asked>>
    PROVE  AskInv'
<1>1. jobRows' \in [Clips -> ClipRow]
  BY ReleasedIsRow DEF PassFails, AskInv, AskTypes
<1>2. pool' \in [Tasks -> TaskRow] /\ \A t \in Tasks : pool'[t].step = "idle"
  BY IdleIsTask DEF PassFails
<1>3. leasable' = {} /\ again' = {} /\ sweep' = "closed"
  BY DEF PassFails
<1>4. \A c \in Clips : jobRows'[c].state \in {"permanent_failure", "succeeded"} =>
          jobRows'[c] = jobRows[c]
  BY ReleasedIsRow DEF PassFails, AskInv, AskTypes
<1>5. AskTypes'
  BY <1>1, <1>2, <1>3 DEF AskInv, AskTypes
<1> QED
  BY <1>2, <1>3, <1>4, <1>5, IdleKeeps

-----------------------------------------------------------------------------
\* The steps of one ask.

LEMMA StepsToNext ==
    ASSUME AskInv, NEW t \in Tasks, NEW next \in TaskSteps, StepsTo(t, next)
    PROVE  /\ pool' \in [Tasks -> TaskRow]
           /\ pool'[t].step = next /\ pool'[t].clip = pool[t].clip
           /\ pool'[t].outcome = pool[t].outcome
           /\ \A u \in Tasks \ {t} : pool'[u] = pool[u]
<1>1. pool \in [Tasks -> TaskRow] /\ pool[t] \in TaskRow
  BY DEF AskInv, AskTypes
<1>2. pool'[t] = [pool[t] EXCEPT !.step = next]
  BY <1>1 DEF StepsTo
<1>3. pool'[t] \in TaskRow
  BY <1>1, <1>2 DEF TaskRow
<1>4. DOMAIN pool' = Tasks /\ pool' = [u \in Tasks |-> pool'[u]]
      /\ \A u \in Tasks \ {t} : pool'[u] = pool[u]
  BY <1>1 DEF StepsTo
<1> QED
  BY <1>1, <1>2, <1>3, <1>4 DEF TaskRow

LEMMA StartAskKeeps == ASSUME AskInv, NEW t \in Tasks, StartAsk(t) PROVE AskInv'
<1>1. Busy(t) /\ pool[t].step = "leased"
  BY DEF StartAsk, Busy
<1>2. PICK c \in Clips : c = pool[t].clip
  BY <1>1, BusyIsSweeping
<1>3. /\ jobRows' = [jobRows EXCEPT ![c].state = "submission_started"]
      /\ StepsTo(t, "asking")
      /\ UNCHANGED <<attempts, asked, passes, sweep, leasable, again>>
  BY <1>2 DEF StartAsk, passVars
<1>4. AskTypes'
  BY <1>3, StepsToNext DEF AskInv, AskTypes, ClipRow, ActiveStates, TaskSteps
<1>5. jobRows'[c].state = "submission_started" /\ pool'[t].step = "asking" /\ pool'[t].clip = c
  BY <1>2, <1>3, StepsToNext DEF AskInv, AskTypes, ClipRow, TaskSteps
<1>6. MayAsk(c)'
  BY <1>1, <1>2, <1>3, BusyIsSweeping DEF TaskKnows, MayAsk, NewestAttempt
<1>7. TaskKnows(t)'
  BY <1>5, <1>6 DEF TaskKnows, ActiveStates
<1>8. c \notin again
  BY <1>1, <1>2, BusyIsSweeping DEF AskInv, RowsKnow, RowKnows, TaskKnows, ActiveStates
<1>9. RowKnows(c)'
  BY <1>3, <1>5, <1>8 DEF RowKnows
<1>10. \A n \in 1..(Len(attempts'[c]) - 1) : attempts'[c][n] \notin Held
  BY <1>3 DEF AskInv, OlderAreOpen
<1>11. /\ \A u \in Tasks \ {t} : pool'[u] = pool[u]
       /\ \A d \in Clips \ {c} : jobRows'[d] = jobRows[d] /\ attempts'[d] = attempts[d]
  BY <1>3, StepsToNext DEF AskInv, AskTypes, TaskSteps
<1> QED
  BY <1>1, <1>2, <1>3, <1>4, <1>5, <1>7, <1>9, <1>10, <1>11, TaskStepKeeps

\* The row of a clip that a task is at holds nothing back, and stays leased.
LEMMA LeasedRowKnows ==
    ASSUME AskInv, NEW t \in Tasks, Busy(t), NEW c \in Clips, c = pool[t].clip,
           UNCHANGED <<again>>, jobRows'[c].state \in ActiveStates
    PROVE  RowKnows(c)'
<1>1. c \notin again
  BY BusyIsSweeping DEF AskInv, RowsKnow, RowKnows, TaskKnows, ActiveStates
<1> QED
  BY <1>1 DEF RowKnows, ActiveStates

LEMMA PrepareAttemptKeeps == ASSUME AskInv, NEW t \in Tasks, PrepareAttempt(t) PROVE AskInv'
<1>1. Busy(t) /\ pool[t].step = "asking"
  BY DEF PrepareAttempt, Busy
<1>2. PICK c \in Clips : c = pool[t].clip
  BY <1>1, BusyIsSweeping
<1>3. /\ attempts' = [attempts EXCEPT ![c] = Append(@, "prepared")]
      /\ StepsTo(t, "gate")
      /\ UNCHANGED <<jobRows, asked, passes, sweep, leasable, again>>
  BY <1>2 DEF PrepareAttempt, passVars
<1>4. MayAsk(c) /\ jobRows[c].state \in ActiveStates
  BY <1>1, <1>2, BusyIsSweeping DEF TaskKnows
<1>5. /\ attempts' \in [Clips -> Seq(Outcomes)] /\ NewestAttempt(c)' = "prepared"
      /\ \A n \in 1..(Len(attempts'[c]) - 1) : attempts'[c][n] \notin Held
      /\ \A d \in Clips \ {c} : attempts'[d] = attempts[d]
  BY <1>3, <1>4, AppendAttempt DEF Outcomes
<1>6. AskTypes'
  BY <1>3, <1>5, StepsToNext DEF AskInv, AskTypes, TaskSteps
<1>7. pool'[t].step = "gate" /\ pool'[t].clip = c
  BY <1>2, <1>3, StepsToNext DEF TaskSteps
<1>8. TaskKnows(t)'
  BY <1>3, <1>4, <1>5, <1>7 DEF TaskKnows
<1>9. RowKnows(c)'
  BY <1>1, <1>2, <1>3, <1>4, LeasedRowKnows
<1>10. \A u \in Tasks \ {t} : pool'[u] = pool[u]
  BY <1>3, StepsToNext DEF TaskSteps
<1> QED
  BY <1>1, <1>2, <1>3, <1>5, <1>6, <1>7, <1>8, <1>9, <1>10, TaskStepKeeps

\* Steps of an ask that leave the journal alone: the task is let through, or fails.
LEMMA GateKeeps ==
    ASSUME AskInv, NEW t \in Tasks, pool[t].step = "gate", NEW c \in Clips, c = pool[t].clip,
           NEW next \in {[pool[t] EXCEPT !.step = "counted"],
                         [pool[t] EXCEPT !.step = "failed", !.outcome = Unsent]},
           pool' = [pool EXCEPT ![t] = next],
           jobRows' \in [Clips -> ClipRow], jobRows'[c].state = jobRows[c].state,
           \A d \in Clips \ {c} : jobRows'[d] = jobRows[d],
           UNCHANGED <<attempts, asked, passes, sweep, leasable, again>>
    PROVE  AskInv'
<1>1. Busy(t) /\ TaskKnows(t) /\ NewestAttempt(c) = "prepared"
  BY BusyIsSweeping DEF Busy, TaskKnows
<1>2. /\ next \in TaskRow /\ next.step \in {"counted", "failed"} /\ next.clip = c
      /\ next.step = "failed" => next.outcome = Unsent
  BY DEF AskInv, AskTypes, TaskRow, TaskSteps, Unsent
<1>3. pool'[t] = next /\ \A u \in Tasks \ {t} : pool'[u] = pool[u]
  BY DEF AskInv, AskTypes
<1>4. AskTypes'
  BY <1>2 DEF AskInv, AskTypes
<1>5. NewestAttempt(c)' = "prepared" /\ MayAsk(c)'
  BY <1>1 DEF MayAsk, NewestAttempt, Held
<1>6. jobRows'[c].state \in ActiveStates
  BY <1>1 DEF TaskKnows
<1>7. TaskKnows(t)'
  BY <1>2, <1>3, <1>5, <1>6 DEF TaskKnows, Unsent
<1>8. RowKnows(c)'
  BY <1>1, <1>6, LeasedRowKnows
<1>9. \A n \in 1..(Len(attempts'[c]) - 1) : attempts'[c][n] \notin Held
  BY DEF AskInv, OlderAreOpen
<1> QED
  BY <1>1, <1>2, <1>3, <1>4, <1>7, <1>8, <1>9, TaskStepKeeps

LEMMA NotSentKeeps == ASSUME AskInv, NEW t \in Tasks, NotSent(t) PROVE AskInv'
<1>1. pool[t].step = "gate" /\ Busy(t)
  BY DEF NotSent, Busy
<1>2. PICK c \in Clips : c = pool[t].clip
  BY <1>1, BusyIsSweeping
<1> DEFINE next == [pool[t] EXCEPT !.step = "failed", !.outcome = Unsent]
<1>3. /\ pool' = [pool EXCEPT ![t] = next]
      /\ UNCHANGED <<jobRows, attempts, asked, passes, sweep, leasable, again>>
  BY DEF NotSent, passVars, AskInv, AskTypes
<1>4. jobRows \in [Clips -> ClipRow]
  BY DEF AskInv, AskTypes
<1> QED
  BY <1>1, <1>2, <1>3, <1>4, GateKeeps

LEMMA AcquireTokenKeeps == ASSUME AskInv, NEW t \in Tasks, AcquireToken(t) PROVE AskInv'
<1>1. pool[t].step = "gate" /\ Busy(t)
  BY DEF AcquireToken, Busy
<1>2. PICK c \in Clips : c = pool[t].clip
  BY <1>1, BusyIsSweeping
<1>3. UNCHANGED <<attempts, asked, passes, sweep, leasable, again>>
  BY DEF AcquireToken, passVars
<1>4. jobRows \in [Clips -> ClipRow] /\ pool \in [Tasks -> TaskRow]
  BY DEF AskInv, AskTypes
<1>5. \/ /\ pool' = [pool EXCEPT ![t].step = "failed", ![t].outcome = Unsent]
         /\ UNCHANGED jobRows
      \/ /\ jobRows' = [jobRows EXCEPT ![c].reserved = @ + 1]
         /\ pool' = [pool EXCEPT ![t].step = "counted"]
  BY <1>2 DEF AcquireToken, StepsTo
<1>6. CASE /\ pool' = [pool EXCEPT ![t].step = "failed", ![t].outcome = Unsent]
           /\ UNCHANGED jobRows
  <2> DEFINE next == [pool[t] EXCEPT !.step = "failed", !.outcome = Unsent]
  <2>1. pool' = [pool EXCEPT ![t] = next]
    BY <1>4, <1>6
  <2> QED
    BY <1>1, <1>2, <1>3, <1>4, <1>6, <2>1, GateKeeps
<1>7. CASE /\ jobRows' = [jobRows EXCEPT ![c].reserved = @ + 1]
           /\ pool' = [pool EXCEPT ![t].step = "counted"]
  <2> DEFINE next == [pool[t] EXCEPT !.step = "counted"]
  <2>1. pool' = [pool EXCEPT ![t] = next]
    BY <1>4, <1>7
  <2>2. /\ jobRows' \in [Clips -> ClipRow] /\ jobRows'[c].state = jobRows[c].state
        /\ \A d \in Clips \ {c} : jobRows'[d] = jobRows[d]
    BY <1>4, <1>7 DEF ClipRow
  <2> QED
    BY <1>1, <1>2, <1>3, <2>1, <2>2, GateKeeps
<1> QED
  BY <1>5, <1>6, <1>7

LEMMA SendClipKeeps == ASSUME AskInv, NEW t \in Tasks, SendClip(t) PROVE AskInv'
<1>1. Busy(t) /\ pool[t].step = "counted"
  BY DEF SendClip, Busy
<1>2. PICK c \in Clips : c = pool[t].clip
  BY <1>1, BusyIsSweeping
<1>3. /\ attempts' = [attempts EXCEPT ![c][Len(attempts[c])] = "dispatched"]
      /\ asked' = [asked EXCEPT ![c] = @ + 1]
      /\ StepsTo(t, "sent")
      /\ UNCHANGED <<jobRows, passes, sweep, leasable, again>>
  BY <1>2 DEF SendClip, passVars
<1>4. NewestAttempt(c) = "prepared" /\ jobRows[c].state \in ActiveStates
  BY <1>1, <1>2, BusyIsSweeping DEF TaskKnows
<1>5. /\ attempts' \in [Clips -> Seq(Outcomes)] /\ NewestAttempt(c)' = "dispatched"
      /\ \A n \in 1..(Len(attempts'[c]) - 1) : attempts'[c][n] \notin Held
      /\ \A d \in Clips \ {c} : attempts'[d] = attempts[d]
  BY <1>3, <1>4, ReplaceAttempt DEF Outcomes
<1>6. AskTypes'
  BY <1>3, <1>5, StepsToNext DEF AskInv, AskTypes, TaskSteps
<1>7. pool'[t].step = "sent" /\ pool'[t].clip = c
  BY <1>2, <1>3, StepsToNext DEF TaskSteps
<1>8. TaskKnows(t)'
  BY <1>3, <1>4, <1>5, <1>7 DEF TaskKnows
<1>9. RowKnows(c)'
  BY <1>1, <1>2, <1>3, <1>4, LeasedRowKnows
<1>10. \A u \in Tasks \ {t} : pool'[u] = pool[u]
  BY <1>3, StepsToNext DEF TaskSteps
<1> QED
  BY <1>1, <1>2, <1>3, <1>5, <1>6, <1>7, <1>8, <1>9, <1>10, TaskStepKeeps

LEMMA HearAnswerKeeps == ASSUME AskInv, NEW t \in Tasks, HearAnswer(t) PROVE AskInv'
<1>1. Busy(t) /\ pool[t].step = "sent"
  BY DEF HearAnswer, Busy
<1>2. PICK c \in Clips : c = pool[t].clip
  BY <1>1, BusyIsSweeping
<1> DEFINE next(outcome) == HavingHeard(t, outcome)
<1>3. pool \in [Tasks -> TaskRow]
  BY DEF AskInv, AskTypes
<1>4. PICK outcome \in Replies :
          /\ attempts' = [attempts EXCEPT ![c][Len(attempts[c])] = outcome]
          /\ pool' = [pool EXCEPT ![t] = next(outcome)]
  BY <1>2, <1>3 DEF HearAnswer
<1>5. UNCHANGED <<jobRows, asked, passes, sweep, leasable, again>>
  BY DEF HearAnswer, passVars
<1>6. NewestAttempt(c) = "dispatched" /\ jobRows[c].state \in ActiveStates
  BY <1>1, <1>2, BusyIsSweeping DEF TaskKnows
<1>7. /\ attempts' \in [Clips -> Seq(Outcomes)] /\ NewestAttempt(c)' = outcome
      /\ \A n \in 1..(Len(attempts'[c]) - 1) : attempts'[c][n] \notin Held
      /\ \A d \in Clips \ {c} : attempts'[d] = attempts[d]
  BY <1>4, <1>6, ReplaceAttempt DEF Outcomes
<1>8. /\ next(outcome) \in TaskRow /\ next(outcome).clip = c
      /\ \/ outcome = "answer" /\ next(outcome).step = "answered"
            /\ next(outcome).outcome = "answer"
         \/ outcome # "answer" /\ next(outcome).step = "asking"
         \/ outcome # "answer" /\ next(outcome).step = "failed"
            /\ next(outcome).outcome = outcome
  <2>1. pool[t] \in TaskRow
    BY <1>3
  <2>2. CASE outcome = "answer"
    BY <1>2, <2>1, <2>2 DEF TaskRow, TaskSteps, Replies, HavingHeard
  <2>3. CASE outcome # "answer" /\ ~AsksAgain(t, outcome)
    BY <1>2, <2>1, <2>3 DEF TaskRow, TaskSteps, HavingHeard
  <2>4. CASE outcome # "answer" /\ AsksAgain(t, outcome)
    <3> DEFINE throttles == IF outcome = "throttled" THEN pool[t].throttles + 1
                            ELSE pool[t].throttles
               retries == IF outcome = "throttled" THEN pool[t].retries
                          ELSE pool[t].retries + 1
    <3>1. throttles \in Nat /\ retries \in Nat
      BY <2>1 DEF TaskRow
    <3>2. next(outcome) = [pool[t] EXCEPT !.step = "asking", !.throttles = throttles,
                                          !.retries = retries]
      BY <2>1, <2>4 DEF HavingHeard, TaskRow
    <3> HIDE DEF throttles, retries, next
    <3> QED
      BY <1>2, <2>1, <2>4, <3>1, <3>2 DEF TaskRow, TaskSteps
  <2> QED
    BY <2>2, <2>3, <2>4
<1>9. pool'[t] = next(outcome) /\ \A u \in Tasks \ {t} : pool'[u] = pool[u]
  BY <1>3, <1>4
<1> HIDE DEF next
<1>10. AskTypes'
  BY <1>3, <1>4, <1>5, <1>7, <1>8 DEF AskInv, AskTypes
<1>11. outcome # "answer" => MayAsk(c)'
  BY <1>7 DEF MayAsk, Held, Replies
<1>12. TaskKnows(t)'
  BY <1>5, <1>6, <1>8, <1>9, <1>11 DEF TaskKnows
<1>13. RowKnows(c)'
  BY <1>1, <1>2, <1>5, <1>6, LeasedRowKnows
<1> QED
  BY <1>1, <1>2, <1>5, <1>7, <1>8, <1>9, <1>10, <1>12, <1>13, TaskStepKeeps

LEMMA WriteBodyKeeps == ASSUME AskInv, NEW t \in Tasks, WriteBody(t) PROVE AskInv'
<1>1. Busy(t) /\ pool[t].step \in {"answered", "failed"}
  BY DEF WriteBody, Busy
<1>2. PICK c \in Clips : c = pool[t].clip
  BY <1>1, BusyIsSweeping
<1>3. CASE PassFails
  BY <1>3, PassFailsKeeps DEF WriteBody
<1>4. CASE ~PassFails
  <2>1. /\ StepsTo(t, "stored")
        /\ jobRows' = IF pool[t].step = "failed" THEN jobRows
                      ELSE [jobRows EXCEPT ![c].state = "submitted"]
        /\ UNCHANGED <<attempts, asked, passes, sweep, leasable, again>>
    BY <1>2, <1>4 DEF WriteBody, passVars
  <2>2. jobRows \in [Clips -> ClipRow] /\ jobRows[c].state \in ActiveStates
    BY <1>1, <1>2, BusyIsSweeping DEF AskInv, AskTypes, TaskKnows
  <2>3. /\ jobRows' \in [Clips -> ClipRow] /\ jobRows'[c].state \in ActiveStates
        /\ \A d \in Clips \ {c} : jobRows'[d] = jobRows[d]
    BY <2>1, <2>2 DEF ClipRow, ActiveStates
  <2>4. /\ pool' \in [Tasks -> TaskRow] /\ pool'[t].step = "stored" /\ pool'[t].clip = c
        /\ pool'[t].outcome = pool[t].outcome
        /\ \A u \in Tasks \ {t} : pool'[u] = pool[u]
    BY <1>2, <2>1, StepsToNext DEF TaskSteps
  <2>5. AskTypes'
    BY <2>1, <2>3, <2>4 DEF AskInv, AskTypes
  <2>6. pool[t].outcome # "answer" => MayAsk(c)'
    BY <1>1, <1>2, <2>1, BusyIsSweeping DEF TaskKnows, MayAsk, NewestAttempt
  <2>7. TaskKnows(t)'
    BY <2>3, <2>4, <2>6 DEF TaskKnows
  <2>8. RowKnows(c)'
    BY <1>1, <1>2, <2>1, <2>3, LeasedRowKnows
  <2>9. \A n \in 1..(Len(attempts'[c]) - 1) : attempts'[c][n] \notin Held
    BY <2>1 DEF AskInv, OlderAreOpen
  <2> QED
    BY <1>1, <1>2, <2>1, <2>3, <2>4, <2>5, <2>7, <2>8, <2>9, TaskStepKeeps
<1> QED
  BY <1>3, <1>4

LEMMA FinishClipKeeps == ASSUME AskInv, NEW t \in Tasks, FinishClip(t) PROVE AskInv'
<1>1. Busy(t) /\ pool[t].step = "stored"
  BY DEF FinishClip, Busy
<1>2. PICK c \in Clips : c = pool[t].clip
  BY <1>1, BusyIsSweeping
<1> DEFINE state == IF pool[t].outcome = "answer" THEN "succeeded" ELSE "permanent_failure"
<1>3. /\ jobRows' = [jobRows EXCEPT ![c] = [state |-> state, result |-> "own", reserved |-> 0]]
      /\ pool' = [pool EXCEPT ![t] = IdleTask]
      /\ UNCHANGED <<attempts, asked, passes, sweep, leasable, again>>
  BY <1>2 DEF FinishClip, SettleClip
<1>4. [state |-> state, result |-> "own", reserved |-> 0] \in ClipRow
  BY DEF ClipRow, Answered
<1>5. /\ jobRows' \in [Clips -> ClipRow]
      /\ jobRows'[c] = [state |-> state, result |-> "own", reserved |-> 0]
      /\ \A d \in Clips \ {c} : jobRows'[d] = jobRows[d]
  BY <1>3, <1>4 DEF AskInv, AskTypes
<1>6. /\ pool' \in [Tasks -> TaskRow] /\ pool'[t].step = "idle"
      /\ \A u \in Tasks \ {t} : pool'[u] = pool[u]
  BY <1>3, IdleIsTask DEF AskInv, AskTypes
<1>7. AskTypes'
  BY <1>3, <1>5, <1>6 DEF AskInv, AskTypes
<1>8. state = "permanent_failure" => MayAsk(c)'
  BY <1>1, <1>2, <1>3, BusyIsSweeping DEF TaskKnows, MayAsk, NewestAttempt
<1>9. c \notin again
  BY <1>1, <1>2, BusyIsSweeping DEF AskInv, RowsKnow, RowKnows, TaskKnows, ActiveStates
<1>10. RowKnows(c)'
  BY <1>3, <1>5, <1>8, <1>9 DEF RowKnows
<1>11. \A n \in 1..(Len(attempts'[c]) - 1) : attempts'[c][n] \notin Held
  BY <1>3 DEF AskInv, OlderAreOpen
<1> QED
  BY <1>1, <1>2, <1>3, <1>5, <1>6, <1>7, <1>10, <1>11, TaskStepKeeps

-----------------------------------------------------------------------------
\* A task takes a clip: no other task is at it, and nobody may have answered it.

LEMMA LeaseKeeps ==
    ASSUME AskInv, NEW t \in Tasks, ~Busy(t), NEW c \in Clips, MayAsk(c),
           jobRows[c].state \notin ActiveStates, sweep \in {"sweeping", "retrying"},
           NEW row \in ClipRow, row.state = "leased", jobRows' = [jobRows EXCEPT ![c] = row],
           NEW task \in TaskRow, task.step = "leased", task.clip = c,
           pool' = [pool EXCEPT ![t] = task],
           again' \subseteq again, c \notin again',
           UNCHANGED <<attempts, asked, passes, sweep, leasable>>
    PROVE  AskInv'
<1>1. /\ jobRows'[c] = row /\ \A d \in Clips \ {c} : jobRows'[d] = jobRows[d]
      /\ pool'[t] = task /\ \A u \in Tasks \ {t} : pool'[u] = pool[u]
  BY DEF AskInv, AskTypes
<1>2. AskTypes'
  BY DEF AskInv, AskTypes
<1>3. OlderAreOpen'
  BY DEF AskInv, OlderAreOpen
<1>4. \A u \in Tasks \ {t} : Busy(u) => TaskKnows(u) /\ pool[u].clip # c
  BY DEF AskInv, TasksKnow, TaskKnows
<1>5. TasksApart'
  BY <1>1, <1>4 DEF AskInv, TasksApart, Busy
<1>6. TaskKnows(t)'
  BY <1>1 DEF TaskKnows, ActiveStates, MayAsk, NewestAttempt
<1>7. \A u \in Tasks \ {t} : Busy(u)' => TaskKnows(u)'
  <2> SUFFICES ASSUME NEW u \in Tasks \ {t}, Busy(u)' PROVE TaskKnows(u)'
    OBVIOUS
  <2>1. pool'[u] = pool[u] /\ TaskKnows(u) /\ pool[u].clip # c
    BY <1>1, <1>4 DEF Busy
  <2>2. pool[u].clip \in Clips
    BY <2>1 DEF TaskKnows
  <2> QED
    BY <1>1, <2>1, <2>2 DEF TaskKnows, MayAsk, NewestAttempt
<1>8. TasksKnow'
  BY <1>6, <1>7 DEF TasksKnow
<1>9. RowsKnow'
  <2> SUFFICES ASSUME NEW d \in Clips PROVE RowKnows(d)'
    BY DEF RowsKnow
  <2>1. CASE d = c
    BY <1>1, <2>1 DEF RowKnows
  <2>2. CASE d # c
    BY <1>1, <2>2 DEF AskInv, RowsKnow, RowKnows, MayAsk, NewestAttempt
  <2> QED
    BY <2>1, <2>2
<1>10. AtRest'
  BY DEF AskInv, AtRest
<1> QED
  BY <1>2, <1>3, <1>5, <1>8, <1>9, <1>10 DEF AskInv

LEMMA TakeClipKeeps == ASSUME AskInv, NEW t \in Tasks, TakeClip(t) PROVE AskInv'
<1>1. PICK c \in leasable :
          /\ jobRows[c].state = "pending"
          /\ jobRows' = [jobRows EXCEPT ![c].state = "leased"]
          /\ pool' = [pool EXCEPT ![t] = [IdleTask EXCEPT !.step = "leased", !.clip = c]]
  BY DEF TakeClip
<1>2. /\ sweep = "sweeping" /\ ~Busy(t)
      /\ UNCHANGED <<attempts, asked, passes, sweep, leasable, again>>
  BY DEF TakeClip, Busy, passVars
<1>3. c \in Clips /\ jobRows \in [Clips -> ClipRow]
  BY DEF AskInv, AskTypes
<1>4. MayAsk(c) /\ c \notin again
  BY <1>1, <1>3 DEF AskInv, RowsKnow, RowKnows
<1> DEFINE row == [jobRows[c] EXCEPT !.state = "leased"]
           task == [IdleTask EXCEPT !.step = "leased", !.clip = c]
<1>5. row \in ClipRow /\ row.state = "leased" /\ jobRows' = [jobRows EXCEPT ![c] = row]
  BY <1>1, <1>3 DEF ClipRow, ActiveStates
<1>6. task \in TaskRow /\ task.step = "leased" /\ task.clip = c
  BY <1>3 DEF IdleTask, TaskRow, TaskSteps
<1>7. jobRows[c].state \notin ActiveStates
  BY <1>1 DEF ActiveStates
<1> HIDE DEF row, task
<1>8. pool' = [pool EXCEPT ![t] = task]
  BY <1>1 DEF task
<1> QED
  BY <1>2, <1>3, <1>4, <1>5, <1>6, <1>7, <1>8, LeaseKeeps

LEMMA AskAgainKeeps == ASSUME AskInv, NEW t \in Tasks, AskAgain(t) PROVE AskInv'
<1>1. PICK c \in again :
          /\ again' = again \ {c}
          /\ jobRows' = [jobRows EXCEPT ![c] = [ResetRow(@) EXCEPT !.state = "leased"]]
          /\ pool' = [pool EXCEPT ![t] = [IdleTask EXCEPT !.step = "leased", !.clip = c,
                                                      !.second = TRUE]]
  BY DEF AskAgain
<1>2. /\ sweep = "retrying" /\ ~Busy(t)
      /\ UNCHANGED <<attempts, asked, passes, sweep, leasable>>
  BY DEF AskAgain, AllIdle, Busy
<1>3. c \in Clips /\ jobRows \in [Clips -> ClipRow]
  BY DEF AskInv, AskTypes
<1>4. jobRows[c].state = "permanent_failure" /\ MayAsk(c)
  BY <1>1, <1>3 DEF AskInv, RowsKnow, RowKnows
<1> DEFINE row == [ResetRow(jobRows[c]) EXCEPT !.state = "leased"]
           task == [IdleTask EXCEPT !.step = "leased", !.clip = c, !.second = TRUE]
<1>5. row \in ClipRow /\ row.state = "leased"
  <2>1. ResetRow(jobRows[c]) \in ClipRow
    BY <1>3 DEF ResetRow, ClipRow
  <2> QED
    BY <2>1 DEF ClipRow, ActiveStates
<1>6. task \in TaskRow /\ task.step = "leased" /\ task.clip = c
  BY <1>3 DEF IdleTask, TaskRow, TaskSteps
<1>7. jobRows[c].state \notin ActiveStates
  BY <1>4 DEF ActiveStates
<1> HIDE DEF row, task
<1>8. pool' = [pool EXCEPT ![t] = task] /\ jobRows' = [jobRows EXCEPT ![c] = row]
  BY <1>1, <1>3 DEF task, row
<1> QED
  BY <1>1, <1>2, <1>3, <1>4, <1>5, <1>6, <1>7, <1>8, LeaseKeeps

-----------------------------------------------------------------------------
\* A pass begins, and ends.

\* Opening the store makes no row fail or succeed.
LEMMA OpenedIsRow ==
    ASSUME NEW row \in ClipRow, NEW old \in BOOLEAN, NEW opened,
           opened = Ensured(IF old THEN ReleasedRow(row) ELSE row)
    PROVE  /\ opened \in ClipRow
           /\ opened.state \in {"permanent_failure", "succeeded"} => opened = row
<1> DEFINE released == IF old THEN ReleasedRow(row) ELSE row
<1>1. /\ released \in ClipRow
      /\ released.state \in {"permanent_failure", "succeeded"} => released = row
  BY ReleasedIsRow
<1>2. [released EXCEPT !.state = "pending"] \in ClipRow
      /\ [released EXCEPT !.state = "pending"].state = "pending"
  BY <1>1 DEF ClipRow
<1> HIDE DEF released
<1>3. opened = Ensured(released)
  BY DEF released
<1> QED
  BY <1>1, <1>2, <1>3 DEF Ensured

\* A clip that may be leased and was answered is one whose answer the run still has.
LEMMA LeasableIsAnsweredHere ==
    ASSUME NEW c, ~NeverResend(c), ~MayAsk(c)
    PROVE  ResumeRule(c) = "reuse" /\ body[c] # "none"
<1>1. NewestAttempt(c) = "answer" \/ NewestAttempt(c) = "dispatched"
  BY DEF MayAsk, Held
<1>2. CASE NewestAttempt(c) = "answer"
  <2>1. ResumeRule(c) = "reuse"
    BY <1>2 DEF ResumeRule
  <2> QED
    BY <2>1 DEF NeverResend
<1>3. CASE NewestAttempt(c) = "dispatched"
  <2>1. ResumeRule(c) = "ambiguous"
    BY <1>3 DEF ResumeRule
  <2> QED
    BY <2>1 DEF NeverResend
<1> QED
  BY <1>1, <1>2, <1>3

LEMMA PlanSweepKeeps == ASSUME AskInv, PlanSweep PROVE AskInv'
<1>1. PICK old \in BOOLEAN :
         LET opened == [c \in Clips |->
                          Ensured(IF old THEN ReleasedRow(jobRows[c]) ELSE jobRows[c])]
         IN jobRows' = [c \in Clips |->
                          IF Outdated(opened[c]) THEN ResetRow(opened[c])
                          ELSE IF Forgotten(c, opened[c])
                          THEN [opened[c] EXCEPT !.state = "succeeded", !.result = "own"]
                          ELSE opened[c]]
  BY DEF PlanSweep
<1> DEFINE opened(c) == Ensured(IF old THEN ReleasedRow(jobRows[c]) ELSE jobRows[c])
<1>2. /\ sweep = "closed" /\ sweep' = "sweeping" /\ passes' = passes + 1
      /\ leasable' = {c \in Clips : ~NeverResend(c)}
      /\ UNCHANGED <<attempts, pool, again, asked>>
  BY DEF PlanSweep
<1>3. \A t \in Tasks : ~Busy(t)
  BY <1>2 DEF AskInv, AtRest, AllIdle, Busy
<1>4. again = {} /\ passes \in Nat /\ jobRows \in [Clips -> ClipRow]
  BY <1>2 DEF AskInv, AtRest, AskTypes
<1>5. \A c \in Clips :
         /\ opened(c) \in ClipRow
         /\ opened(c).state \in {"permanent_failure", "succeeded"} => opened(c) = jobRows[c]
  BY <1>4, OpenedIsRow
<1> HIDE DEF opened
<1>6. \A c \in Clips :
         jobRows'[c] = IF Outdated(opened(c)) THEN ResetRow(opened(c))
                       ELSE IF Forgotten(c, opened(c))
                       THEN [opened(c) EXCEPT !.state = "succeeded", !.result = "own"]
                       ELSE opened(c)
  BY <1>1 DEF opened
<1>7. \A c \in Clips :
         /\ Outdated(opened(c)) => jobRows'[c] \in ClipRow /\ jobRows'[c].state = "pending"
         /\ ~Outdated(opened(c)) /\ Forgotten(c, opened(c)) =>
                /\ jobRows'[c] \in ClipRow /\ jobRows'[c].state = "succeeded"
                /\ jobRows'[c].result = "own"
         /\ ~Outdated(opened(c)) /\ ~Forgotten(c, opened(c)) => jobRows'[c] = opened(c)
  BY <1>5, <1>6 DEF ResetRow, ClipRow, Answered
<1>8. jobRows' \in [Clips -> ClipRow]
  BY <1>1, <1>5, <1>7
<1>9. AskTypes'
  BY <1>2, <1>4, <1>8 DEF AskInv, AskTypes
<1>10. OlderAreOpen' /\ TasksApart' /\ TasksKnow'
  BY <1>2, <1>3 DEF AskInv, OlderAreOpen, TasksApart, TasksKnow, Busy
<1>11. RowsKnow'
  <2> SUFFICES ASSUME NEW c \in Clips PROVE RowKnows(c)'
    BY DEF RowsKnow
  <2>1. RowKnows(c) /\ MayAsk(c)' = MayAsk(c) /\ (passes = 0 => MayAsk(c))
    BY <1>2 DEF AskInv, AtRest, RowsKnow, MayAsk, NewestAttempt, Held
  <2>2. jobRows'[c].state = "permanent_failure" => MayAsk(c)
    BY <1>5, <1>7, <2>1 DEF RowKnows
  <2>3. ASSUME c \in leasable', jobRows'[c].state = "pending", ~MayAsk(c) PROVE FALSE
    <3>1. ResumeRule(c) = "reuse" /\ body[c] # "none" /\ passes > 0
      BY <1>2, <1>4, <2>1, <2>3, LeasableIsAnsweredHere
    <3>2. CASE Outdated(opened(c))
      <4>1. opened(c).state = "succeeded" \/ opened(c).state = "permanent_failure"
        BY <3>2 DEF Outdated, Answered
      <4>2. opened(c) = jobRows[c] /\ jobRows[c].state = "succeeded"
        BY <1>5, <2>1, <2>3, <4>1 DEF RowKnows
      <4>3. jobRows[c].result \in {"own", "earlier", "negative"}
        BY <2>1, <3>1, <4>2 DEF RowKnows
      <4> QED
        BY <3>1, <3>2, <4>2, <4>3 DEF Outdated, Cached, Answered
    <3>3. CASE ~Outdated(opened(c))
      BY <1>7, <2>3, <3>1, <3>3 DEF Forgotten
    <3> QED
      BY <3>2, <3>3
  <2>4. jobRows'[c].state = "succeeded" => jobRows'[c].result \in {"own", "earlier", "negative"}
    BY <1>7 DEF Outdated, Cached, Answered
  <2> QED
    BY <1>2, <1>4, <2>1, <2>2, <2>3, <2>4 DEF RowKnows
<1>12. AtRest'
  BY <1>2, <1>4 DEF AtRest
<1> QED
  BY <1>9, <1>10, <1>11, <1>12 DEF AskInv

LEMMA DrainedKeeps == ASSUME AskInv, Drained PROVE AskInv'
<1>1. /\ sweep = "sweeping" /\ sweep' = "retrying" /\ again' \subseteq FailedClips
      /\ UNCHANGED <<jobRows, attempts, asked, leasable, pool, passes>>
  BY DEF Drained
<1>2. \A c \in FailedClips : c \in Clips /\ jobRows[c].state = "permanent_failure"
  BY DEF FailedClips, AskInv, AskTypes
<1>3. AskTypes'
  BY <1>1, <1>2 DEF AskInv, AskTypes
<1>4. OlderAreOpen' /\ TasksApart'
  BY <1>1 DEF AskInv, OlderAreOpen, TasksApart, Busy
<1>5. TasksKnow'
  BY <1>1 DEF AskInv, TasksKnow, TaskKnows, Busy, MayAsk, NewestAttempt
<1>6. RowsKnow'
  BY <1>1, <1>2 DEF AskInv, RowsKnow, RowKnows, MayAsk, NewestAttempt
<1>7. AtRest'
  BY <1>1 DEF AskInv, AtRest
<1> QED
  BY <1>3, <1>4, <1>5, <1>6, <1>7 DEF AskInv

LEMMA RestingKeeps ==
    ASSUME AskInv, CollectAnswers \/ CheckpointSweep \/ SweepCrashes
    PROVE  AskInv'
<1>1. /\ UNCHANGED <<jobRows, attempts, passes, asked>> /\ leasable' = {} /\ again' = {}
      /\ sweep # "closed"
  BY DEF CollectAnswers, CheckpointSweep, SweepCrashes, AskInv, AtRest
<1>2. passes # 0
  BY <1>1 DEF AskInv, AtRest
<1>3. pool' \in [Tasks -> TaskRow] /\ \A t \in Tasks : pool'[t].step = "idle"
  BY IdleIsTask
  DEF CollectAnswers, CheckpointSweep, SweepCrashes, AllIdle, AskInv, AtRest, AskTypes
<1>4. AskTypes'
  BY <1>1, <1>3 DEF AskInv, AskTypes
<1> QED
  BY <1>1, <1>2, <1>3, <1>4, IdleKeeps

LEMMA OutsideKeeps ==
    ASSUME AskInv, LoseStore \/ \E c \in Clips : ReleaseClip(c)
    PROVE  AskInv'
<1>1. sweep = "closed" /\ UNCHANGED <<attempts, passes, asked, pool, sweep, leasable, again>>
  BY DEF LoseStore, ReleaseClip, passVars
<1>2. leasable' = {} /\ again' = {} /\ \A t \in Tasks : pool'[t].step = "idle"
  BY <1>1 DEF AskInv, AtRest, AllIdle
<1>3. jobRows' \in [Clips -> ClipRow] /\ \A c \in Clips :
          jobRows'[c].state \in {"permanent_failure", "succeeded"} => jobRows'[c] = jobRows[c]
  <2>1. CASE LoseStore
    BY <2>1 DEF LoseStore, ClipRow
  <2>2. CASE \E c \in Clips : ReleaseClip(c)
    <3>1. PICK c \in Clips :
              jobRows' = [jobRows EXCEPT ![c].state = "pending", ![c].reserved = 0]
      BY <2>2 DEF ReleaseClip
    <3>2. jobRows \in [Clips -> ClipRow]
      BY DEF AskInv, AskTypes
    <3>3. jobRows' = [jobRows EXCEPT ![c] = [jobRows[c] EXCEPT !.state = "pending",
                                                              !.reserved = 0]]
      BY <3>1, <3>2
    <3>4. [jobRows[c] EXCEPT !.state = "pending", !.reserved = 0] \in ClipRow
          /\ [jobRows[c] EXCEPT !.state = "pending", !.reserved = 0].state = "pending"
      BY <3>2 DEF ClipRow
    <3> QED
      BY <3>2, <3>3, <3>4
  <2> QED
    BY <2>1, <2>2
<1>4. AskTypes'
  BY <1>1, <1>3 DEF AskInv, AskTypes
<1> QED
  BY <1>1, <1>2, <1>3, <1>4, IdleKeeps DEF AskInv, AtRest

LEMMA AsideKeeps ==
    ASSUME AskInv, UNCHANGED <<jobRows, attempts, asked, pool, leasable, again, passes, sweep>>
    PROVE  AskInv'
<1>1. AskTypes' /\ OlderAreOpen' /\ TasksApart'
  BY DEF AskInv, AskTypes, OlderAreOpen, TasksApart, Busy
<1>2. TasksKnow' /\ RowsKnow'
  BY DEF AskInv, TasksKnow, TaskKnows, Busy, RowsKnow, RowKnows, MayAsk, NewestAttempt
<1>3. AtRest'
  BY DEF AskInv, AtRest, AllIdle
<1> QED
  BY <1>1, <1>2, <1>3 DEF AskInv

-----------------------------------------------------------------------------
LEMMA InitAsk == SweepInit => AskInv
<1> SUFFICES ASSUME SweepInit PROVE AskInv
  OBVIOUS
<1>1. /\ attempts = [c \in Clips |-> <<>>] /\ pool = [t \in Tasks |-> IdleTask]
      /\ sweep = "closed" /\ leasable = {} /\ again = {} /\ passes = 0
      /\ asked = [c \in Clips |-> 0]
  BY DEF SweepInit
<1>2. /\ jobRows \in [Clips -> ClipRow]
      /\ \A c \in Clips : jobRows[c].state \in {"none", "succeeded"}
  BY DEF SweepInit, ClipRow, Answered
<1>3. AskTypes
  BY <1>1, <1>2, IdleIsTask DEF AskTypes
<1>4. \A t \in Tasks : ~Busy(t)
  BY <1>1, IdleIsTask DEF Busy
<1>5. OlderAreOpen
  BY <1>1 DEF OlderAreOpen
<1>6. TasksApart /\ TasksKnow
  BY <1>4 DEF TasksApart, TasksKnow
<1>7. RowsKnow
  BY <1>1, <1>2 DEF RowsKnow, RowKnows
<1>8. AtRest
  BY <1>1, <1>4 DEF AtRest, AllIdle, Busy
<1> QED
  BY <1>3, <1>5, <1>6, <1>7, <1>8 DEF AskInv

LEMMA StepAsk == AskInv /\ [SweepNext]_sweepVars => AskInv'
<1> SUFFICES ASSUME AskInv, [SweepNext]_sweepVars PROVE AskInv'
  OBVIOUS
<1>1. CASE UNCHANGED sweepVars \/ PauseEnds \/ Silence
  BY <1>1, AsideKeeps DEF sweepVars, passVars, PauseEnds, Silence
<1>2. CASE PlanSweep \/ Drained \/ CollectAnswers \/ CheckpointSweep \/ SweepCrashes
  BY <1>2, PlanSweepKeeps, DrainedKeeps, RestingKeeps
<1>3. CASE InterruptPass \/ \E t \in Tasks : RefusedDispatch(t)
  BY <1>3, PassFailsKeeps DEF InterruptPass, RefusedDispatch
<1>4. CASE LoseStore \/ \E c \in Clips : ReleaseClip(c)
  BY <1>4, OutsideKeeps
<1>5. CASE \E t \in Tasks : TakeClip(t) \/ StartAsk(t) \/ PrepareAttempt(t) \/ NotSent(t)
  BY <1>5, TakeClipKeeps, StartAskKeeps, PrepareAttemptKeeps, NotSentKeeps
<1>6. CASE \E t \in Tasks : AcquireToken(t) \/ SendClip(t) \/ HearAnswer(t)
  BY <1>6, AcquireTokenKeeps, SendClipKeeps, HearAnswerKeeps
<1>7. CASE \E t \in Tasks : WriteBody(t) \/ FinishClip(t) \/ AskAgain(t)
  BY <1>7, WriteBodyKeeps, FinishClipKeeps, AskAgainKeeps
<1> QED
  BY <1>1, <1>2, <1>3, <1>4, <1>5, <1>6, <1>7 DEF SweepNext

\* The strengthened invariant: what a task, a row and the journal know of a clip agree.
THEOREM JournalLeads == SweepSpec => []AskInv
BY InitAsk, StepAsk, PTL DEF SweepSpec

\* Only sending counts as asking.
LEMMA OnlySendAsks ==
    ASSUME AskInv, [SweepNext]_sweepVars, ~ \E t \in Tasks : SendClip(t)
    PROVE  asked' = asked
BY DEF SweepNext, sweepVars, PlanSweep, Drained, CollectAnswers, CheckpointSweep,
       InterruptPass, SweepCrashes, LoseStore, PauseEnds, Silence, ReleaseClip, TakeClip,
       StartAsk, PrepareAttempt, NotSent, AcquireToken, HearAnswer, RefusedDispatch,
       WriteBody, FinishClip, AskAgain

LEMMA AskedOpen ==
    ASSUME AskInv, [SweepNext]_sweepVars, NEW c \in Clips, asked'[c] > asked[c],
           NEW n \in DOMAIN attempts[c]
    PROVE  attempts[c][n] \notin Held
<1>1. asked \in [Clips -> Nat] /\ attempts[c] \in Seq(Outcomes)
  BY DEF AskInv, AskTypes
<1>2. asked' # asked
  BY <1>1
<1>3. PICK t \in Tasks : SendClip(t)
  BY <1>2, OnlySendAsks
<1>4. pool[t].step = "counted" /\ asked' = [asked EXCEPT ![pool[t].clip] = @ + 1]
  BY <1>3 DEF SendClip
<1>5. c = pool[t].clip
  BY <1>1, <1>4
<1>6. NewestAttempt(c) = "prepared"
  BY <1>4, <1>5, BusyIsSweeping DEF Busy, TaskKnows
<1>7. n \in 1..Len(attempts[c]) /\ Len(attempts[c]) \in Nat
  BY <1>1
<1>8. CASE n = Len(attempts[c])
  BY <1>6, <1>7, <1>8 DEF NewestAttempt, Held
<1>9. CASE n # Len(attempts[c])
  BY <1>7, <1>9 DEF AskInv, OlderAreOpen
<1> QED
  BY <1>8, <1>9

\* A run asks about a clip again only if it knows that no answer was given: not after an answer,
\* nor over a request that a dead pass left open, whatever became of the store.
THEOREM OnlyOpenAreAsked == SweepSpec => NeverAskedAgain
<1>1. AskInv /\ [SweepNext]_sweepVars
          => [\A c \in Clips : asked'[c] > asked[c] =>
                 \A n \in DOMAIN attempts[c] :
                     attempts[c][n] \notin {"answer", "dispatched"}]_sweepVars
  BY AskedOpen DEF Held
<1> QED
  BY <1>1, JournalLeads, PTL DEF SweepSpec, NeverAskedAgain

-----------------------------------------------------------------------------
\* The allowance of the sweep: what the rows hold is what the budgets row says they hold.

Holds(c) == {c} \X (1..jobRows[c].reserved)

AllowanceInv ==
    /\ allowance \in [max : Nat, reserved : Nat, used : Nat]
    /\ allowance.reserved + allowance.used <= allowance.max
    /\ IsFiniteSet(Reservations) /\ allowance.reserved = Cardinality(Reservations)

\* The variables that the argument about the journal does without.
AsideTypes ==
    /\ body \in [Clips -> {"none", Unsent} \cup Replies]
    /\ sweep \in {"closed", "sweeping", "retrying", "collected", "over"}
    /\ limiter \in [paused : BOOLEAN, probing : BOOLEAN, probe : BOOLEAN,
                    streak : 0..ThrottleStreak, silent : BOOLEAN]
    /\ refusedAnswer \in BOOLEAN

LEMMA ReservationsAre == \A x : x \in Reservations <=> \E c \in Clips : x \in Holds(c)
BY DEF Reservations, Holds

LEMMA SameReservations ==
    ASSUME \A c \in Clips : jobRows'[c].reserved = jobRows[c].reserved
    PROVE  Reservations' = Reservations
<1>1. \A c \in Clips : Holds(c)' = Holds(c)
  BY DEF Holds
<1>2. \A x : x \in Reservations' <=> \E c \in Clips : x \in Holds(c)'
  BY DEF Reservations, Holds
<1> QED
  BY <1>1, <1>2, ReservationsAre

LEMMA SameAllowance ==
    ASSUME AllowanceInv, \A c \in Clips : jobRows'[c].reserved = jobRows[c].reserved,
           UNCHANGED allowance
    PROVE  AllowanceInv'
BY SameReservations DEF AllowanceInv

\* One more request of clip c is reserved.
LEMMA OneMore ==
    ASSUME AllowanceInv, jobRows \in [Clips -> ClipRow], NEW c \in Clips,
           jobRows' = [jobRows EXCEPT ![c].reserved = @ + 1],
           allowance.used + allowance.reserved < allowance.max,
           allowance' = [allowance EXCEPT !.reserved = @ + 1]
    PROVE  AllowanceInv'
<1> DEFINE n == jobRows[c].reserved
<1>1. n \in Nat
  BY DEF ClipRow
<1>2. /\ jobRows'[c].reserved = n + 1
      /\ \A d \in Clips \ {c} : jobRows'[d] = jobRows[d]
  BY DEF ClipRow
<1>3. 1..(n + 1) = (1..n) \cup {n + 1} /\ n + 1 \notin 1..n
  BY <1>1
<1>4. Holds(c)' = Holds(c) \cup {<<c, n + 1>>}
  BY <1>2, <1>3 DEF Holds
<1>5. \A d \in Clips \ {c} : Holds(d)' = Holds(d)
  BY <1>2 DEF Holds
<1>6. \A x : x \in Reservations' <=> \E d \in Clips : x \in Holds(d)'
  BY DEF Reservations, Holds
<1>7. Reservations' = Reservations \cup {<<c, n + 1>>}
  BY <1>4, <1>5, <1>6, ReservationsAre
<1>8. <<c, n + 1>> \notin Reservations
  BY <1>3, ReservationsAre DEF Holds
<1>9. /\ IsFiniteSet(Reservations')
      /\ Cardinality(Reservations') = Cardinality(Reservations) + 1
  BY <1>7, <1>8, FS_AddElement DEF AllowanceInv
<1>10. /\ allowance' \in [max : Nat, reserved : Nat, used : Nat]
       /\ allowance'.reserved = allowance.reserved + 1
       /\ allowance'.reserved + allowance'.used <= allowance'.max
  BY DEF AllowanceInv
<1> QED
  BY <1>9, <1>10 DEF AllowanceInv

LEMMA PairsWith ==
    ASSUME NEW c, NEW T, IsFiniteSet(T)
    PROVE  Cardinality({c} \X T) = Cardinality(T)
<1> DEFINE S == {c}
<1>1. IsFiniteSet(S) /\ Cardinality(S) = 1
  BY FS_Singleton
<1> HIDE DEF S
<1>2. Cardinality(S \X T) = Cardinality(S) * Cardinality(T)
  BY <1>1, FS_Product
<1>3. Cardinality(T) \in Nat
  BY FS_CardinalityType
<1>4. Cardinality(S \X T) = Cardinality(T)
  BY <1>1, <1>2, <1>3
<1> QED
  BY <1>4 DEF S

LEMMA Without ==
    ASSUME NEW S, IsFiniteSet(S), NEW T, \A x \in T : x \in S
    PROVE  IsFiniteSet(S \ T) /\ Cardinality(S \ T) = Cardinality(S) - Cardinality(T)
<1>1. S \cap T = T
  OBVIOUS
<1> QED
  BY <1>1, FS_Difference

LEMMA UpTo ==
    ASSUME NEW n \in Nat
    PROVE  IsFiniteSet(1..n) /\ Cardinality(1..n) = n
<1>1. IsFiniteSet(1..n) /\ Cardinality(1..n) = IF 1 > n THEN 0 ELSE n - 1 + 1
  <2>1. 1 \in Int /\ n \in Int
    OBVIOUS
  <2> QED
    BY <2>1, FS_Interval, Zenon
<1>2. 1 > n => n = 0
  OBVIOUS
<1>3. n - 1 + 1 = n
  OBVIOUS
<1> QED
  BY <1>1, <1>2, <1>3, Zenon

\* What clip c holds is taken off the rows.
LEMMA NoMore ==
    ASSUME AllowanceInv, jobRows \in [Clips -> ClipRow], NEW c \in Clips,
           jobRows'[c].reserved = 0,
           \A d \in Clips \ {c} : jobRows'[d].reserved = jobRows[d].reserved
    PROVE  /\ IsFiniteSet(Reservations') /\ jobRows[c].reserved \in Nat
           /\ Cardinality(Reservations') = allowance.reserved - jobRows[c].reserved
           /\ Cardinality(Reservations') \in Nat
<1> DEFINE n == jobRows[c].reserved
<1>1. n \in Nat
  BY DEF ClipRow
<1>2. Holds(c)' = {}
  BY DEF Holds
<1>3. \A d \in Clips \ {c} : Holds(d)' = Holds(d) /\ Holds(d) \cap Holds(c) = {}
  BY DEF Holds
<1>4. \A x : x \in Reservations' <=> \E d \in Clips : x \in Holds(d)'
  BY DEF Reservations, Holds
<1>5. Reservations' = Reservations \ Holds(c)
  BY <1>2, <1>3, <1>4, ReservationsAre
<1>6. \A x \in Holds(c) : x \in Reservations
  BY ReservationsAre
<1>7. IsFiniteSet(1..n) /\ Cardinality(1..n) = n
  BY <1>1, UpTo
<1> DEFINE T == 1..n
<1>8. IsFiniteSet(T) /\ Cardinality(T) = n /\ Holds(c) = {c} \X T
  BY <1>7 DEF Holds
<1> HIDE DEF T, n
<1>9. Cardinality({c} \X T) = Cardinality(T)
  BY <1>8, PairsWith
<1>10. Cardinality(Holds(c)) = n
  BY <1>8, <1>9
<1> DEFINE after == Reservations'
<1>11. /\ IsFiniteSet(after)
       /\ Cardinality(after) = Cardinality(Reservations) - n
  BY <1>5, <1>6, <1>10, Without DEF AllowanceInv
<1>12. Cardinality(Reservations') \in Nat
  BY <1>11, FS_CardinalityType
<1> QED
  BY <1>1, <1>11, <1>12 DEF AllowanceInv, n

LEMMA NothingHeld ==
    ASSUME \A c \in Clips : jobRows'[c].reserved = 0
    PROVE  IsFiniteSet(Reservations') /\ Cardinality(Reservations') = 0
<1>1. \A c \in Clips : Holds(c)' = {}
  BY DEF Holds
<1>2. \A x : x \in Reservations' <=> \E c \in Clips : x \in Holds(c)'
  BY DEF Reservations, Holds
<1>3. Reservations' = {}
  BY <1>1, <1>2
<1> QED
  BY <1>3, FS_EmptySet

LEMMA RowStepsReserveNothing ==
    ASSUME NEW row \in ClipRow
    PROVE  /\ ReleasedRow(row) \in ClipRow /\ ReleasedRow(row).reserved = row.reserved
           /\ Ensured(row) \in ClipRow /\ Ensured(row).reserved = row.reserved
           /\ ResetRow(row) \in ClipRow /\ ResetRow(row).reserved = row.reserved
BY DEF ReleasedRow, Ensured, ResetRow, ClipRow, ActiveStates

\* The steps of a pass, whatever else they do, leave the allowance and what the rows hold alone.
LEMMA PassFailsHolds ==
    ASSUME AskInv, PassFails
    PROVE  UNCHANGED allowance /\ \A c \in Clips : jobRows'[c].reserved = jobRows[c].reserved
BY RowStepsReserveNothing DEF PassFails, AskInv, AskTypes

LEMMA TaskStepsHold ==
    ASSUME AskInv,
           \/ InterruptPass
           \/ \E t \in Tasks : \/ TakeClip(t) \/ StartAsk(t) \/ WriteBody(t)
                               \/ RefusedDispatch(t) \/ AskAgain(t)
    PROVE  UNCHANGED allowance /\ \A c \in Clips : jobRows'[c].reserved = jobRows[c].reserved
<1>1. jobRows \in [Clips -> ClipRow]
  BY DEF AskInv, AskTypes
<1>2. CASE PassFails
  BY <1>2, PassFailsHolds
<1>3. ASSUME NEW t \in Tasks, TakeClip(t) \/ StartAsk(t)
      PROVE  UNCHANGED allowance /\ \A c \in Clips : jobRows'[c].reserved = jobRows[c].reserved
  <2>1. UNCHANGED allowance /\ \E c, state : jobRows' = [jobRows EXCEPT ![c].state = state]
    BY <1>3 DEF TakeClip, StartAsk
  <2> QED
    BY <1>1, <2>1 DEF ClipRow
<1>4. ASSUME NEW t \in Tasks, WriteBody(t), ~PassFails
      PROVE  UNCHANGED allowance /\ \A c \in Clips : jobRows'[c].reserved = jobRows[c].reserved
  <2>1. UNCHANGED allowance
        /\ \/ UNCHANGED jobRows
           \/ jobRows' = [jobRows EXCEPT ![pool[t].clip].state = "submitted"]
    BY <1>4 DEF WriteBody
  <2> QED
    BY <1>1, <2>1 DEF ClipRow
<1>5. ASSUME NEW t \in Tasks, AskAgain(t)
      PROVE  UNCHANGED allowance /\ \A c \in Clips : jobRows'[c].reserved = jobRows[c].reserved
  <2>1. UNCHANGED allowance /\ again \subseteq Clips
    BY <1>5 DEF AskAgain, AskInv, AskTypes
  <2>2. PICK c \in again :
            jobRows' = [jobRows EXCEPT ![c] = [ResetRow(@) EXCEPT !.state = "leased"]]
    BY <1>5 DEF AskAgain
  <2> DEFINE row == ResetRow(jobRows[c])
  <2>3. row \in ClipRow /\ row.reserved = jobRows[c].reserved /\ c \in Clips
    BY <1>1, <2>1, <2>2, RowStepsReserveNothing
  <2>4. jobRows' = [jobRows EXCEPT ![c] = [row EXCEPT !.state = "leased"]]
    BY <1>1, <2>2, <2>3
  <2> HIDE DEF row
  <2>5. [row EXCEPT !.state = "leased"].reserved = row.reserved
    BY <2>3 DEF ClipRow
  <2> QED
    BY <1>1, <2>1, <2>3, <2>4, <2>5
<1> QED
  BY <1>2, <1>3, <1>4, <1>5 DEF InterruptPass, RefusedDispatch

LEMMA PlanHolds == ASSUME AskInv, AllowanceInv, PlanSweep PROVE AllowanceInv'
<1>1. PICK old \in BOOLEAN :
         LET opened == [c \in Clips |->
                          Ensured(IF old THEN ReleasedRow(jobRows[c]) ELSE jobRows[c])]
         IN /\ jobRows' = [c \in Clips |->
                          IF Outdated(opened[c]) THEN ResetRow(opened[c])
                          ELSE IF Forgotten(c, opened[c])
                          THEN [opened[c] EXCEPT !.state = "succeeded", !.result = "own"]
                          ELSE opened[c]]
            /\ allowance' = IF \E c \in Clips : Outdated(opened[c])
                            THEN [allowance EXCEPT !.max = @ + MaxRequests] ELSE allowance
  BY DEF PlanSweep
<1> DEFINE released(c) == IF old THEN ReleasedRow(jobRows[c]) ELSE jobRows[c]
           opened(c) == Ensured(released(c))
<1>2. \A c \in Clips : released(c) \in ClipRow /\ released(c).reserved = jobRows[c].reserved
  BY RowStepsReserveNothing DEF AskInv, AskTypes
<1> HIDE DEF released
<1>3. \A c \in Clips : opened(c) \in ClipRow /\ opened(c).reserved = jobRows[c].reserved
  BY <1>2, RowStepsReserveNothing
<1>4. \A c \in Clips :
         jobRows'[c] = IF Outdated(opened(c)) THEN ResetRow(opened(c))
                       ELSE IF Forgotten(c, opened(c))
                       THEN [opened(c) EXCEPT !.state = "succeeded", !.result = "own"]
                       ELSE opened(c)
  BY <1>1 DEF released
<1>5. allowance' = allowance \/ allowance' = [allowance EXCEPT !.max = @ + MaxRequests]
  BY <1>1
<1> HIDE DEF opened
<1>6. ASSUME NEW c \in Clips PROVE jobRows'[c].reserved = jobRows[c].reserved
  <2>1. [opened(c) EXCEPT !.state = "succeeded", !.result = "own"].reserved = opened(c).reserved
    BY <1>3 DEF ClipRow
  <2> QED
    BY <1>3, <1>4, <2>1, RowStepsReserveNothing
<1>7. Reservations' = Reservations
  BY <1>6, SameReservations
<1>8. /\ allowance' \in [max : Nat, reserved : Nat, used : Nat]
      /\ allowance'.reserved = allowance.reserved
      /\ allowance'.reserved + allowance'.used <= allowance'.max
  BY <1>5, LimitsAreNumbers DEF AllowanceInv
<1> QED
  BY <1>7, <1>8 DEF AllowanceInv

LEMMA AcquireHolds ==
    ASSUME AskInv, AllowanceInv, NEW t \in Tasks, AcquireToken(t) PROVE AllowanceInv'
<1> DEFINE c == pool[t].clip
<1>1. c \in Clips /\ jobRows \in [Clips -> ClipRow]
  BY BusyIsSweeping DEF AcquireToken, Busy, AskInv, AskTypes
<1>2. CASE allowance.used + allowance.reserved >= allowance.max
  <2>1. UNCHANGED <<jobRows, allowance>>
    BY <1>2 DEF AcquireToken
  <2> QED
    BY <2>1, SameAllowance
<1>3. CASE ~(allowance.used + allowance.reserved >= allowance.max)
  <2>1. /\ jobRows' = [jobRows EXCEPT ![c].reserved = @ + 1]
        /\ allowance' = [allowance EXCEPT !.reserved = @ + 1]
    BY <1>3 DEF AcquireToken
  <2>2. allowance.used + allowance.reserved < allowance.max
    BY <1>3 DEF AllowanceInv
  <2> HIDE DEF c
  <2> QED
    BY <1>1, <2>1, <2>2, OneMore
<1> QED
  BY <1>2, <1>3

\* finish(): what was reserved is now used, and no more.
LEMMA FinishHolds ==
    ASSUME AskInv, AllowanceInv, NEW t \in Tasks, FinishClip(t) PROVE AllowanceInv'
<1>1. PICK c \in Clips : c = pool[t].clip
  BY BusyIsSweeping DEF FinishClip, Busy
<1>2. jobRows \in [Clips -> ClipRow]
  BY DEF AskInv, AskTypes
<1>3. PICK state :
          /\ jobRows' = [jobRows EXCEPT ![c] = [state |-> state, result |-> "own",
                                                reserved |-> 0]]
          /\ allowance' = [allowance EXCEPT !.reserved = @ - jobRows[c].reserved,
                                            !.used = @ + jobRows[c].reserved]
  BY <1>1 DEF FinishClip, SettleClip
<1>4. jobRows'[c].reserved = 0 /\ \A d \in Clips \ {c} : jobRows'[d].reserved = jobRows[d].reserved
  BY <1>2, <1>3
<1>5. /\ IsFiniteSet(Reservations') /\ jobRows[c].reserved \in Nat
      /\ Cardinality(Reservations') = allowance.reserved - jobRows[c].reserved
      /\ Cardinality(Reservations') \in Nat
  BY <1>2, <1>4, NoMore
<1>6. /\ allowance.max \in Nat /\ allowance.reserved \in Nat /\ allowance.used \in Nat
      /\ allowance.reserved + allowance.used <= allowance.max
  BY DEF AllowanceInv
<1>7. /\ allowance'.max = allowance.max
      /\ allowance'.reserved = allowance.reserved - jobRows[c].reserved
      /\ allowance'.used = allowance.used + jobRows[c].reserved
      /\ allowance' = [max |-> allowance'.max, reserved |-> allowance'.reserved,
                       used |-> allowance'.used]
  BY <1>3 DEF AllowanceInv
<1>8. /\ allowance'.max \in Nat /\ allowance'.reserved \in Nat /\ allowance'.used \in Nat
      /\ allowance'.reserved + allowance'.used <= allowance'.max
      /\ allowance'.reserved = Cardinality(Reservations')
  BY <1>5, <1>6, <1>7
<1>9. allowance' \in [max : Nat, reserved : Nat, used : Nat]
  BY <1>7, <1>8
<1> QED
  BY <1>5, <1>8, <1>9 DEF AllowanceInv

LEMMA OutsideHolds ==
    ASSUME AskInv, AllowanceInv, LoseStore \/ \E c \in Clips : ReleaseClip(c)
    PROVE  AllowanceInv'
<1>1. CASE LoseStore
  <2>1. /\ \A c \in Clips : jobRows'[c].reserved = 0
        /\ allowance' = [max |-> MaxRequests, reserved |-> 0, used |-> 0]
    BY <1>1 DEF LoseStore
  <2>2. IsFiniteSet(Reservations') /\ Cardinality(Reservations') = 0
    BY <2>1, NothingHeld
  <2>3. /\ allowance' \in [max : Nat, reserved : Nat, used : Nat] /\ allowance'.reserved = 0
        /\ allowance'.reserved + allowance'.used <= allowance'.max
    BY <2>1, LimitsAreNumbers
  <2> QED
    BY <2>2, <2>3 DEF AllowanceInv
<1>2. ASSUME NEW c \in Clips, ReleaseClip(c) PROVE AllowanceInv'
  <2>1. jobRows \in [Clips -> ClipRow]
    BY DEF AskInv, AskTypes
  <2>2. /\ jobRows' = [jobRows EXCEPT ![c].state = "pending", ![c].reserved = 0]
        /\ allowance' = [max |-> allowance.max + jobRows[c].reserved,
                         reserved |-> allowance.reserved - jobRows[c].reserved,
                         used |-> allowance.used + jobRows[c].reserved]
    BY <1>2 DEF ReleaseClip
  <2>3. jobRows'[c].reserved = 0
        /\ \A d \in Clips \ {c} : jobRows'[d].reserved = jobRows[d].reserved
    BY <2>1, <2>2 DEF ClipRow
  <2>4. /\ IsFiniteSet(Reservations') /\ jobRows[c].reserved \in Nat
        /\ Cardinality(Reservations') = allowance.reserved - jobRows[c].reserved
        /\ Cardinality(Reservations') \in Nat
    BY <2>1, <2>3, NoMore
  <2> QED
    BY <2>2, <2>4 DEF AllowanceInv
<1> QED
  BY <1>1, <1>2

LEMMA InitAllowance == SweepInit => AllowanceInv
<1> SUFFICES ASSUME SweepInit PROVE AllowanceInv
  OBVIOUS
<1>1. /\ \A c \in Clips : jobRows[c].reserved = 0
      /\ allowance = [max |-> MaxRequests, reserved |-> 0, used |-> 0]
  BY DEF SweepInit
<1>2. \A c \in Clips : Holds(c) = {}
  BY <1>1 DEF Holds
<1>3. Reservations = {}
  BY <1>2, ReservationsAre
<1>4. IsFiniteSet(Reservations) /\ Cardinality(Reservations) = 0
  BY <1>3, FS_EmptySet
<1>5. /\ allowance \in [max : Nat, reserved : Nat, used : Nat] /\ allowance.reserved = 0
      /\ allowance.reserved + allowance.used <= allowance.max
  BY <1>1, LimitsAreNumbers
<1> QED
  BY <1>4, <1>5 DEF AllowanceInv

LEMMA StepAllowance ==
    ASSUME AskInv, AllowanceInv, [SweepNext]_sweepVars
    PROVE  AllowanceInv'
<1>1. CASE UNCHANGED <<jobRows, allowance>>
  BY <1>1, SameAllowance
<1>2. CASE \/ UNCHANGED sweepVars
           \/ PauseEnds \/ Silence \/ Drained \/ CollectAnswers \/ CheckpointSweep \/ SweepCrashes
           \/ \E t \in Tasks : PrepareAttempt(t) \/ NotSent(t) \/ SendClip(t) \/ HearAnswer(t)
  BY <1>1, <1>2
  DEF sweepVars, PauseEnds, Silence, Drained, CollectAnswers, CheckpointSweep, SweepCrashes,
      PrepareAttempt, NotSent, SendClip, HearAnswer
<1>3. CASE \/ InterruptPass
           \/ \E t \in Tasks : \/ TakeClip(t) \/ StartAsk(t) \/ WriteBody(t)
                               \/ RefusedDispatch(t) \/ AskAgain(t)
  BY <1>3, TaskStepsHold, SameAllowance
<1>4. CASE PlanSweep
  BY <1>4, PlanHolds
<1>5. CASE \E t \in Tasks : AcquireToken(t) \/ FinishClip(t)
  BY <1>5, AcquireHolds, FinishHolds
<1>6. CASE LoseStore \/ \E c \in Clips : ReleaseClip(c)
  BY <1>6, OutsideHolds
<1> QED
  BY <1>2, <1>3, <1>4, <1>5, <1>6 DEF SweepNext

-----------------------------------------------------------------------------
\* The limiter, the bodies and where the sweep is.

LimiterRow == [paused : BOOLEAN, probing : BOOLEAN, probe : BOOLEAN,
               streak : 0..ThrottleStreak, silent : BOOLEAN]

LEMMA LimiterSteps ==
    ASSUME limiter \in LimiterRow
    PROVE  /\ Flowing \in LimiterRow /\ RecoveredLimiter \in LimiterRow
           /\ \A after \in BOOLEAN : Penalized(after) \in LimiterRow
           /\ \A b \in BOOLEAN : /\ [limiter EXCEPT !.probe = b] \in LimiterRow
                                 /\ [limiter EXCEPT !.paused = b] \in LimiterRow
                                 /\ [limiter EXCEPT !.silent = b] \in LimiterRow
<1> DEFINE Streaks == 0..ThrottleStreak
<1>1. 0 \in Streaks /\ ThrottleStreak \in Streaks
  BY LimitsAreNumbers
<1>2. \A n \in Streaks : ~(n + 1 >= ThrottleStreak) => n + 1 \in Streaks
  BY LimitsAreNumbers
<1>3. LimiterRow = [paused : BOOLEAN, probing : BOOLEAN, probe : BOOLEAN,
                    streak : Streaks, silent : BOOLEAN]
  BY DEF LimiterRow
<1> HIDE DEF Streaks
<1>4. Flowing \in LimiterRow
  BY <1>1, <1>3 DEF Flowing
<1>5. RecoveredLimiter \in LimiterRow
  BY <1>1, <1>3 DEF RecoveredLimiter
<1>6. ASSUME NEW after \in BOOLEAN PROVE Penalized(after) \in LimiterRow
  <2>1. [limiter EXCEPT !.paused = TRUE, !.probing = TRUE, !.streak = ThrottleStreak,
                        !.probe = FALSE] \in LimiterRow
    BY <1>1, <1>3
  <2>2. limiter.streak \in Streaks
    BY <1>3
  <2>3. ~(limiter.streak + 1 >= ThrottleStreak) => limiter.streak + 1 \in Streaks
    BY <1>2, <2>2
  <2>4. \A n \in Streaks : [limiter EXCEPT !.streak = n, !.probe = FALSE] \in LimiterRow
    BY <1>3
  <2> QED
    BY <2>1, <2>3, <2>4 DEF Penalized
<1>7. \A b \in BOOLEAN : /\ [limiter EXCEPT !.probe = b] \in LimiterRow
                         /\ [limiter EXCEPT !.paused = b] \in LimiterRow
                         /\ [limiter EXCEPT !.silent = b] \in LimiterRow
  BY DEF LimiterRow
<1> QED
  BY <1>4, <1>5, <1>6, <1>7

LEMMA StepLimiter ==
    ASSUME limiter \in LimiterRow, [SweepNext]_sweepVars
    PROVE  limiter' \in LimiterRow
<1>1. CASE \/ UNCHANGED limiter
           \/ PlanSweep \/ CollectAnswers \/ InterruptPass \/ SweepCrashes
           \/ PauseEnds \/ Silence
           \/ \E t \in Tasks : RefusedDispatch(t)
  BY <1>1, LimiterSteps
  DEF PlanSweep, CollectAnswers, InterruptPass, SweepCrashes, PauseEnds, Silence,
      RefusedDispatch, PassFails
<1>2. CASE \/ UNCHANGED sweepVars
           \/ Drained \/ CheckpointSweep \/ LoseStore
           \/ \E c \in Clips : ReleaseClip(c)
           \/ \E t \in Tasks : \/ TakeClip(t) \/ StartAsk(t) \/ PrepareAttempt(t) \/ NotSent(t)
                               \/ SendClip(t) \/ FinishClip(t) \/ AskAgain(t)
  BY <1>1, <1>2
  DEF sweepVars, Drained, CheckpointSweep, LoseStore, ReleaseClip, TakeClip, StartAsk,
      PrepareAttempt, NotSent, SendClip, FinishClip, AskAgain
<1>3. ASSUME NEW t \in Tasks, AcquireToken(t) PROVE limiter' \in LimiterRow
  <2>1. \/ limiter' = [limiter EXCEPT !.probe = FALSE]
        \/ limiter' = [limiter EXCEPT !.probe = limiter.probing \/ limiter.probe]
    BY <1>3 DEF AcquireToken, LimiterRow
  <2>2. (limiter.probing \/ limiter.probe) \in BOOLEAN
    OBVIOUS
  <2> QED
    BY <2>1, <2>2, LimiterSteps
<1>4. ASSUME NEW t \in Tasks, HearAnswer(t) PROVE limiter' \in LimiterRow
  <2>1. \/ limiter' = RecoveredLimiter
        \/ \E after \in BOOLEAN : limiter' = Penalized(after)
        \/ limiter' = [limiter EXCEPT !.probe = FALSE]
    BY <1>4 DEF HearAnswer
  <2> QED
    BY <2>1, LimiterSteps
<1>5. ASSUME NEW t \in Tasks, WriteBody(t) PROVE limiter' \in LimiterRow
  BY <1>5, LimiterSteps DEF WriteBody, PassFails
<1> QED
  BY <1>1, <1>2, <1>3, <1>4, <1>5 DEF SweepNext

LEMMA StepAside ==
    ASSUME AskInv, AsideTypes, [SweepNext]_sweepVars
    PROVE  AsideTypes'
<1>1. limiter' \in LimiterRow
  BY StepLimiter DEF AsideTypes, LimiterRow
<1>2. sweep' \in {"closed", "sweeping", "retrying", "collected", "over"}
  <2>1. CASE \E t \in Tasks : TakeClip(t) \/ StartAsk(t) \/ PrepareAttempt(t) \/ NotSent(t)
                            \/ AcquireToken(t) \/ SendClip(t) \/ HearAnswer(t)
    BY <2>1 DEF AsideTypes, passVars, TakeClip, StartAsk, PrepareAttempt, NotSent,
                AcquireToken, SendClip, HearAnswer
  <2>2. CASE \E t \in Tasks : RefusedDispatch(t) \/ WriteBody(t) \/ FinishClip(t) \/ AskAgain(t)
    BY <2>2 DEF AsideTypes, passVars, RefusedDispatch, WriteBody, FinishClip, AskAgain, PassFails
  <2>3. CASE PlanSweep \/ Drained \/ CollectAnswers \/ CheckpointSweep \/ InterruptPass
             \/ SweepCrashes
    BY <2>3 DEF AsideTypes, PlanSweep, Drained, CollectAnswers, CheckpointSweep, InterruptPass,
                SweepCrashes, PassFails
  <2>4. CASE \/ LoseStore \/ PauseEnds \/ Silence \/ UNCHANGED sweepVars
             \/ \E c \in Clips : ReleaseClip(c)
    BY <2>4 DEF AsideTypes, passVars, sweepVars, LoseStore, PauseEnds, Silence, ReleaseClip
  <2> QED
    BY <2>1, <2>2, <2>3, <2>4 DEF SweepNext
<1>3. CASE \E t \in Tasks : WriteBody(t)
  <2>1. PICK t \in Tasks : WriteBody(t)
    BY <1>3
  <2>2. pool[t].outcome \in {"none", Unsent} \cup Replies /\ refusedAnswer' \in BOOLEAN
    BY <2>1 DEF WriteBody, AskInv, AskTypes, TaskRow, AsideTypes
  <2>3. body' = body \/ body' = [body EXCEPT ![pool[t].clip] = pool[t].outcome]
    BY <2>1 DEF WriteBody
  <2>4. body' \in [Clips -> {"none", Unsent} \cup Replies]
    BY <2>2, <2>3 DEF AsideTypes
  <2> QED
    BY <1>1, <1>2, <2>2, <2>4 DEF AsideTypes, LimiterRow
<1>4. CASE PlanSweep
  <2>1. /\ refusedAnswer' = refusedAnswer
        /\ \E opened : body' = [c \in Clips |-> IF Cached(opened[c]) THEN "answer" ELSE body[c]]
    BY <1>4 DEF PlanSweep
  <2>2. body' \in [Clips -> {"none", Unsent} \cup Replies]
    BY <2>1 DEF AsideTypes, Replies
  <2> QED
    BY <1>1, <1>2, <2>1, <2>2 DEF AsideTypes, LimiterRow
<1>5. CASE ~PlanSweep /\ ~ \E t \in Tasks : WriteBody(t)
  <2>1. UNCHANGED <<body, refusedAnswer>>
    BY <1>5
    DEF SweepNext, sweepVars, Drained, CollectAnswers, CheckpointSweep, InterruptPass,
        SweepCrashes, LoseStore, PauseEnds, Silence, ReleaseClip, TakeClip, StartAsk,
        PrepareAttempt, NotSent, AcquireToken, SendClip, HearAnswer, RefusedDispatch,
        FinishClip, AskAgain
  <2> QED
    BY <1>1, <1>2, <2>1 DEF AsideTypes, LimiterRow
<1> QED
  BY <1>3, <1>4, <1>5

-----------------------------------------------------------------------------
SweepInv == AskInv /\ AllowanceInv /\ AsideTypes

LEMMA InitSweep == SweepInit => SweepInv
<1>1. Flowing \in LimiterRow
  <2>1. 0 \in 0..ThrottleStreak
    BY LimitsAreNumbers
  <2> QED
    BY <2>1 DEF Flowing, LimiterRow
<1>2. SweepInit => AsideTypes
  BY <1>1 DEF SweepInit, AsideTypes, LimiterRow
<1> QED
  BY <1>2, InitAsk, InitAllowance DEF SweepInv

LEMMA StepSweep == SweepInv /\ [SweepNext]_sweepVars => SweepInv'
BY StepAsk, StepAllowance, StepAside DEF SweepInv

LEMMA SweepTyped == SweepInv => SweepTypeOK
<1> SUFFICES ASSUME SweepInv PROVE SweepTypeOK
  OBVIOUS
<1>1. \A c \in Clips : \A n \in DOMAIN attempts[c] :
          attempts[c][n] \in {"prepared", "dispatched"} \cup Replies
  <2> SUFFICES ASSUME NEW c \in Clips, NEW n \in DOMAIN attempts[c]
               PROVE  attempts[c][n] \in {"prepared", "dispatched"} \cup Replies
    OBVIOUS
  <2>1. attempts[c] \in Seq(Outcomes)
    BY DEF SweepInv, AskInv, AskTypes
  <2> QED
    BY <2>1 DEF Outcomes
<1>2. \A t \in Tasks : pool[t].step \in TaskSteps /\ pool[t].clip \in Clips \cup {0}
  BY DEF SweepInv, AskInv, AskTypes, TaskRow
<1>3. jobRows \in [Clips -> ClipRow] /\ leasable \subseteq Clips
  BY DEF SweepInv, AskInv, AskTypes
<1>4. /\ allowance \in [max : Nat, reserved : Nat, used : Nat]
      /\ allowance.reserved + allowance.used <= allowance.max
      /\ allowance.reserved = Cardinality(Reservations)
  BY DEF SweepInv, AllowanceInv
<1>5. /\ body \in [Clips -> {"none", Unsent} \cup Replies]
      /\ sweep \in {"closed", "sweeping", "retrying", "collected", "over"}
      /\ limiter \in [paused : BOOLEAN, probing : BOOLEAN, probe : BOOLEAN,
                      streak : 0..ThrottleStreak, silent : BOOLEAN]
      /\ refusedAnswer \in BOOLEAN
  BY DEF SweepInv, AsideTypes
<1>6. (\A t \in Tasks : pool[t].step \in TaskSteps /\ pool[t].clip \in Clips \cup {0})
      /\ (\A c \in Clips : \A n \in DOMAIN attempts[c] :
             attempts[c][n] \in {"prepared", "dispatched"} \cup Replies)
  BY <1>1, <1>2, Zenon
<1> QED
  BY <1>3, <1>4, <1>5, <1>6, Zenon DEF SweepTypeOK

\* Every variable of the sweep has its type; in particular the allowance is never overdrawn, and
\* what it says is reserved is what the rows hold, through retries, second asks, lost stores and
\* clips the owner released.
THEOREM SweepTypes == SweepSpec => []SweepTypeOK
BY InitSweep, StepSweep, SweepTyped, PTL DEF SweepSpec

-----------------------------------------------------------------------------
\* The components together, as the run has them.

\* Every variable of the merge has its type.
THEOREM MergeTypes == AdditiveSpec => []AdditiveTypeOK
<1>1. AdditiveInit => AdditiveTypeOK
  <2>1. \A e, f : e \in Episodes /\ f \in Episodes => {e, f} \subseteq Episodes
    OBVIOUS
  <2> QED
    BY <2>1, PaidBounded DEF AdditiveInit, AdditiveTypeOK
<1>2. AdditiveTypeOK /\ [AdditiveNext]_additiveVars => AdditiveTypeOK'
  <2> SUFFICES ASSUME AdditiveTypeOK, [AdditiveNext]_additiveVars PROVE AdditiveTypeOK'
    OBVIOUS
  <2>1. CASE UNCHANGED additiveVars
    BY <2>1 DEF AdditiveTypeOK, additiveVars
  <2>2. CASE ConsiderRow
    <3>1. considered < MaxPaid /\ considered' = considered + 1 /\ freeRows' = freeRows
      BY <2>2 DEF ConsiderRow
    <3>2. considered \in 0..MaxPaid
      BY DEF AdditiveTypeOK
    <3>3. considered' \in 0..MaxPaid
      BY <3>1, <3>2, PaidBounded
    <3>4. PICK item \in Combined :
              /\ extra' = extra \/ extra' = extra \cup {item}
              /\ replaced' = replaced \/ replaced' = replaced \cup OfSameWork(item.row)
      BY <2>2 DEF ConsiderRow, AddRow, ConfirmRow, KeepFree
    <3>5. OfSameWork(item.row) \subseteq freeRows
      BY DEF OfSameWork
    <3>6. item \in [row : Episodes, listed : BOOLEAN, sameId : SUBSET freeRows]
      <4>1. item \in [row : Episodes, listed : BOOLEAN, sameId : {{}} \cup {{f} : f \in freeRows}]
        BY DEF Combined
      <4>2. item.sameId \in SUBSET freeRows
        BY <4>1
      <4> QED
        BY <4>1, <4>2
    <3> QED
      BY <3>1, <3>3, <3>4, <3>5, <3>6 DEF AdditiveTypeOK
  <2> QED
    BY <2>1, <2>2 DEF AdditiveNext
<1> QED
  BY <1>1, <1>2, PTL DEF AdditiveSpec

\* What the run does is, of each part, a behaviour of that part's own specification.
LEMMA PartsDoNotMeet == Spec => SweepSpec /\ AdditiveSpec /\ TruthSpec /\ BackupSpec
<1>1. Init => SweepInit /\ AdditiveInit /\ TruthInit /\ BackupInit
  BY DEF Init
<1>2. [Next]_vars => /\ [SweepNext]_sweepVars /\ [AdditiveNext]_additiveVars
                     /\ [TruthNext]_truthVars /\ [BackupNext]_backupVars
  BY DEF Next, vars
<1> QED
  BY <1>1, <1>2, PTL DEF Spec, SweepSpec, AdditiveSpec, TruthSpec, BackupSpec

\* Every variable of the part that runs has its type.
THEOREM EvidenceTypes == Spec => []TypeOK
<1> DEFINE Parts == {"sweep", "merge", "truth", "backup"}
<1>1. Init => part \in Parts
  BY DEF Init
<1>2. part \in Parts /\ [Next]_vars => (part \in Parts)'
  BY DEF Next, vars
<1>3. Spec => [](part \in Parts)
  BY <1>1, <1>2, PTL DEF Spec
<1>4. /\ part \in Parts
      /\ SweepTypeOK /\ AdditiveTypeOK /\ TruthTypeOK /\ SnapshotInv
      => TypeOK
  BY DEF TypeOK, SnapshotInv
<1> QED
  BY <1>3, <1>4, PartsDoNotMeet, SweepTypes, MergeTypes, TruthTypes, ViewsAreTaken, PTL
=============================================================================
