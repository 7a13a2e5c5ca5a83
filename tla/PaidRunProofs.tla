---------------------------- MODULE PaidRunProofs ----------------------------
(***************************************************************************)
(* The money of a paid run, for any clips, prices, limits and faults.  A   *)
(* clip that may have been charged is never asked for again; the admitter  *)
(* and the durable events are one account; what is settled covers what was *)
(* charged, if nobody else holds the media lock; nothing is admitted once  *)
(* the job was stopped; and the run is a purse.                            *)
(***************************************************************************)
EXTENDS PaidRun, FiniteSetTheorems, WellFoundedInduction, TLAPS

Asking == {"limiting", "prepared", "admitted"}

\* The columns and memory the argument is about have their types.
ChargeTypes ==
    /\ dispatches \subseteq Clips \X Nat
    /\ journal \subseteq Clips \X Nat \X Events
    /\ charged \subseteq dispatches
    /\ task \in [Clips -> Steps]
    /\ ordinal \in [Clips -> Nat]
    /\ reply \in [Clips -> Outcomes]

\* Attempts of a run are numbered from below some number.
Numbered == \E n \in Nat : \A a \in Known : a[2] <= n

\* What was charged stays billed, and is the newest attempt of its clip.
ChargesStand ==
    \A a \in charged :
        /\ ~Has(a, "free") /\ ~Has(a, "refused")
        /\ \A b \in Known : b[1] = a[1] => b[2] <= a[2]

\* The journal knows no outcome of the attempt.
Open(c, k) == \A e \in Outcomes : <<c, k, e>> \notin journal

\* A task that will yet ask for its clip is past every attempt of it, none of which was
\* charged; one that has asked knows whether it may have been.  The attempt it is at has no
\* outcome yet.
TasksAreAhead ==
    \A c \in Clips :
        /\ task[c] \in Asking => \A a \in charged : a[1] # c
        /\ task[c] \in Asking \cup {"sent"} => \A a \in Known : a[1] = c => a[2] <= ordinal[c]
        /\ task[c] \in Asking \cup {"sent"} => Open(c, ordinal[c])
        /\ task[c] \in InFlight => <<c, ordinal[c]>> \in dispatches
        /\ task[c] = "sent" => \A a \in charged : a[1] = c =>
               a[2] = ordinal[c] /\ reply[c] \in {"answer", "billed"}

ChargeInv == ChargeTypes /\ Numbered /\ ChargesStand /\ TasksAreAhead /\ NeverTwice

-----------------------------------------------------------------------------
\* Helpers on numbers and attempts.

\* A set of numbers below a bound has a largest member, and Max is it.
LEMMA MaxIsLargest ==
    ASSUME NEW S \in SUBSET Nat, S # {}, NEW n \in Nat, \A x \in S : x <= n
    PROVE  Max(S) \in S /\ \A x \in S : x <= Max(S)
<1> DEFINE bounds == {m \in Nat : \A x \in S : x <= m}
<1>1. bounds \subseteq Nat /\ bounds # {}
  OBVIOUS
<1>2. PICK m \in bounds : \A k \in bounds : ~ (<<k, m>> \in OpToRel(<, Nat))
  BY <1>1, WFMin, NatLessThanWellFounded, Zenon
<1>3. \A k \in bounds : ~ (k < m)
  BY <1>1, <1>2, Zenon DEF OpToRel
<1>4. m \in S
  <2> SUFFICES ASSUME m \notin S PROVE FALSE
    OBVIOUS
  <2>1. \A x \in S : x <= m - 1
    OBVIOUS
  <2>2. m - 1 \in Nat
    <3>1. PICK x \in S : TRUE
      OBVIOUS
    <3>2. x \in Nat /\ m \in Nat /\ x <= m - 1
      BY <2>1
    <3> QED
      BY <3>2
  <2>3. m - 1 \in bounds
    BY <2>1, <2>2
  <2> QED
    BY <1>3, <2>3
<1> QED
  BY <1>4 DEF Max

LEMMA NewestIsKnown ==
    ASSUME ChargeInv, NEW c \in Clips, OrdinalsOf(c) # {}
    PROVE  /\ Newest(c) \in Known
           /\ Max(OrdinalsOf(c)) \in Nat
           /\ \A a \in Known : a[1] = c => a[2] <= Max(OrdinalsOf(c))
<1>1. Known \subseteq Clips \X Nat
  BY DEF ChargeInv, ChargeTypes, Known, AttemptsOf
<1>2. OrdinalsOf(c) \subseteq Nat
  BY <1>1 DEF OrdinalsOf
<1>3. PICK n \in Nat : \A a \in Known : a[2] <= n
  BY DEF ChargeInv, Numbered
<1>4. \A x \in OrdinalsOf(c) : x <= n
  BY <1>3 DEF OrdinalsOf
<1>5. Max(OrdinalsOf(c)) \in OrdinalsOf(c) /\ \A x \in OrdinalsOf(c) : x <= Max(OrdinalsOf(c))
  BY <1>2, <1>4, MaxIsLargest
<1>6. PICK b \in Known : b[1] = c /\ b[2] = Max(OrdinalsOf(c))
  BY <1>5 DEF OrdinalsOf
<1>7. b = Newest(c)
  BY <1>1, <1>6 DEF Newest
<1> QED
  BY <1>2, <1>5, <1>6, <1>7 DEF OrdinalsOf

\* The resume rule never lets a charged clip be asked for again, and numbers the next
\* attempt past every earlier one.
LEMMA MaySendIsSafe ==
    ASSUME ChargeInv, NEW c \in Clips, MaySend(c)
    PROVE  /\ \A a \in charged : a[1] # c
           /\ NextOrdinal(c) \in Nat
           /\ \A a \in Known : a[1] = c => a[2] < NextOrdinal(c)
<1>1. charged \subseteq Known /\ Known \subseteq Clips \X Nat
  BY DEF ChargeInv, ChargeTypes, Known, AttemptsOf
<1>2. CASE OrdinalsOf(c) = {}
  <2>1. \A a \in Known : a[1] # c
    BY <1>2 DEF OrdinalsOf
  <2> QED
    BY <1>1, <1>2, <2>1 DEF NextOrdinal
<1>3. CASE OrdinalsOf(c) # {}
  <2>1. /\ Newest(c) \in Known
        /\ Max(OrdinalsOf(c)) \in Nat
        /\ \A a \in Known : a[1] = c => a[2] <= Max(OrdinalsOf(c))
    BY <1>3, NewestIsKnown
  <2>2. ASSUME NEW a \in charged, a[1] = c PROVE FALSE
    <3>1. a[2] <= Max(OrdinalsOf(c)) /\ Max(OrdinalsOf(c)) <= a[2]
      BY <1>1, <2>1, <2>2 DEF ChargeInv, ChargesStand, Newest
    <3>2. a = Newest(c)
      BY <1>1, <2>1, <2>2, <3>1 DEF Newest
    <3>3. ~Has(Newest(c), "free") /\ Dispatched(Newest(c))
      BY <2>2, <3>2 DEF ChargeInv, ChargeTypes, ChargesStand, Dispatched
    <3> QED
      BY <1>3, <3>3 DEF MaySend
  <2>3. NextOrdinal(c) = Max(OrdinalsOf(c)) + 1
    BY <1>3 DEF NextOrdinal
  <2>4. \A a \in Known : a[1] = c => a[2] \in Nat
    BY <1>1
  <2>5. \A a \in Known : a[1] = c => a[2] < NextOrdinal(c)
    BY <2>1, <2>3, <2>4
  <2> QED
    BY <2>1, <2>2, <2>3, <2>5
<1> QED
  BY <1>2, <1>3

-----------------------------------------------------------------------------
\* Steps that touch neither the events nor the charges: tasks may only leave the danger zone.
LEMMA QuietKeeps ==
    ASSUME ChargeInv, UNCHANGED <<dispatches, journal, charged>>,
           task' \in [Clips -> Steps], ordinal' \in [Clips -> Nat], reply' \in [Clips -> Outcomes],
           \A c \in Clips : task'[c] \in Asking \cup {"sent"} =>
               task'[c] = task[c] /\ ordinal'[c] = ordinal[c] /\ reply'[c] = reply[c]
    PROVE  ChargeInv'
<1>1. Known' = Known /\ \A a \in charged, e \in Events : Has(a, e)' = Has(a, e)
  BY DEF Known, AttemptsOf, Has
<1>2. ChargeTypes'
  BY DEF ChargeInv, ChargeTypes
<1>3. Numbered'
  BY <1>1 DEF ChargeInv, Numbered
<1>4. ChargesStand'
  BY <1>1 DEF ChargeInv, ChargesStand, Has
<1>5. TasksAreAhead'
  <2> SUFFICES ASSUME NEW c \in Clips, task'[c] \in Asking \cup {"sent"}
               PROVE  /\ task'[c] \in Asking => \A a \in charged' : a[1] # c
                      /\ \A a \in Known' : a[1] = c => a[2] <= ordinal'[c]
                      /\ Open(c, ordinal[c])'
                      /\ task'[c] \in InFlight => <<c, ordinal'[c]>> \in dispatches'
                      /\ task'[c] = "sent" => \A a \in charged' : a[1] = c =>
                             a[2] = ordinal'[c] /\ reply'[c] \in {"answer", "billed"}
    BY Zenon DEF TasksAreAhead, Asking, InFlight
  <2>1. task'[c] = task[c] /\ ordinal'[c] = ordinal[c] /\ reply'[c] = reply[c]
    OBVIOUS
  <2> QED
    BY <1>1, <2>1 DEF ChargeInv, TasksAreAhead, Open, Asking, InFlight
<1>6. NeverTwice'
  BY DEF ChargeInv, NeverTwice
<1> QED
  BY <1>2, <1>3, <1>4, <1>5, <1>6 DEF ChargeInv

\* A step of the task of one clip, on the attempt it is at: the other tasks stand still, no
\* other attempt is added or charged, and no charged attempt turns out free.
LEMMA ClipStepKeeps ==
    ASSUME ChargeInv, NEW c \in Clips, task[c] \in Asking \cup {"sent"},
           ChargeTypes',
           Known' \subseteq Known \cup {<<c, ordinal[c]>>},
           dispatches \subseteq dispatches',
           charged' = charged \/ (task[c] \in Asking /\ charged' = charged \cup {<<c, ordinal[c]>>}),
           \A a \in charged' : ~Has(a, "free")' /\ ~Has(a, "refused")',
           \A d \in Clips \ {c}, k \in Nat : Open(d, k) => Open(d, k)',
           \A d \in Clips \ {c} :
               task'[d] = task[d] /\ ordinal'[d] = ordinal[d] /\ reply'[d] = reply[d],
           task'[c] \in Asking => \A a \in charged' : a[1] # c,
           task'[c] \in Asking \cup {"sent"} => ordinal'[c] >= ordinal[c],
           task'[c] \in Asking \cup {"sent"} => Open(c, ordinal[c])',
           task'[c] \in InFlight => <<c, ordinal'[c]>> \in dispatches',
           task'[c] = "sent" => ordinal'[c] = ordinal[c] /\
               \A a \in charged' : a[1] = c => reply'[c] \in {"answer", "billed"}
    PROVE  ChargeInv'
<1> DEFINE k == ordinal[c]
<1>1. /\ Known \subseteq Clips \X Nat /\ charged \subseteq Known /\ k \in Nat
      /\ Known' \subseteq Clips \X Nat /\ ordinal' \in [Clips -> Nat]
  BY DEF ChargeInv, ChargeTypes, Known, AttemptsOf
<1>2. \A a \in Known : a[1] = c => a[2] <= k
  BY DEF ChargeInv, TasksAreAhead
<1>3. \A a \in charged : a[1] = c => task[c] = "sent" /\ a[2] = k
  BY DEF ChargeInv, TasksAreAhead, Asking
<1>4. Numbered'
  <2>1. PICK n \in Nat : \A a \in Known : a[2] <= n
    BY DEF ChargeInv, Numbered
  <2>2. PICK m \in Nat : m >= n /\ m >= k
    BY <1>1
  <2>3. \A a \in Known : a[2] <= m
    BY <1>1, <2>1, <2>2
  <2>4. \A a \in Known' : a[2] <= m
    BY <2>2, <2>3
  <2> QED
    BY <2>4 DEF Numbered
<1>5. ChargesStand'
  <2> SUFFICES ASSUME NEW a \in charged', NEW b \in Known', b[1] = a[1]
               PROVE  b[2] <= a[2]
    BY DEF ChargesStand
  <2>1. CASE a \in charged /\ b \in Known
    BY <2>1 DEF ChargeInv, ChargesStand
  <2>2. CASE a \in charged /\ b = <<c, k>>
    BY <1>1, <1>3, <2>2
  <2>3. CASE a = <<c, k>>
    BY <1>1, <1>2, <2>3
  <2> QED
    BY <2>1, <2>2, <2>3
<1>6. TasksAreAhead'
  <2>1. ASSUME NEW d \in Clips \ {c}
        PROVE  /\ task'[d] \in Asking => \A a \in charged' : a[1] # d
               /\ task'[d] \in Asking \cup {"sent"} =>
                      /\ \A a \in Known' : a[1] = d => a[2] <= ordinal'[d]
                      /\ Open(d, ordinal[d])'
               /\ task'[d] \in InFlight => <<d, ordinal'[d]>> \in dispatches'
               /\ task'[d] = "sent" => \A a \in charged' : a[1] = d =>
                      a[2] = ordinal'[d] /\ reply'[d] \in {"answer", "billed"}
    <3> DEFINE m == ordinal[d]
    <3>1. m \in Nat /\ ordinal'[d] = m
      BY <2>1 DEF ChargeInv, ChargeTypes
    <3>2. Open(d, m) => Open(d, ordinal[d])'
      BY <2>1, <3>1 DEF Open
    <3>3. task'[d] = task[d] /\ reply'[d] = reply[d]
      BY <2>1
    <3>4. \A a \in Known' : a[1] = d => a \in Known
      BY <1>1, <2>1
    <3>5. \A a \in charged' : a[1] = d => a \in charged
      BY <1>1, <2>1
    <3> QED
      BY <2>1, <3>1, <3>2, <3>3, <3>4, <3>5 DEF ChargeInv, TasksAreAhead
  <2>2. task'[c] \in Asking \cup {"sent"} => \A a \in Known' : a[1] = c => a[2] <= ordinal'[c]
    BY <1>1, <1>2
  <2>3. task'[c] = "sent" => \A a \in charged' : a[1] = c => a[2] = ordinal'[c]
    BY <1>1, <1>3
  <2> QED
    BY <2>1, <2>2, <2>3, Zenon DEF TasksAreAhead
<1>7. NeverTwice'
  <2> SUFFICES ASSUME NEW a \in charged', NEW b \in charged', a[1] = b[1]
               PROVE  a = b
    BY DEF NeverTwice
  <2>1. CASE a \in charged /\ b \in charged
    BY <2>1 DEF ChargeInv, NeverTwice
  <2>2. CASE a \notin charged \/ b \notin charged
    <3>1. \A x \in charged : x[1] # c
      BY <1>3, <2>2 DEF Asking
    <3> QED
      BY <2>2, <3>1
  <2> QED
    BY <2>1, <2>2
<1> QED
  BY <1>4, <1>5, <1>6, <1>7 DEF ChargeInv

\* What an append may add to the journal.
LEMMA AppendAdds ==
    ASSUME NEW c \in Clips, NEW event \in Events, Append(c, event),
           NEW a \in Clips \X Nat, NEW e \in Events, Has(a, e)'
    PROVE  Has(a, e) \/ (a = <<c, ordinal[c]>> /\ e = event)
BY DEF Append, Has

LEMMA AppendKeepsOpen ==
    ASSUME NEW c \in Clips, NEW event \in Events, Append(c, event),
           NEW d \in Clips, NEW k \in Nat, Open(d, k),
           d # c \/ k # ordinal[c] \/ event \notin Outcomes
    PROVE  Open(d, k)'
BY DEF Append, Open

-----------------------------------------------------------------------------
\* One lemma per group of actions.
USE DEF Steps, Outcomes, Events, InFlight, Asking, jobVars, fileVars, admitter, taskVars,
        passVars, sweepRest

LEMMA InitCharges == Init => ChargeInv
<1> SUFFICES ASSUME Init PROVE ChargeInv
  OBVIOUS
<1>1. Known = {} /\ charged = {} /\ dispatches = {} /\ journal = {}
  BY DEF Init, Known, AttemptsOf
<1>2. Numbered
  BY <1>1 DEF Numbered
<1> QED
  BY <1>1, <1>2 DEF Init, NoPass, ChargeInv, ChargeTypes, ChargesStand, TasksAreAhead, NeverTwice

\* The job row, the settlements and the media leave the run's events and its tasks alone.
LEMMA StandsStill ==
    ASSUME ChargeInv, UNCHANGED <<dispatches, journal, charged, task, ordinal, reply>>
    PROVE  ChargeInv'
BY QuietKeeps DEF ChargeInv, ChargeTypes

LEMMA RowKeeps ==
    ASSUME ChargeInv,
           \/ Claim \/ DeadLetter \/ Cancel \/ LeaseLapses \/ SourceBusy
           \/ StopSettles \/ StopEnds \/ SkipSweep \/ MediaBusy \/ StopSweep
           \/ Settle \/ Project \/ ProjectionFails
           \/ SweepSettles \/ SweepAttaches \/ SweepReprojects \/ MediaGoes \/ MediaReturns
    PROVE  ChargeInv'
<1>1. UNCHANGED <<dispatches, journal, charged, task, ordinal, reply>>
  BY DEF Claim, DeadLetter, Cancel, LeaseLapses, SourceBusy, StopSettles, StopEnds,
         SkipSweep, BeginPass, MediaBusy, StopSweep, Settle, Project, ProjectionFails,
         SweepSettles, SweepAttaches, SweepReprojects, MediaGoes, MediaReturns
<1> QED
  BY <1>1, StandsStill

\* A pass begins or is over: no task is asking.
LEMMA PassKeeps ==
    ASSUME ChargeInv,
           \/ \E clips \in SUBSET Clips : StartSweep(clips)
           \/ StorageFault \/ EndSweep \/ EndJob \/ LostClaim \/ Crash
    PROVE  ChargeInv'
<1>1. task \in [Clips -> Steps] /\ ordinal \in [Clips -> Nat] /\ reply \in [Clips -> Outcomes]
  BY DEF ChargeInv, ChargeTypes
<1>2. CASE \E clips \in SUBSET Clips : StartSweep(clips)
  <2>1. UNCHANGED <<dispatches, journal, charged, ordinal, reply>>
    BY <1>2 DEF StartSweep, BeginPass
  <2>2. task' \in [Clips -> Steps] /\ \A c \in Clips : task'[c] \in {"queued", "out", task[c]}
    BY <1>1, <1>2 DEF StartSweep
  <2> QED
    BY <1>1, <2>1, <2>2, QuietKeeps
<1>3. CASE StorageFault \/ EndSweep
  <2>1. UNCHANGED <<dispatches, journal, charged, ordinal, reply>>
        /\ task' = [c \in Clips |-> "out"]
    BY <1>3 DEF StorageFault, EndSweep
  <2> QED
    BY <1>1, <2>1, QuietKeeps
<1>4. CASE EndJob \/ LostClaim \/ Crash
  <2>1. UNCHANGED <<dispatches, journal, charged>> /\ Forget
    BY <1>4 DEF EndJob, LostClaim, Crash
  <2> QED
    BY <2>1, QuietKeeps DEF Forget
<1> QED
  BY <1>2, <1>3, <1>4

\* A task gives its clip up, or stores its answer.
LEMMA TaskEndKeeps ==
    ASSUME ChargeInv, NEW c \in Clips,
           NeverAsked(c) \/ Refuse(c) \/ Exhausted(c) \/ StoreAnswer(c)
    PROVE  ChargeInv'
<1>1. /\ UNCHANGED <<dispatches, journal, charged, ordinal, reply>>
      /\ task' = [task EXCEPT ![c] = "done"]
  BY DEF NeverAsked, Refuse, Exhausted, StoreAnswer
<1> QED
  BY <1>1, QuietKeeps DEF ChargeInv, ChargeTypes

\* The resume rule decides whether the clip is taken up.
LEMMA TakeKeeps ==
    ASSUME ChargeInv, NEW c \in Clips, Take(c)
    PROVE  ChargeInv'
<1>1. UNCHANGED <<dispatches, journal, charged, reply>>
  BY DEF Take
<1>2. task \in [Clips -> Steps] /\ ordinal \in [Clips -> Nat] /\ reply \in [Clips -> Outcomes]
  BY DEF ChargeInv, ChargeTypes
<1>3. CASE ~MaySend(c)
  <2>1. task' = [task EXCEPT ![c] = "done"] /\ ordinal' = ordinal
    BY <1>3 DEF Take
  <2> QED
    BY <1>1, <1>2, <2>1, QuietKeeps
<1>4. CASE MaySend(c)
  <2>1. task' = [task EXCEPT ![c] = "limiting"]
        /\ ordinal' = [ordinal EXCEPT ![c] = NextOrdinal(c)]
    BY <1>4 DEF Take
  <2>2. /\ \A a \in charged : a[1] # c
        /\ NextOrdinal(c) \in Nat
        /\ \A a \in Known : a[1] = c => a[2] < NextOrdinal(c)
    BY <1>4, MaySendIsSafe
  <2>3. Known' = Known /\ \A a \in charged, e \in Events : Has(a, e)' = Has(a, e)
    BY <1>1 DEF Known, AttemptsOf, Has
  <2>4. ChargeTypes'
    BY <1>1, <1>2, <2>1, <2>2 DEF ChargeInv, ChargeTypes
  <2>5. Numbered' /\ ChargesStand' /\ NeverTwice'
    BY <1>1, <2>3 DEF ChargeInv, Numbered, ChargesStand, NeverTwice, Has
  <2>6. Open(c, NextOrdinal(c))
    <3> SUFFICES ASSUME NEW e \in Outcomes, <<c, NextOrdinal(c), e>> \in journal PROVE FALSE
      BY DEF Open
    <3>1. <<c, NextOrdinal(c)>> \in Known
      BY DEF Known, AttemptsOf
    <3> QED
      BY <2>2, <3>1
  <2>7. TasksAreAhead'
    <3>1. task'[c] = "limiting" /\ ordinal'[c] = NextOrdinal(c) /\ Open(c, ordinal[c])'
      BY <1>1, <1>2, <2>1, <2>6 DEF Open
    <3>2. \A a \in Known : a[1] = c => a[2] <= NextOrdinal(c)
      BY <2>2 DEF ChargeInv, ChargeTypes, Known, AttemptsOf
    <3>3. \A d \in Clips \ {c} : /\ task'[d] = task[d] /\ ordinal'[d] = ordinal[d]
                                 /\ Open(d, ordinal[d]) => Open(d, ordinal[d])'
      BY <1>1, <1>2, <2>1 DEF Open
    <3> QED
      BY <1>1, <2>2, <2>3, <3>1, <3>2, <3>3 DEF ChargeInv, TasksAreAhead
  <2> QED
    BY <2>4, <2>5, <2>7 DEF ChargeInv
<1> QED
  BY <1>3, <1>4

LEMMA PrepareKeeps ==
    ASSUME ChargeInv, NEW c \in Clips, Prepare(c)
    PROVE  ChargeInv'
<1>1. task \in [Clips -> Steps] /\ ordinal \in [Clips -> Nat] /\ reply \in [Clips -> Outcomes]
      /\ charged \subseteq Clips \X Nat
  BY DEF ChargeInv, ChargeTypes
<1>2. UNCHANGED <<dispatches, charged, ordinal, reply>> /\ task[c] = "limiting"
  BY DEF Prepare
<1>3. CASE halted
  <2>1. task' = [task EXCEPT ![c] = "done"] /\ journal' = journal
    BY <1>3 DEF Prepare
  <2> QED
    BY <1>1, <1>2, <2>1, QuietKeeps
<1>4. CASE ~halted
  <2>1. task' = [task EXCEPT ![c] = "prepared"] /\ Append(c, "prepared")
    BY <1>4 DEF Prepare
  <2>2. ChargeTypes' /\ Known' \subseteq Known \cup {<<c, ordinal[c]>>}
    BY <1>1, <1>2, <2>1 DEF ChargeInv, ChargeTypes, Append, Known, AttemptsOf
  <2>3. \A a \in charged : ~Has(a, "free")' /\ ~Has(a, "refused")'
    BY <1>1, <2>1, AppendAdds DEF ChargeInv, ChargesStand
  <2>4. \A a \in charged : a[1] # c
    BY <1>2 DEF ChargeInv, TasksAreAhead
  <2>5. \A d \in Clips \ {c}, k \in Nat : Open(d, k) => Open(d, k)'
    BY <2>1, AppendKeepsOpen
  <2>6. Open(c, ordinal[c])'
    BY <1>2, <2>1 DEF ChargeInv, TasksAreAhead, Open, Append
  <2>7. /\ task'[c] = "prepared" /\ charged' = charged /\ dispatches' = dispatches
        /\ \A a \in charged' : a[1] # c
        /\ \A a \in charged' : ~Has(a, "free")' /\ ~Has(a, "refused")'
        /\ ordinal'[c] >= ordinal[c]
        /\ \A d \in Clips \ {c} :
               task'[d] = task[d] /\ ordinal'[d] = ordinal[d] /\ reply'[d] = reply[d]
    BY <1>1, <1>2, <2>1, <2>3, <2>4
  <2> QED
    BY <1>2, <2>2, <2>5, <2>6, <2>7, ClipStepKeeps
<1> QED
  BY <1>3, <1>4

LEMMA AdmitKeeps ==
    ASSUME ChargeInv, NEW c \in Clips, Admit(c)
    PROVE  ChargeInv'
<1>1. task \in [Clips -> Steps] /\ ordinal \in [Clips -> Nat] /\ reply \in [Clips -> Outcomes]
  BY DEF ChargeInv, ChargeTypes
<1>2. /\ UNCHANGED <<journal, charged, ordinal, reply>> /\ task[c] = "prepared"
      /\ dispatches' = dispatches \cup {<<c, ordinal[c]>>}
      /\ task' = [task EXCEPT ![c] = "admitted"]
  BY DEF Admit
<1>3. ChargeTypes' /\ Known' \subseteq Known \cup {<<c, ordinal[c]>>}
  BY <1>1, <1>2 DEF ChargeInv, ChargeTypes, Known, AttemptsOf
<1>4. \A d \in Clips, k \in Nat : Open(d, k) => Open(d, k)'
  BY <1>2 DEF Open
<1>5. /\ \A a \in charged : a[1] # c
      /\ \A a \in charged : ~Has(a, "free")' /\ ~Has(a, "refused")'
      /\ Open(c, ordinal[c])'
  BY <1>2 DEF ChargeInv, ChargesStand, TasksAreAhead, Has, Open
<1>6. /\ task'[c] = "admitted" /\ charged' = charged
      /\ \A a \in charged' : a[1] # c
      /\ \A a \in charged' : ~Has(a, "free")' /\ ~Has(a, "refused")'
      /\ dispatches \subseteq dispatches' /\ <<c, ordinal'[c]>> \in dispatches'
      /\ ordinal'[c] >= ordinal[c]
      /\ \A d \in Clips \ {c} :
             task'[d] = task[d] /\ ordinal'[d] = ordinal[d] /\ reply'[d] = reply[d]
  BY <1>1, <1>2, <1>5
<1> QED
  BY <1>2, <1>3, <1>4, <1>5, <1>6, ClipStepKeeps

\* The one step that may be charged: nothing of this clip was, and a charge means that the
\* outcome will be journalled as an answer or as billed.
LEMMA SendKeeps ==
    ASSUME ChargeInv, NEW c \in Clips, Send(c)
    PROVE  ChargeInv'
<1>1. task \in [Clips -> Steps] /\ ordinal \in [Clips -> Nat] /\ reply \in [Clips -> Outcomes]
      /\ charged \subseteq Clips \X Nat
  BY DEF ChargeInv, ChargeTypes
<1>2. /\ UNCHANGED <<dispatches, ordinal>> /\ task[c] = "admitted"
      /\ task' = [task EXCEPT ![c] = "sent"] /\ Append(c, "dispatched")
  BY DEF Send
<1>3. <<c, ordinal[c]>> \in dispatches /\ \A a \in charged : a[1] # c
  BY <1>2 DEF ChargeInv, TasksAreAhead
<1>4. PICK o \in Outcomes :
        /\ reply' = [reply EXCEPT ![c] = o]
        /\ \/ o \in {"answer", "billed"} /\ charged' = charged \cup {<<c, ordinal[c]>>}
           \/ o # "answer" /\ charged' = charged
  BY DEF Send
<1>5. ChargeTypes' /\ Known' \subseteq Known \cup {<<c, ordinal[c]>>}
  BY <1>1, <1>2, <1>3, <1>4 DEF ChargeInv, ChargeTypes, Append, Known, AttemptsOf
<1>6. Open(c, ordinal[c])'
  BY <1>2 DEF ChargeInv, TasksAreAhead, Open, Append
<1>7. \A a \in charged' : ~Has(a, "free")' /\ ~Has(a, "refused")'
  <2>1. ASSUME NEW a \in charged PROVE ~Has(a, "free")' /\ ~Has(a, "refused")'
    BY <1>1, <1>2, <2>1, AppendAdds DEF ChargeInv, ChargesStand
  <2>2. ~Has(<<c, ordinal[c]>>, "free")' /\ ~Has(<<c, ordinal[c]>>, "refused")'
    BY <1>2, <1>6 DEF Open, Has
  <2> QED
    BY <1>2, <1>4, <2>1, <2>2
<1>8. \A a \in charged' : a[1] = c => reply'[c] \in {"answer", "billed"}
  BY <1>1, <1>3, <1>4
<1>9. \A d \in Clips \ {c}, k \in Nat : Open(d, k) => Open(d, k)'
  BY <1>2, AppendKeepsOpen
<1>10. /\ task'[c] = "sent"
       /\ \A d \in Clips \ {c} : task'[d] = task[d] /\ reply'[d] = reply[d]
       /\ charged' = charged \/ charged' = charged \cup {<<c, ordinal[c]>>}
  BY <1>1, <1>2, <1>4
<1> QED
  BY <1>1, <1>2, <1>3, <1>5, <1>6, <1>7, <1>8, <1>9, <1>10, ClipStepKeeps

\* The outcome is journalled; only an attempt that was not charged is tried again.
LEMMA ResolveKeeps ==
    ASSUME ChargeInv, NEW c \in Clips, Resolve(c)
    PROVE  ChargeInv'
<1> DEFINE o == reply[c]
           again == MayRetry(c, o)
<1>1. task \in [Clips -> Steps] /\ ordinal \in [Clips -> Nat] /\ reply \in [Clips -> Outcomes]
      /\ charged \subseteq Clips \X Nat /\ Known \subseteq Clips \X Nat
  BY DEF ChargeInv, ChargeTypes, Known, AttemptsOf
<1>2. /\ UNCHANGED <<dispatches, charged, reply>> /\ task[c] = "sent" /\ Append(c, o)
      /\ task' = [task EXCEPT ![c] = IF o = "answer" THEN "answered"
                                     ELSE IF again THEN "limiting" ELSE "done"]
      /\ ordinal' = [ordinal EXCEPT ![c] = IF again THEN @ + 1 ELSE @]
  BY DEF Resolve
<1>3. o \in Outcomes /\ o \in Events
  BY <1>1
<1>4. \A a \in charged : a[1] = c => a = <<c, ordinal[c]>> /\ o \in {"answer", "billed"}
  <2>1. \A a \in charged : a[1] = c => a[2] = ordinal[c] /\ o \in {"answer", "billed"}
    BY <1>2 DEF ChargeInv, TasksAreAhead
  <2> QED
    BY <1>1, <2>1
<1>5. ChargeTypes' /\ Known' \subseteq Known \cup {<<c, ordinal[c]>>}
  <2>1. task' \in [Clips -> Steps] /\ ordinal' \in [Clips -> Nat]
    BY <1>1, <1>2
  <2> QED
    BY <1>1, <1>2, <1>3, <2>1 DEF ChargeInv, ChargeTypes, Append, Known, AttemptsOf
<1>6. \A a \in charged' : ~Has(a, "free")' /\ ~Has(a, "refused")'
  <2> SUFFICES ASSUME NEW a \in charged, NEW e \in {"free", "refused"}, Has(a, e)'
               PROVE  FALSE
    BY <1>2
  <2>1. Has(a, e) \/ (a = <<c, ordinal[c]>> /\ e = o)
    BY <1>1, <1>2, <1>3, AppendAdds
  <2> QED
    BY <1>4, <2>1 DEF ChargeInv, ChargesStand
<1>7. \A d \in Clips \ {c}, k \in Nat : Open(d, k) => Open(d, k)'
  BY <1>2, <1>3, AppendKeepsOpen
<1>8. \A d \in Clips \ {c} : task'[d] = task[d] /\ ordinal'[d] = ordinal[d]
  BY <1>1, <1>2
<1>9. CASE again
  <2>1. o = "free" /\ task'[c] = "limiting" /\ ordinal'[c] = ordinal[c] + 1
    BY <1>1, <1>2, <1>9 DEF MayRetry, Retryable
  <2>2. \A a \in charged' : a[1] # c
    BY <1>2, <1>4, <2>1
  <2>3. \A a \in Known : a[1] = c => a[2] <= ordinal[c]
    BY <1>2 DEF ChargeInv, TasksAreAhead
  <2>4. <<c, ordinal[c] + 1>> \notin Known
    BY <1>1, <2>3
  <2>5. PICK k \in Nat : k = ordinal[c] + 1
    BY <1>1
  <2>6. Open(c, k)
    <3> SUFFICES ASSUME NEW e \in Outcomes, <<c, k, e>> \in journal PROVE FALSE
      BY DEF Open
    <3>1. <<c, k>> \in Known
      BY DEF Known, AttemptsOf
    <3> QED
      BY <2>4, <2>5, <3>1
  <2>7. Open(c, ordinal[c])'
    <3>1. k # ordinal[c]
      BY <1>1, <2>5
    <3>2. Open(c, k)'
      BY <1>2, <1>3, <2>6, <3>1, AppendKeepsOpen
    <3> QED
      BY <2>1, <2>5, <3>2 DEF Open
  <2>8. /\ dispatches \subseteq dispatches' /\ charged' = charged
        /\ ordinal'[c] >= ordinal[c]
        /\ \A d \in Clips \ {c} :
               task'[d] = task[d] /\ ordinal'[d] = ordinal[d] /\ reply'[d] = reply[d]
    BY <1>1, <1>2, <1>8, <2>1
  <2> QED
    BY <1>2, <1>5, <1>6, <1>7, <2>1, <2>2, <2>7, <2>8, ClipStepKeeps
<1>10. CASE ~again
  <2>1. task'[c] \in {"answered", "done"}
    BY <1>1, <1>2, <1>10
  <2> QED
    BY <1>1, <1>2, <1>5, <1>6, <1>7, <1>8, <2>1, ClipStepKeeps
<1> QED
  BY <1>9, <1>10

-----------------------------------------------------------------------------
LEMMA StepCharges == ChargeInv /\ [Next]_vars => ChargeInv'
<1> SUFFICES ASSUME ChargeInv, [Next]_vars PROVE ChargeInv'
  OBVIOUS
<1>1. CASE UNCHANGED vars
  BY <1>1, StandsStill DEF vars
<1>2. CASE \E c \in Clips : NeverAsked(c) \/ Refuse(c) \/ Exhausted(c) \/ StoreAnswer(c)
  BY <1>2, TaskEndKeeps
<1>3. CASE \E c \in Clips : Take(c) \/ Prepare(c) \/ Admit(c) \/ Send(c) \/ Resolve(c)
  BY <1>3, TakeKeeps, PrepareKeeps, AdmitKeeps, SendKeeps, ResolveKeeps
<1>4. CASE \/ Claim \/ DeadLetter \/ Cancel \/ LeaseLapses \/ SourceBusy
           \/ StopSettles \/ StopEnds \/ SkipSweep \/ MediaBusy \/ StopSweep
           \/ Settle \/ Project \/ ProjectionFails
           \/ SweepSettles \/ SweepAttaches \/ SweepReprojects \/ MediaGoes \/ MediaReturns
  BY <1>4, RowKeeps
<1>5. CASE \/ \E clips \in SUBSET Clips : StartSweep(clips)
           \/ StorageFault \/ EndSweep \/ EndJob \/ LostClaim \/ Crash
  BY <1>5, PassKeeps
<1> QED
  BY <1>1, <1>2, <1>3, <1>4, <1>5 DEF Next, Progress, Environment

\* The strengthened invariant: what was charged stays billed in the books and is the newest
\* attempt of its clip, and no task of a pass is about to ask for a charged clip.
THEOREM Charges == Spec => []ChargeInv
BY InitCharges, StepCharges, PTL DEF Spec

\* No run is ever charged twice for a clip, through any number of crashes, lapsed claims,
\* torn journals, retries and concurrent tasks.
THEOREM ChargedOnce == Spec => []NeverTwice
<1>1. ChargeInv => NeverTwice
  BY DEF ChargeInv
<1> QED
  BY <1>1, Charges, PTL
-----------------------------------------------------------------------------
(* The books of a run: what its admitter, its ledger and its settlements say of its money. *)

\* The attempts that count as spent.
Bill == {a \in Known : Billed(a)}

Flights == {c \in Clips : task[c] \in InFlight}

\* A job that is held waits to be ended, and was claimed.
JobFits == owner # "none" => jobState = "waiting" /\ attempt # 0

\* A pass that found the media lock taken, and failed before it looked at the run's money.
NeverLooked == MediaContended /\ Reported = 0 /\ result = "failed"

\* The admitter counts the requests in flight, and agrees with the ledger from the moment a
\* pass has read it, unless the pass ended before it did.
BooksFit ==
    /\ IsFiniteSet(Known)
    /\ phase = "none" => spent = 0 /\ outstanding = 0
    /\ phase = "sweeping" => outstanding = Cardinality(Flights)
    /\ AdmitterMatchesLedger
    /\ phase \in {"ending", "projecting"} =>
           Reported = LedgerSpent \/ NeverLooked

\* A task that has not asked is at an attempt nobody dispatched; its intent has mended the
\* journal, so that no outcome of it is lost in a torn tail.
TasksFit ==
    \A c \in Clips :
        /\ task[c] \in {"limiting", "prepared"} => ~Dispatched(<<c, ordinal[c]>>)
        /\ task[c] \in {"prepared"} \cup InFlight => ~torn

\* What is spent fits the reservation, and in a sweep the rest of it is what remains.
BudgetHolds ==
    /\ reservation = NoReservation => Known = {} /\ phase # "sweeping"
    /\ reservation # NoReservation => LedgerSpent <= reservation
    /\ phase = "sweeping" => remaining + LedgerSpent = reservation

\* The settlement row leads the line beside the media and what a pass will project.
RowLeads == line.spent <= row.spent /\ entry.spent <= row.spent

PaidInv ==
    /\ ChargeInv /\ TypeOK
    /\ JobFits /\ BooksFit /\ TasksFit /\ BudgetHolds /\ RowLeads

\* What n requests cost.
Worth(n) == Unit * n

LEMMA WorthIs ==
    /\ \A n \in Nat : Worth(n) \in Nat /\ Worth(n + 1) = Worth(n) + Unit
    /\ \A n \in Nat : n > 0 => Worth(n) = Worth(n - 1) + Unit
    /\ \A m, n \in Nat : m <= n => Worth(m) <= Worth(n)
    /\ Worth(0) = 0 /\ Unit \in Nat
<1>1. Unit \in Nat
  BY AmountsAssumption
<1>2. \A m, n \in Nat : Worth(m) \in Nat /\ Worth(m + n) = Worth(m) + Worth(n)
  BY <1>1 DEF Worth
<1>3. Worth(1) = Unit /\ Worth(0) = 0
  BY <1>1 DEF Worth
<1>4. ASSUME NEW m \in Nat, NEW n \in Nat, m <= n PROVE Worth(m) <= Worth(n)
  <2>1. PICK k \in Nat : n = m + k
    <3>1. n - m \in Nat /\ n = m + (n - m)
      BY <1>4
    <3> QED
      BY <3>1
  <2>2. Worth(n) = Worth(m) + Worth(k) /\ Worth(k) \in Nat /\ Worth(m) \in Nat
    BY <1>2, <2>1
  <2> QED
    BY <2>2
<1>5. ASSUME NEW n \in Nat, n > 0 PROVE Worth(n) = Worth(n - 1) + Unit
  <2>1. n - 1 \in Nat /\ (n - 1) + 1 = n
    BY <1>5
  <2> QED
    BY <1>2, <1>3, <2>1
<1> QED
  BY <1>1, <1>2, <1>3, <1>4, <1>5

\* What was charged is on the bill, and the ledger adds the bill up.
LEMMA BillIs ==
    ASSUME ChargeInv, IsFiniteSet(Known)
    PROVE  /\ charged \subseteq Bill /\ charged \subseteq dispatches
           /\ IsFiniteSet(Bill) /\ IsFiniteSet(charged) /\ IsFiniteSet(dispatches)
           /\ Cardinality(Bill) \in Nat /\ Cardinality(charged) \in Nat
           /\ LedgerSpent = Worth(Cardinality(Bill)) /\ LedgerSpent \in Nat
           /\ Truth = Worth(Cardinality(charged)) /\ Truth \in Nat
           /\ Truth <= LedgerSpent
           /\ Unit * Cardinality(dispatches) \in Nat /\ Truth <= Unit * Cardinality(dispatches)
<1>1. charged \subseteq dispatches /\ dispatches \subseteq Known /\ Bill \subseteq Known
  BY DEF ChargeInv, ChargeTypes, Known, Bill
<1>2. charged \subseteq Bill
  BY <1>1 DEF ChargeInv, ChargesStand, Bill, Billed, Dispatched
<1>3. /\ IsFiniteSet(Bill) /\ IsFiniteSet(dispatches) /\ IsFiniteSet(charged)
      /\ Cardinality(charged) <= Cardinality(Bill)
      /\ Cardinality(charged) <= Cardinality(dispatches)
  BY <1>1, <1>2, FS_Subset
<1>4. /\ Cardinality(Bill) \in Nat /\ Cardinality(charged) \in Nat
      /\ Cardinality(dispatches) \in Nat
  BY <1>3, FS_CardinalityType
<1>5. LedgerSpent = Worth(Cardinality(Bill))
  BY DEF LedgerSpent, SpentOn, Bill, Worth
<1>6. Truth = Worth(Cardinality(charged))
  BY DEF Truth, Worth
<1>7. Unit * Cardinality(dispatches) = Worth(Cardinality(dispatches))
  BY DEF Worth
<1> QED
  BY <1>1, <1>2, <1>3, <1>4, <1>5, <1>6, <1>7, WorthIs

\* Whatever is settled from what is durable covers what was charged.
LEMMA DurableIs ==
    ASSUME ChargeInv, IsFiniteSet(Known)
    PROVE  Durable \in Nat /\ Truth <= Durable
BY BillIs DEF Durable

LEMMA ReportedIs ==
    ASSUME TypeOK
    PROVE  Reported = spent + Worth(outstanding) /\ Reported \in Nat
BY WorthIs DEF TypeOK, Reported, Worth

\* Steps that write no event leave the ledger as it is.
LEMMA LedgerStands ==
    ASSUME UNCHANGED <<dispatches, journal>>
    PROVE  /\ Known' = Known /\ Bill' = Bill /\ LedgerSpent' = LedgerSpent
           /\ \A a : Dispatched(a)' = Dispatched(a)
BY DEF Known, AttemptsOf, Bill, Billed, Dispatched, Has, LedgerSpent, SpentOn

\* A flight is among the clips, which are finitely many.
LEMMA FlightsAreCounted ==
    IsFiniteSet(Flights) /\ Cardinality(Flights) \in Nat
BY ClipsAssumption, FS_Subset, FS_CardinalityType DEF Flights

-----------------------------------------------------------------------------
\* Types, the job row, and who leads whom: one step per group of actions.

LEMMA RowIsTyped ==
    ASSUME NEW status \in {"none"} \cup Statuses, NEW amount \in Nat, NEW located \in BOOLEAN,
           NEW old \in [status : {"none"} \cup Statuses, spent : Nat, located : BOOLEAN]
    PROVE  /\ Row(Merge(status, amount, old), located) \in
                  [status : {"none"} \cup Statuses, spent : Nat, located : BOOLEAN]
           /\ Row(Merge(status, amount, old), located).spent >= old.spent
           /\ Row(Merge(status, amount, old), located).spent >= amount
BY DEF Row, Merge, Larger

Entries == [status : {"none"} \cup Statuses, spent : Nat]

LEMMA LineIsTyped ==
    ASSUME NEW e \in Entries, NEW old \in Entries, NEW top \in Nat,
           e.spent <= top, old.spent <= top
    PROVE  LET m == Merge(e.status, e.spent, old) IN m \in Entries /\ m.spent <= top
BY DEF Merge, Larger, Entries

\* A settlement that is written on a row, and perhaps projected.
LEMMA SettledRow ==
    ASSUME TypeOK, RowLeads, NEW status \in {"none"} \cup Statuses, NEW amount \in Nat,
           NEW located \in BOOLEAN,
           row' = Row(Merge(status, amount, row), located),
           line' = line \/ ProjectOrCrash(EntryOf(row')),
           entry' = entry \/ entry' = EntryOf(row')
    PROVE  /\ row' \in [status : {"none"} \cup Statuses, spent : Nat, located : BOOLEAN]
           /\ line' \in [status : {"none"} \cup Statuses, spent : Nat]
           /\ entry' \in [status : {"none"} \cup Statuses, spent : Nat]
           /\ row'.spent >= row.spent /\ row'.spent >= amount
           /\ RowLeads'
<1>1. PICK r \in [status : {"none"} \cup Statuses, spent : Nat, located : BOOLEAN] :
          row' = r /\ r.spent >= row.spent /\ r.spent >= amount
  BY RowIsTyped DEF TypeOK
<1>2. PICK e \in [status : {"none"} \cup Statuses, spent : Nat] :
          EntryOf(r) = e /\ e.spent = r.spent
  <2>1. /\ EntryOf(r) \in [status : {"none"} \cup Statuses, spent : Nat]
        /\ EntryOf(r).spent = r.spent
    BY DEF EntryOf
  <2> QED
    BY <2>1, Zenon
<1>3. line \in [status : {"none"} \cup Statuses, spent : Nat] /\ line.spent <= row.spent
      /\ entry \in [status : {"none"} \cup Statuses, spent : Nat] /\ entry.spent <= row.spent
      /\ row.spent \in Nat /\ row.spent <= r.spent
  BY <1>1 DEF TypeOK, RowLeads
<1>4. entry' \in {entry, e}
  BY <1>1, <1>2
<1>5. line' \in {line, Merge(e.status, e.spent, line)}
  BY <1>1, <1>2 DEF ProjectOrCrash
<1>6. e \in Entries /\ line \in Entries /\ r.spent \in Nat /\ e.spent <= r.spent /\ line.spent <= r.spent
  BY <1>2, <1>3 DEF Entries
<1>7. line' \in Entries /\ line'.spent <= r.spent
  BY <1>5, <1>6, LineIsTyped
<1>8. entry' \in [status : {"none"} \cup Statuses, spent : Nat] /\ entry'.spent <= r.spent
  BY <1>2, <1>3, <1>4
<1> QED
  BY <1>1, <1>7, <1>8 DEF RowLeads, Entries

\* What a step may do to the settlement and its projections: a row never goes down, and one
\* that is written covers what was charged, or reports nothing new for a pass that never got
\* the media lock.
Settles ==
    /\ row' \in [status : {"none"} \cup Statuses, spent : Nat, located : BOOLEAN]
    /\ line' \in [status : {"none"} \cup Statuses, spent : Nat]
    /\ entry' \in [status : {"none"} \cup Statuses, spent : Nat]
    /\ RowLeads'
    /\ row' # row =>
           /\ UNCHANGED <<charged, reservation>> /\ row'.spent >= row.spent
           /\ row'.spent >= Truth \/ (phase = "ending" /\ NeverLooked /\ row'.spent = row.spent)

LEMMA SettledByAmount ==
    ASSUME PaidInv, NEW status \in {"none"} \cup Statuses, NEW amount \in Nat,
           NEW located \in BOOLEAN,
           row' = Row(Merge(status, amount, row), located),
           line' = line \/ ProjectOrCrash(EntryOf(row')),
           entry' = entry \/ entry' = EntryOf(row'),
           UNCHANGED <<charged, reservation>>,
           amount >= Truth \/ (phase = "ending" /\ NeverLooked /\ amount = 0)
    PROVE  Settles
<1>1. /\ row' \in [status : {"none"} \cup Statuses, spent : Nat, located : BOOLEAN]
      /\ line' \in [status : {"none"} \cup Statuses, spent : Nat]
      /\ entry' \in [status : {"none"} \cup Statuses, spent : Nat]
      /\ row'.spent >= row.spent /\ row'.spent >= amount
      /\ RowLeads'
  BY SettledRow DEF PaidInv
<1>2. row'.spent = Larger(amount, row.spent)
  BY DEF Row, Merge
<1>3. row.spent \in Nat /\ row'.spent \in Nat /\ Truth \in Nat
  BY <1>1, BillIs DEF PaidInv, TypeOK, BooksFit
<1>4. row'.spent >= Truth \/ (phase = "ending" /\ NeverLooked /\ row'.spent = row.spent)
  BY <1>1, <1>2, <1>3 DEF Larger
<1> QED
  BY <1>1, <1>4 DEF Settles

LEMMA SettlementStands ==
    ASSUME PaidInv, UNCHANGED <<row, line>>, entry' \in {entry, NoLine}
    PROVE  Settles
<1>1. /\ row \in [status : {"none"} \cup Statuses, spent : Nat, located : BOOLEAN]
      /\ line \in [status : {"none"} \cup Statuses, spent : Nat]
      /\ entry \in [status : {"none"} \cup Statuses, spent : Nat]
      /\ row.spent \in Nat
  BY DEF PaidInv, TypeOK
<1>2. NoLine \in [status : {"none"} \cup Statuses, spent : Nat] /\ NoLine.spent = 0
  BY DEF NoLine
<1> QED
  BY <1>1, <1>2 DEF PaidInv, RowLeads, Settles

LEMMA StepSettles ==
    ASSUME PaidInv, [Next]_vars
    PROVE  Settles
<1>1. /\ LedgerSpent \in Nat /\ Truth <= LedgerSpent /\ Truth \in Nat
      /\ Durable \in Nat /\ Truth <= Durable
  BY BillIs, DurableIs DEF PaidInv, BooksFit
<1>2. CASE StopSettles
  <2>1. "cancelled" \in {"none"} \cup Statuses /\ (media # "gone") \in BOOLEAN
    BY DEF Statuses
  <2>2. line' = line \/ ProjectOrCrash(EntryOf(row'))
    BY <1>2 DEF StopSettles
  <2> QED
    BY <1>1, <1>2, <2>1, <2>2, SettledByAmount DEF StopSettles
<1>3. CASE SweepSettles
  <2>1. jobState \in {"none"} \cup Statuses /\ (media # "gone") \in BOOLEAN
    BY <1>3 DEF SweepSettles, Stopped
  <2>2. line' = line \/ ProjectOrCrash(EntryOf(row'))
    BY <1>3 DEF SweepSettles
  <2> QED
    BY <1>1, <1>3, <2>1, <2>2, SettledByAmount DEF SweepSettles
<1>4. CASE SweepAttaches
  <2>1. row.status \in {"none"} \cup Statuses
    BY DEF PaidInv, TypeOK
  <2> QED
    BY <1>1, <1>4, <2>1, SettledByAmount DEF SweepAttaches
<1>5. CASE Settle
  <2>1. result \in {"none"} \cup Statuses /\ Reported \in Nat
    BY ReportedIs DEF PaidInv, TypeOK
  <2>2. Reported >= Truth \/ (phase = "ending" /\ NeverLooked /\ Reported = 0)
    BY <1>1, <1>5 DEF Settle, PaidInv, BooksFit, NeverLooked
  <2> QED
    BY <1>5, <2>1, <2>2, SettledByAmount DEF Settle
<1>6. CASE SweepReprojects
  <2>1. PICK r \in [status : {"none"} \cup Statuses, spent : Nat, located : BOOLEAN] : row = r
    BY DEF PaidInv, TypeOK
  <2>2. line.spent \in Nat /\ line.spent <= r.spent /\ r.spent \in Nat
    BY <2>1 DEF PaidInv, TypeOK, RowLeads
  <2>3. Larger(line.spent, r.spent) = r.spent
    BY <2>2 DEF Larger
  <2>4. Row(Merge(r.status, line.spent, r), TRUE)
            = [status |-> r.status, spent |-> r.spent, located |-> TRUE]
    BY <2>3 DEF Row, Merge
  <2>5. r.located = TRUE
    BY <1>6, <2>1 DEF SweepReprojects
  <2>6. Row(Merge(r.status, line.spent, r), TRUE) = r
    BY <2>4, <2>5
  <2>7. row' = row
    BY <1>6, <2>1, <2>6 DEF SweepReprojects
  <2>8. line' \in [status : {"none"} \cup Statuses, spent : Nat] /\ line'.spent = r.spent
    BY <1>6, <2>1, <2>7 DEF SweepReprojects, EntryOf
  <2>9. entry' = entry
    BY <1>6 DEF SweepReprojects
  <2> QED
    BY <2>1, <2>2, <2>7, <2>8, <2>9 DEF Settles, RowLeads, PaidInv, TypeOK
<1>7. CASE Project
  <2>1. PICK r \in [status : {"none"} \cup Statuses, spent : Nat, located : BOOLEAN] : row = r
    BY DEF PaidInv, TypeOK
  <2>2. /\ entry \in Entries /\ line \in Entries /\ r.spent \in Nat
        /\ entry.spent <= r.spent /\ line.spent <= r.spent
    BY <2>1 DEF PaidInv, TypeOK, RowLeads, Entries
  <2>3. UNCHANGED <<row, entry>> /\ line' = Merge(entry.status, entry.spent, line)
    BY <1>7 DEF Project
  <2>4. line' \in Entries /\ line'.spent <= r.spent
    BY <2>2, <2>3, LineIsTyped
  <2> QED
    BY <2>1, <2>2, <2>3, <2>4 DEF Settles, RowLeads, Entries
<1>8. CASE EndJob \/ LostClaim \/ Crash
  BY <1>8, SettlementStands DEF EndJob, LostClaim, Crash, Forget
<1>9. CASE \/ Claim \/ DeadLetter \/ Cancel \/ LeaseLapses \/ SourceBusy \/ StopEnds
           \/ SkipSweep \/ MediaBusy \/ StopSweep \/ ProjectionFails \/ MediaGoes \/ MediaReturns
           \/ StorageFault \/ EndSweep \/ \E clips \in SUBSET Clips : StartSweep(clips)
  <2>1. UNCHANGED <<row, line, entry>>
    BY <1>9 DEF Claim, DeadLetter, Cancel, LeaseLapses, SourceBusy, StopEnds, SkipSweep,
         BeginPass, MediaBusy, StopSweep, ProjectionFails, MediaGoes, MediaReturns,
         StorageFault, EndSweep, StartSweep
  <2> QED
    BY <2>1, SettlementStands
<1>10. CASE \E c \in Clips :
              \/ NeverAsked(c) \/ Refuse(c) \/ Exhausted(c) \/ StoreAnswer(c)
              \/ Take(c) \/ Prepare(c) \/ Admit(c) \/ Send(c) \/ Resolve(c)
  <2>1. UNCHANGED <<row, line, entry>>
    BY <1>10 DEF NeverAsked, Refuse, Exhausted, StoreAnswer, Take, Prepare, Admit, Send, Resolve
  <2> QED
    BY <2>1, SettlementStands
<1>11. CASE UNCHANGED vars
  BY <1>11, SettlementStands DEF vars
<1> QED
  BY <1>2, <1>3, <1>4, <1>5, <1>6, <1>7, <1>8, <1>9, <1>10, <1>11 DEF Next, Progress, Environment

LEMMA PlannedIsTyped ==
    ASSUME TypeOK, NEW clips \in SUBSET Clips
    PROVE  Authorised(Cardinality(clips \ cache)) \in Nat
<1>1. Cardinality(clips \ cache) \in Nat
  BY ClipsAssumption, FS_Subset, FS_CardinalityType
<1>2. PICK cost \in Nat : cost = Cardinality(clips \ cache) * Unit
  BY <1>1, AmountsAssumption
<1>3. Reserve(Cardinality(clips \ cache)) \in Nat
  BY <1>2 DEF Reserve
<1> QED
  BY <1>3 DEF Authorised, TypeOK

LEMMA RestoreIsTyped ==
    ASSUME NEW reserved \in Nat, LedgerSpent \in Nat
    PROVE  /\ Restore(reserved) \in Nat
           /\ LedgerSpent <= reserved => Restore(reserved) + LedgerSpent = reserved
BY DEF Restore, Larger

\* The rest of the types.
LEMMA StepTypes ==
    ASSUME PaidInv, [Next]_vars
    PROVE  TypeOK'
<1>1. /\ LedgerSpent \in Nat /\ Unit \in Nat /\ Settles /\ ChargeInv'
  BY BillIs, WorthIs, StepSettles, StepCharges DEF PaidInv, BooksFit
<1>2. TypeOK
  BY DEF PaidInv
<1>3. /\ row' \in [status : {"none"} \cup Statuses, spent : Nat, located : BOOLEAN]
      /\ line' \in [status : {"none"} \cup Statuses, spent : Nat]
      /\ entry' \in [status : {"none"} \cup Statuses, spent : Nat]
  BY <1>1 DEF Settles
<1>4. /\ dispatches' \subseteq Clips \X Nat /\ journal' \subseteq Clips \X Nat \X Events
      /\ task' \in [Clips -> Steps] /\ ordinal' \in [Clips -> Nat]
      /\ reply' \in [Clips -> Outcomes] /\ charged' \subseteq Clips \X Nat
  BY <1>1 DEF ChargeInv, ChargeTypes
<1>5. CASE UNCHANGED <<reservation, concluded, fileVars, media, passVars>>
           /\ (\/ Claim \/ DeadLetter \/ Cancel \/ LeaseLapses \/ SourceBusy \/ StopEnds
               \/ StopSettles \/ SweepSettles \/ SweepAttaches \/ SweepReprojects)
  <2>1. /\ jobState' \in {"waiting"} \cup Statuses /\ attempt' \in 0..MaxAttempts
        /\ owner' \in {"none", "worker", "stopping", "stopped", "pass"}
        /\ cancel_requested' \in BOOLEAN
    <3>1. CASE Claim \/ DeadLetter \/ Cancel
      <4>1. /\ jobState \in {"waiting"} \cup Statuses /\ attempt \in Nat /\ MaxAttempts \in Nat
            /\ attempt \in 0..MaxAttempts /\ cancel_requested \in BOOLEAN
            /\ owner \in {"none", "worker", "stopping", "stopped", "pass"}
        BY <1>2, LimitsAssumption DEF TypeOK
      <4>2. CASE Claim
        <5>1. /\ UNCHANGED <<jobState, cancel_requested>> /\ attempt < MaxAttempts
              /\ attempt' = attempt + 1 /\ owner' \in {"stopping", "worker"}
          BY <4>2 DEF Claim
        <5> QED
          BY <4>1, <5>1
      <4>3. CASE DeadLetter \/ Cancel
        BY <1>2, <4>1, <4>3 DEF DeadLetter, Cancel, Statuses
      <4> QED
        BY <3>1, <4>2, <4>3
    <3>2. CASE LeaseLapses \/ SourceBusy \/ StopEnds
      BY <1>2, <3>2 DEF TypeOK, LeaseLapses, SourceBusy, StopEnds, Statuses
    <3>3. CASE StopSettles
      <4>1. UNCHANGED <<jobState, attempt, cancel_requested>> /\ owner' = "stopped"
        BY <3>3 DEF StopSettles
      <4> QED
        BY <1>2, <4>1 DEF TypeOK
    <3>4. CASE SweepSettles \/ SweepAttaches \/ SweepReprojects
      <4>1. UNCHANGED jobVars
        BY <3>4 DEF SweepSettles, SweepAttaches, SweepReprojects
      <4> QED
        BY <1>2, <4>1 DEF TypeOK
    <3> QED
      BY <1>5, <3>1, <3>2, <3>3, <3>4
  <2> QED
    BY <1>2, <1>3, <1>4, <1>5, <2>1 DEF TypeOK
<1>6. CASE MediaGoes \/ MediaReturns \/ UNCHANGED vars
  BY <1>2, <1>3, <1>4, <1>6 DEF TypeOK, MediaGoes, MediaReturns, vars
<1>7. CASE SkipSweep \/ MediaBusy \/ StopSweep \/ EndSweep \/ StorageFault
  <2>1. CASE SkipSweep \/ MediaBusy
    <3>1. /\ UNCHANGED <<jobState, attempt, cancel_requested, reservation, fileVars, media>>
          /\ UNCHANGED <<outstanding, remaining, halted, retries>>
          /\ owner' = "pass" /\ phase' \in Phases /\ result' \in Statuses
          /\ concluded' \in BOOLEAN /\ spent' \in {spent, LedgerSpent}
      BY <1>2, <2>1 DEF TypeOK, SkipSweep, BeginPass, MediaBusy, Phases, Statuses, admitter, taskVars
    <3> QED
      BY <1>1, <1>2, <1>3, <1>4, <3>1 DEF TypeOK, fileVars
  <2>2. CASE StopSweep
    BY <1>2, <1>3, <1>4, <2>2 DEF TypeOK, StopSweep, Statuses
  <2>3. CASE EndSweep \/ StorageFault
    <3>1. /\ UNCHANGED <<jobVars, reservation, cache, media, admitter, halted, retries>>
          /\ phase' \in Phases /\ result' \in Statuses /\ torn' \in BOOLEAN
          /\ concluded' \in BOOLEAN
      BY <1>2, <2>3 DEF TypeOK, EndSweep, StorageFault, Phases, Statuses
    <3> QED
      BY <1>2, <1>3, <1>4, <3>1 DEF TypeOK
  <2> QED
    BY <1>7, <2>1, <2>2, <2>3
<1>8. ASSUME NEW clips \in SUBSET Clips, StartSweep(clips) PROVE TypeOK'
  <2>1. Authorised(Cardinality(clips \ cache)) \in Nat
    BY <1>2, PlannedIsTyped
  <2>2. Restore(Authorised(Cardinality(clips \ cache))) \in Nat
    BY <1>1, <2>1, RestoreIsTyped
  <2>3. reservation' \in Nat \cup {NoReservation} /\ remaining' \in Nat
    BY <1>2, <1>8, <2>1, <2>2 DEF StartSweep, TypeOK
  <2>4. phase' \in Phases /\ result' \in Statuses
    BY <1>2, <1>8 DEF StartSweep, Phases, Statuses, TypeOK
  <2> QED
    BY <1>1, <1>2, <1>3, <1>4, <1>8, <2>3, <2>4 DEF StartSweep, BeginPass, TypeOK
<1>9. CASE Settle \/ Project \/ ProjectionFails
  <2>1. /\ UNCHANGED <<jobVars, reservation, concluded, fileVars, media, admitter, halted, retries>>
        /\ phase' \in Phases /\ result' \in {result, "failed"}
    BY <1>9 DEF Settle, Project, ProjectionFails, Phases
  <2> QED
    BY <1>2, <1>3, <1>4, <2>1 DEF TypeOK, Statuses
<1>10. CASE EndJob \/ LostClaim \/ Crash
  <2>1. retries' \in [Clips -> 0..MaxRetries]
    <3>1. retries' = [c \in Clips |-> 0] /\ 0 \in 0..MaxRetries
      BY <1>10, LimitsAssumption DEF EndJob, LostClaim, Crash, Forget
    <3> QED
      BY <3>1
  <2>2. /\ UNCHANGED <<attempt, cancel_requested, reservation, concluded, cache, media>>
        /\ jobState' \in {jobState, result} /\ owner' \in {owner, "none"}
        /\ torn' \in BOOLEAN
    BY <1>2, <1>10 DEF TypeOK, EndJob, LostClaim, Crash
  <2>3. /\ phase' \in Phases /\ result' \in Statuses /\ halted' \in BOOLEAN
        /\ remaining' = 0 /\ spent' = 0 /\ outstanding' = 0
    BY <1>10 DEF EndJob, LostClaim, Crash, Forget, Phases, Statuses
  <2> QED
    BY <1>2, <1>3, <1>4, <2>1, <2>2, <2>3 DEF TypeOK
<1>11. ASSUME NEW c \in Clips,
              NeverAsked(c) \/ Refuse(c) \/ Exhausted(c) \/ StoreAnswer(c) \/ Take(c)
              \/ Prepare(c) \/ Send(c)
       PROVE TypeOK'
  <2>1. cache' \subseteq Clips /\ torn' \in BOOLEAN
    BY <1>2, <1>11 DEF NeverAsked, Refuse, Exhausted, StoreAnswer, Take, Prepare, Append, Send,
                       TypeOK
  <2>2. UNCHANGED <<jobVars, reservation, concluded, media, phase, admitter, retries>>
    BY <1>11 DEF NeverAsked, Refuse, Exhausted, StoreAnswer, Take, Prepare, Send
  <2>3. halted' \in BOOLEAN /\ result' \in Statuses
    BY <1>2, <1>11 DEF NeverAsked, Refuse, Exhausted, StoreAnswer, Take, Prepare, Send, TypeOK,
                       Statuses
  <2> QED
    BY <1>2, <1>3, <1>4, <2>1, <2>2, <2>3 DEF TypeOK
<1>12. ASSUME NEW c \in Clips, Admit(c) PROVE TypeOK'
  <2>1. UNCHANGED <<jobVars, reservation, concluded, media, phase, result, spent, halted, retries,
                    fileVars>>
    BY <1>12 DEF Admit
  <2>2. remaining' \in Nat /\ outstanding' \in Nat
    BY <1>1, <1>2, <1>12 DEF Admit, TypeOK
  <2> QED
    BY <1>2, <1>3, <1>4, <2>1, <2>2 DEF TypeOK
<1>13. ASSUME NEW c \in Clips, Resolve(c) PROVE TypeOK'
  <2>1. outstanding # 0
    <3>1. c \in Flights /\ outstanding = Cardinality(Flights)
      BY <1>13 DEF Resolve, PaidInv, BooksFit, Flights
    <3> QED
      BY <3>1, FlightsAreCounted, FS_EmptySet
  <2>2. UNCHANGED <<jobVars, reservation, concluded, media, phase, result, cache>>
    BY <1>13 DEF Resolve
  <2>3. remaining' \in Nat /\ outstanding' \in Nat /\ spent' \in Nat
    BY <1>1, <1>2, <1>13, <2>1 DEF Resolve, TypeOK
  <2>4. halted' \in BOOLEAN /\ torn' \in BOOLEAN
    BY <1>2, <1>13 DEF Resolve, Append, TypeOK
  <2>5. retries' \in [Clips -> 0..MaxRetries]
    <3>1. retries' = [retries EXCEPT ![c] = IF MayRetry(c, reply[c]) THEN @ + 1 ELSE @]
      BY <1>13 DEF Resolve
    <3>2. MayRetry(c, reply[c]) => retries[c] + 1 \in 0..MaxRetries
      BY <1>2, LimitsAssumption DEF MayRetry, TypeOK
    <3> QED
      BY <1>2, <3>1, <3>2 DEF TypeOK
  <2> QED
    BY <1>2, <1>3, <1>4, <2>2, <2>3, <2>4, <2>5 DEF TypeOK
<1>14. ASSUME \/ Claim \/ DeadLetter \/ Cancel \/ LeaseLapses \/ SourceBusy \/ StopEnds
              \/ StopSettles \/ SweepSettles \/ SweepAttaches \/ SweepReprojects
       PROVE  UNCHANGED <<reservation, concluded, fileVars, media, passVars>>
  BY <1>14 DEF Claim, DeadLetter, Cancel, LeaseLapses, SourceBusy, StopEnds, StopSettles,
               SweepSettles, SweepAttaches, SweepReprojects
<1> QED
  BY <1>5, <1>6, <1>7, <1>8, <1>9, <1>10, <1>11, <1>12, <1>13, <1>14
     DEF Next, Progress, Environment

\* Who holds the job, and whether it has ended.
LEMMA StepJobFits ==
    ASSUME PaidInv, [Next]_vars
    PROVE  JobFits'
<1>1. TypeOK /\ JobFits
  BY DEF PaidInv
<1>2. CASE jobVars' = jobVars
  BY <1>1, <1>2 DEF JobFits
<1>3. CASE \/ Claim \/ DeadLetter \/ Cancel \/ LeaseLapses \/ SourceBusy \/ StopEnds
           \/ StopSettles \/ EndJob \/ Crash \/ MediaBusy \/ SkipSweep
           \/ \E clips \in SUBSET Clips : StartSweep(clips)
  <2>1. attempt \in Nat
    BY <1>1, LimitsAssumption DEF TypeOK
  <2>2. CASE Claim \/ DeadLetter \/ Cancel
    BY <1>1, <2>1, <2>2 DEF JobFits, Claim, DeadLetter, Cancel
  <2>3. CASE LeaseLapses \/ SourceBusy \/ StopEnds \/ EndJob \/ Crash
    BY <1>1, <2>3 DEF JobFits, LeaseLapses, SourceBusy, StopEnds, EndJob, Crash
  <2>4. CASE StopSettles \/ MediaBusy \/ SkipSweep \/ \E clips \in SUBSET Clips : StartSweep(clips)
    <3>1. UNCHANGED <<jobState, attempt>> /\ owner # "none"
      BY <2>4 DEF StopSettles, MediaBusy, SkipSweep, StartSweep, BeginPass
    <3> QED
      BY <1>1, <3>1 DEF JobFits
  <2> QED
    BY <1>3, <2>2, <2>3, <2>4
<1>4. ASSUME \/ SweepSettles \/ SweepAttaches \/ SweepReprojects \/ StopSweep \/ EndSweep
             \/ StorageFault \/ Settle \/ Project \/ ProjectionFails \/ LostClaim \/ MediaGoes
             \/ MediaReturns \/ UNCHANGED vars
      PROVE  jobVars' = jobVars
  BY <1>4 DEF SweepSettles, SweepAttaches, SweepReprojects, StopSweep, EndSweep, StorageFault,
              Settle, Project, ProjectionFails, LostClaim, MediaGoes, MediaReturns, vars
<1>5. ASSUME NEW c \in Clips,
             \/ NeverAsked(c) \/ Refuse(c) \/ Exhausted(c) \/ StoreAnswer(c)
             \/ Take(c) \/ Prepare(c) \/ Admit(c) \/ Send(c) \/ Resolve(c)
      PROVE  jobVars' = jobVars
  BY <1>5 DEF NeverAsked, Refuse, Exhausted, StoreAnswer, Take, Prepare, Admit, Send, Resolve
<1> QED
  BY <1>2, <1>3, <1>4, <1>5 DEF Next, Progress, Environment

-----------------------------------------------------------------------------
\* The books, step by step.

\* Steps outside the ledger and the tasks in flight.
LEMMA BooksStand ==
    ASSUME PaidInv, UNCHANGED <<dispatches, journal, reservation, phase, admitter, Flights>>,
           result' = result \/ phase = "sweeping"
    PROVE  BooksFit' /\ BudgetHolds'
<1>1. Known' = Known /\ LedgerSpent' = LedgerSpent /\ Reported' = Reported
  BY LedgerStands DEF Reported
<1> QED
  BY <1>1 DEF PaidInv, BooksFit, BudgetHolds, AdmitterMatchesLedger, NeverLooked

LEMMA TasksStand ==
    ASSUME PaidInv, UNCHANGED <<dispatches, journal>>,
           \A c \in Clips : task'[c] \in Asking \cup {"sent"} =>
               task'[c] = task[c] /\ ordinal'[c] = ordinal[c] /\ torn' = torn
    PROVE  TasksFit'
<1> SUFFICES ASSUME NEW c \in Clips, task'[c] \in Asking \cup {"sent"}
             PROVE  /\ task'[c] \in {"limiting", "prepared"} => ~Dispatched(<<c, ordinal[c]>>)'
                    /\ task'[c] \in {"prepared"} \cup InFlight => ~torn'
  BY DEF TasksFit
<1>1. task'[c] = task[c] /\ ordinal'[c] = ordinal[c] /\ torn' = torn
  OBVIOUS
<1>2. Dispatched(<<c, ordinal[c]>>)' = Dispatched(<<c, ordinal[c]>>)
  BY <1>1 DEF Dispatched, Has
<1> QED
  BY <1>1, <1>2 DEF PaidInv, TasksFit

\* A pass that is not sweeping has no task that asks.
LEMMA NobodyAsks ==
    ASSUME PaidInv, UNCHANGED <<dispatches, journal>>,
           task' = [c \in Clips |-> "out"]
    PROVE  TasksFit'
BY TasksStand

LEMMA RowsKeepBooks ==
    ASSUME PaidInv,
           \/ Claim \/ DeadLetter \/ Cancel \/ LeaseLapses \/ SourceBusy \/ StopEnds
           \/ StopSettles \/ SweepSettles \/ SweepAttaches \/ SweepReprojects
           \/ MediaGoes \/ MediaReturns \/ StopSweep \/ UNCHANGED vars
    PROVE  BooksFit' /\ BudgetHolds' /\ TasksFit'
<1>1. /\ UNCHANGED <<dispatches, journal, torn, reservation, phase, admitter, task, ordinal>>
      /\ result' = result \/ phase = "sweeping"
  BY DEF Claim, DeadLetter, Cancel, LeaseLapses, SourceBusy, StopEnds, StopSettles,
         SweepSettles, SweepAttaches, SweepReprojects, MediaGoes, MediaReturns, StopSweep, vars
<1>2. Flights' = Flights
  BY <1>1 DEF Flights
<1> QED
  BY <1>1, <1>2, BooksStand, TasksStand

LEMMA BeginsKeepBooks ==
    ASSUME PaidInv, SkipSweep \/ MediaBusy
    PROVE  BooksFit' /\ BudgetHolds' /\ TasksFit'
<1>1. /\ UNCHANGED <<dispatches, journal, torn, reservation, outstanding, task, ordinal>>
      /\ phase = "none" /\ phase' = "ending"
      /\ spent' = LedgerSpent \/ (MediaContended /\ spent' = spent /\ result' = "failed")
  BY DEF SkipSweep, BeginPass, MediaBusy
<1>2. spent = 0 /\ outstanding = 0 /\ LedgerSpent \in Nat
  BY <1>1, BillIs DEF PaidInv, BooksFit
<1>3. Known' = Known /\ LedgerSpent' = LedgerSpent
  BY <1>1, LedgerStands
<1>4. Reported' = spent'
  <2>1. Reported' = spent' + Worth(outstanding')
    BY DEF Reported, Worth
  <2>2. spent' \in Nat
    BY <1>1, <1>2
  <2> QED
    BY <1>1, <1>2, <2>1, <2>2, WorthIs
<1>5. BooksFit' /\ BudgetHolds'
  BY <1>1, <1>2, <1>3, <1>4 DEF PaidInv, BooksFit, BudgetHolds, AdmitterMatchesLedger, NeverLooked
<1> QED
  BY <1>1, <1>5, TasksStand

LEMMA StartKeepsBooks ==
    ASSUME PaidInv, NEW clips \in SUBSET Clips, StartSweep(clips)
    PROVE  BooksFit' /\ BudgetHolds' /\ TasksFit'
<1> DEFINE authorised == Authorised(Cardinality(clips \ cache))
<1>1. /\ UNCHANGED <<dispatches, journal, torn, outstanding, ordinal>>
      /\ phase = "none" /\ spent' = LedgerSpent
  BY DEF StartSweep, BeginPass
<1>2. outstanding = 0 /\ LedgerSpent \in Nat /\ IsFiniteSet(Known)
  BY <1>1, BillIs DEF PaidInv, BooksFit
<1>3. Known' = Known /\ LedgerSpent' = LedgerSpent
  BY <1>1, LedgerStands
<1>4. Reported' = LedgerSpent'
  <2>1. Reported' = spent' + Worth(outstanding')
    BY DEF Reported, Worth
  <2> QED
    BY <1>1, <1>2, <1>3, <2>1, WorthIs
<1>5. CASE phase' = "ending" /\ UNCHANGED <<reservation, task>>
  <2>1. BooksFit' /\ BudgetHolds'
    BY <1>2, <1>3, <1>4, <1>5 DEF PaidInv, BooksFit, BudgetHolds, AdmitterMatchesLedger
  <2> QED
    BY <1>1, <1>5, <2>1, TasksStand
<1>6. CASE /\ phase' = "sweeping" /\ reservation' = authorised /\ remaining' = Restore(authorised)
           /\ task' = [c \in Clips |-> IF c \in clips THEN "queued" ELSE "out"]
  <2>1. authorised \in Nat
    BY PlannedIsTyped DEF PaidInv
  <2>2. LedgerSpent <= authorised
    <3>1. CASE reservation = NoReservation
      <4>1. Bill = {}
        BY <3>1 DEF PaidInv, BudgetHolds, Bill
      <4>2. LedgerSpent = 0
        BY <1>2, <4>1, BillIs, FS_EmptySet, WorthIs DEF PaidInv
      <4> QED
        BY <2>1, <4>2
    <3>2. CASE reservation # NoReservation
      BY <3>2 DEF PaidInv, BudgetHolds, Authorised
    <3> QED
      BY <3>1, <3>2
  <2>3. Restore(authorised) + LedgerSpent = authorised
    BY <1>2, <2>1, <2>2, RestoreIsTyped
  <2>4. Flights' = {} /\ outstanding' = Cardinality(Flights')
    <3>1. \A c \in Clips : task'[c] \notin InFlight
      BY <1>6
    <3>2. Flights' = {}
      BY <3>1 DEF Flights
    <3> QED
      BY <1>1, <1>2, <3>2, FS_EmptySet
  <2>5. BooksFit'
    BY <1>2, <1>3, <1>4, <1>6, <2>4 DEF BooksFit, AdmitterMatchesLedger
  <2>6. BudgetHolds'
    <3>1. reservation' # NoReservation
      BY <1>6, <2>1 DEF NoReservation
    <3> QED
      BY <1>3, <1>6, <2>2, <2>3, <3>1 DEF BudgetHolds
  <2>7. TasksFit'
    BY <1>1, <1>6, TasksStand
  <2> QED
    BY <2>5, <2>6, <2>7
<1> QED
  BY <1>5, <1>6 DEF StartSweep

LEMMA EndsKeepBooks ==
    ASSUME PaidInv, EndSweep \/ StorageFault
    PROVE  BooksFit' /\ BudgetHolds' /\ TasksFit'
<1>1. /\ UNCHANGED <<dispatches, journal, reservation, admitter>>
      /\ phase = "sweeping" /\ phase' = "ending" /\ task' = [c \in Clips |-> "out"]
  BY DEF EndSweep, StorageFault
<1>2. Known' = Known /\ LedgerSpent' = LedgerSpent /\ Reported' = Reported
  BY <1>1, LedgerStands DEF Reported
<1>3. BooksFit' /\ BudgetHolds'
  BY <1>1, <1>2 DEF PaidInv, BooksFit, BudgetHolds, AdmitterMatchesLedger
<1> QED
  BY <1>1, <1>3, NobodyAsks

LEMMA ReportsKeepBooks ==
    ASSUME PaidInv, Settle \/ Project \/ ProjectionFails
    PROVE  BooksFit' /\ BudgetHolds' /\ TasksFit'
<1>1. /\ UNCHANGED <<dispatches, journal, torn, reservation, admitter, task, ordinal>>
      /\ phase \in {"ending", "projecting"} /\ phase' \in {"ending", "projecting", "projected"}
      /\ result' \in {result, "failed"}
  BY DEF Settle, Project, ProjectionFails
<1>2. Known' = Known /\ LedgerSpent' = LedgerSpent /\ Reported' = Reported
  BY <1>1, LedgerStands DEF Reported
<1>3. BooksFit' /\ BudgetHolds'
  BY <1>1, <1>2 DEF PaidInv, BooksFit, BudgetHolds, AdmitterMatchesLedger, NeverLooked
<1> QED
  BY <1>1, <1>3, TasksStand

LEMMA ForgettingKeepsBooks ==
    ASSUME PaidInv, EndJob \/ LostClaim \/ Crash
    PROVE  BooksFit' /\ BudgetHolds' /\ TasksFit'
<1>1. /\ UNCHANGED <<dispatches, journal, reservation>>
      /\ phase' = "none" /\ spent' = 0 /\ outstanding' = 0 /\ task' = [c \in Clips |-> "out"]
  BY DEF EndJob, LostClaim, Crash, Forget
<1>2. Known' = Known /\ LedgerSpent' = LedgerSpent
  BY <1>1, LedgerStands
<1>3. BooksFit' /\ BudgetHolds'
  BY <1>1, <1>2 DEF PaidInv, BooksFit, BudgetHolds, AdmitterMatchesLedger
<1> QED
  BY <1>1, <1>3, NobodyAsks

LEMMA TaskEndKeepsBooks ==
    ASSUME PaidInv, NEW c \in Clips,
           NeverAsked(c) \/ Refuse(c) \/ Exhausted(c) \/ StoreAnswer(c)
           \/ (Prepare(c) /\ halted)
    PROVE  BooksFit' /\ BudgetHolds' /\ TasksFit'
<1>1. /\ UNCHANGED <<dispatches, journal, torn, reservation, phase, admitter, ordinal>>
      /\ phase = "sweeping"
      /\ task' = [task EXCEPT ![c] = "done"] /\ task[c] \notin InFlight
  BY DEF NeverAsked, Refuse, Exhausted, StoreAnswer, Prepare
<1>2. task \in [Clips -> Steps]
  BY DEF PaidInv, TypeOK
<1>3. Flights' = Flights
  BY <1>1, <1>2 DEF Flights
<1> QED
  BY <1>1, <1>2, <1>3, BooksStand, TasksStand

\* What is dispatched is known, and what is not known is not dispatched.
LEMMA DispatchedIsKnown ==
    ASSUME NEW a \in Clips \X Nat, Dispatched(a)
    PROVE  a \in Known
<1>1. CASE a \in dispatches
  BY <1>1 DEF Known
<1>2. ASSUME NEW e \in Events, Has(a, e) PROVE a \in Known
  <2>1. <<a[1], a[2], e>> \in journal
    BY <1>2 DEF Has
  <2>2. <<a[1], a[2]>> \in AttemptsOf(journal)
    BY <2>1 DEF AttemptsOf
  <2> QED
    BY <2>2 DEF Known
<1> QED
  BY <1>1, <1>2 DEF Dispatched

LEMMA TakeKeepsBooks ==
    ASSUME PaidInv, NEW c \in Clips, Take(c)
    PROVE  BooksFit' /\ BudgetHolds' /\ TasksFit'
<1>1. /\ UNCHANGED <<dispatches, journal, torn, reservation, phase, admitter>>
      /\ phase = "sweeping"
      /\ task[c] = "queued" /\ task' = [task EXCEPT ![c] = task'[c]]
      /\ task'[c] \in {"limiting", "done"}
      /\ task'[c] = "limiting" => MaySend(c) /\ ordinal' = [ordinal EXCEPT ![c] = NextOrdinal(c)]
      /\ task'[c] = "done" => ordinal' = ordinal
  BY DEF Take, PaidInv, TypeOK
<1>2. task \in [Clips -> Steps] /\ ordinal \in [Clips -> Nat]
  BY DEF PaidInv, TypeOK
<1>3. Flights' = Flights
  BY <1>1, <1>2 DEF Flights
<1>4. CASE task'[c] = "done"
  BY <1>1, <1>2, <1>3, <1>4, BooksStand, TasksStand
<1>5. CASE task'[c] = "limiting"
  <2>1. NextOrdinal(c) \in Nat /\ \A a \in Known : a[1] = c => a[2] < NextOrdinal(c)
    BY <1>1, <1>5, MaySendIsSafe DEF PaidInv
  <2>2. PICK k \in Nat : k = NextOrdinal(c)
    BY <2>1
  <2>3. <<c, k>> \notin Known
    BY <2>1, <2>2
  <2>4. ~Dispatched(<<c, k>>)
    BY <2>3, DispatchedIsKnown
  <2>5. ordinal' = [ordinal EXCEPT ![c] = k]
    BY <1>1, <1>5, <2>2
  <2>6. TasksFit'
    <3> SUFFICES ASSUME NEW d \in Clips
                 PROVE  /\ task'[d] \in {"limiting", "prepared"} =>
                               ~Dispatched(<<d, ordinal[d]>>)'
                        /\ task'[d] \in {"prepared"} \cup InFlight => ~torn'
      BY DEF TasksFit
    <3>1. CASE d = c
      <4>1. ordinal'[d] = k
        BY <1>2, <2>5, <3>1
      <4>2. Dispatched(<<d, ordinal[d]>>)' = Dispatched(<<c, k>>)
        BY <1>1, <3>1, <4>1 DEF Dispatched, Has
      <4> QED
        BY <1>5, <2>4, <3>1, <4>2
    <3>2. CASE d # c
      <4>1. task'[d] = task[d] /\ ordinal'[d] = ordinal[d]
        BY <1>1, <1>2, <2>5, <3>2
      <4>2. Dispatched(<<d, ordinal[d]>>)' = Dispatched(<<d, ordinal[d]>>)
        BY <1>1, <4>1 DEF Dispatched, Has
      <4> QED
        BY <1>1, <4>1, <4>2 DEF PaidInv, TasksFit
    <3> QED
      BY <3>1, <3>2
  <2> QED
    BY <1>1, <1>3, <2>6, BooksStand
<1> QED
  BY <1>1, <1>4, <1>5

\* What an append to a whole journal says.
LEMMA AppendIs ==
    ASSUME NEW c \in Clips, NEW event \in Events, Append(c, event), ~torn,
           NEW a \in Clips \X Nat, NEW e \in Events
    PROVE  Has(a, e)' <=> Has(a, e) \/ (a = <<c, ordinal[c]>> /\ e = event)
BY DEF Append, Has

\* An append adds at most the attempt of its task.
LEMMA AppendKnows ==
    ASSUME ChargeInv, NEW c \in Clips, NEW event \in Events, Append(c, event),
           dispatches' = dispatches
    PROVE  /\ Known \subseteq Known' /\ Known' \subseteq Known \cup {<<c, ordinal[c]>>}
           /\ Known' \subseteq Clips \X Nat /\ <<c, ordinal[c]>> \in Clips \X Nat
BY DEF Append, Known, AttemptsOf, ChargeInv, ChargeTypes

\* Where the bill stays as it is, so does what the ledger says.
LEMMA BillStands ==
    ASSUME Bill' = Bill
    PROVE  LedgerSpent' = LedgerSpent
BY DEF LedgerSpent, SpentOn, Bill

\* The task of one clip steps, the others stand: what they rest on is theirs.
LEMMA OthersStand ==
    ASSUME PaidInv, NEW c \in Clips, dispatches' \subseteq dispatches \cup {<<c, ordinal[c]>>},
           \A d \in Clips \ {c}, e \in Events :
               Has(<<d, ordinal[d]>>, e)' => Has(<<d, ordinal[d]>>, e),
           \A d \in Clips \ {c} : task'[d] = task[d] /\ ordinal'[d] = ordinal[d],
           torn' = FALSE,
           task'[c] \in {"limiting", "prepared"} => ~Dispatched(<<c, ordinal[c]>>)'
    PROVE  TasksFit'
<1> SUFFICES ASSUME NEW d \in Clips \ {c}, task'[d] \in {"limiting", "prepared"},
                    Dispatched(<<d, ordinal[d]>>)'
             PROVE  FALSE
  BY DEF TasksFit
<1>1. task[d] \in {"limiting", "prepared"} /\ ordinal'[d] = ordinal[d]
  OBVIOUS
<1>2. ~Dispatched(<<d, ordinal[d]>>)
  BY <1>1 DEF PaidInv, TasksFit
<1>3. \/ <<d, ordinal[d]>> \in dispatches'
      \/ \E e \in Events \ {"prepared"} : Has(<<d, ordinal[d]>>, e)'
  BY <1>1 DEF Dispatched, Has
<1>4. <<d, ordinal[d]>> \notin dispatches'
  BY <1>2 DEF Dispatched
<1> QED
  BY <1>2, <1>3, <1>4 DEF Dispatched

LEMMA BillIsTheSame ==
    ASSUME ChargeInv, NEW b \in Clips \X Nat, Known \subseteq Known',
           Known' \subseteq Known \cup {b}, b \in Known \/ ~Billed(b)',
           \A a \in Clips \X Nat : Billed(a)' <=> Billed(a)
    PROVE  Bill' = Bill
<1>1. Known \subseteq Clips \X Nat
  BY DEF ChargeInv, ChargeTypes, Known, AttemptsOf
<1>2. \A a : a \in Bill' <=> a \in Known' /\ Billed(a)'
  BY DEF Bill
<1>3. \A a : a \in Bill <=> a \in Known /\ Billed(a)
  BY DEF Bill
<1> QED
  BY <1>1, <1>2, <1>3

LEMMA PrepareKeepsBooks ==
    ASSUME PaidInv, NEW c \in Clips, Prepare(c), ~halted
    PROVE  BooksFit' /\ BudgetHolds' /\ TasksFit'
<1> DEFINE b == <<c, ordinal[c]>>
<1>1. /\ UNCHANGED <<dispatches, reservation, phase, admitter, ordinal>>
      /\ task[c] = "limiting" /\ task' = [task EXCEPT ![c] = "prepared"]
      /\ Append(c, "prepared") /\ phase = "sweeping"
  BY DEF Prepare
<1>2. task \in [Clips -> Steps] /\ ordinal \in [Clips -> Nat] /\ b \in Clips \X Nat
  BY DEF PaidInv, TypeOK
<1>3. \A a \in Clips \X Nat, e \in Events \ {"prepared"} : Has(a, e)' <=> Has(a, e)
  BY <1>1 DEF Append, Has
<1>4. \A a \in Clips \X Nat : Dispatched(a)' <=> Dispatched(a)
  BY <1>1, <1>3 DEF Dispatched
<1>5. \A a \in Clips \X Nat : Billed(a)' <=> Billed(a)
  BY <1>3, <1>4 DEF Billed
<1>6. ~Dispatched(b) /\ ~Dispatched(b)'
  <2>1. ~Dispatched(b)
    BY <1>1 DEF PaidInv, TasksFit
  <2>2. PICK a \in Clips \X Nat : a = b
    BY <1>2
  <2>3. ~Dispatched(a)'
    BY <1>4, <2>1, <2>2
  <2> QED
    BY <1>1, <2>1, <2>2, <2>3 DEF Dispatched, Has
<1>7. /\ Known \subseteq Known' /\ Known' \subseteq Known \cup {b}
  BY <1>1, AppendKnows DEF PaidInv
<1>8. Bill' = Bill
  <2>1. PICK a \in Clips \X Nat : a = b
    BY <1>2
  <2>2. Known' \subseteq Known \cup {a} /\ ~Billed(a)'
    <3>1. ~Dispatched(a)'
      BY <1>4, <1>6, <2>1
    <3> QED
      BY <1>7, <2>1, <3>1 DEF Billed
  <2> QED
    BY <1>5, <1>7, <2>2, BillIsTheSame DEF PaidInv
<1>9. LedgerSpent' = LedgerSpent
  BY <1>8, BillStands
<1>10. Flights' = Flights /\ Reported' = Reported
  BY <1>1, <1>2 DEF Flights, Reported
<1>11. IsFiniteSet(Known')
  <2>1. IsFiniteSet(Known \cup {b})
    BY FS_AddElement DEF PaidInv, BooksFit
  <2> QED
    BY <1>7, <2>1, FS_Subset
<1>12. BooksFit' /\ BudgetHolds'
  BY <1>1, <1>9, <1>10, <1>11 DEF PaidInv, BooksFit, BudgetHolds, AdmitterMatchesLedger
<1>13. TasksFit'
  <2>1. \A d \in Clips \ {c}, e \in Events : Has(<<d, ordinal[d]>>, e)' => Has(<<d, ordinal[d]>>, e)
    BY <1>1, <1>2 DEF Append, Has
  <2>2. /\ \A d \in Clips \ {c} : task'[d] = task[d] /\ ordinal'[d] = ordinal[d]
        /\ torn' = FALSE /\ dispatches' \subseteq dispatches \cup {b}
    BY <1>1, <1>2 DEF Append
  <2> QED
    BY <1>6, <2>1, <2>2, OthersStand
<1> QED
  BY <1>12, <1>13

LEMMA AdmitKeepsBooks ==
    ASSUME PaidInv, NEW c \in Clips, Admit(c)
    PROVE  BooksFit' /\ BudgetHolds' /\ TasksFit'
<1> DEFINE b == <<c, ordinal[c]>>
<1>1. /\ UNCHANGED <<journal, torn, reservation, phase, spent, ordinal>>
      /\ task[c] = "prepared" /\ task' = [task EXCEPT ![c] = "admitted"] /\ phase = "sweeping"
      /\ dispatches' = dispatches \cup {b} /\ b \notin dispatches
      /\ remaining' = remaining - Unit /\ outstanding' = outstanding + 1
  BY DEF Admit, Admissible
<1>2. /\ task \in [Clips -> Steps] /\ ordinal \in [Clips -> Nat] /\ b \in Clips \X Nat
      /\ remaining \in Nat /\ spent \in Nat /\ outstanding \in Nat /\ Unit \in Nat
  BY AmountsAssumption DEF PaidInv, TypeOK
<1>3. Known' = Known \cup {b}
  BY <1>1 DEF Known, AttemptsOf
<1>4. \A a \in Clips \X Nat : Billed(a)' <=> (Billed(a) \/ (a = b /\ ~Has(b, "free") /\ ~Has(b, "refused")))
  BY <1>1 DEF Billed, Dispatched, Has
<1>5. ~Billed(b) /\ ~Has(b, "free") /\ ~Has(b, "refused")
  BY <1>1 DEF PaidInv, TasksFit, Billed, Dispatched
<1>6. Bill' = Bill \cup {b} /\ b \notin Bill
  <2>1. Known \subseteq Clips \X Nat
    BY DEF PaidInv, ChargeInv, ChargeTypes, Known, AttemptsOf
  <2>2. \A a : a \in Bill' <=> a \in Known' /\ Billed(a)'
    BY DEF Bill
  <2>3. \A a : a \in Bill <=> a \in Known /\ Billed(a)
    BY DEF Bill
  <2>4. b \in Bill'
    <3>1. PICK a \in Clips \X Nat : a = b
      BY <1>2
    <3>2. Billed(a)'
      BY <1>4, <1>5, <3>1
    <3> QED
      BY <1>3, <2>2, <3>1, <3>2
  <2>5. \A a : a # b => (a \in Bill' <=> a \in Bill)
    BY <1>3, <1>4, <2>1, <2>2, <2>3
  <2>6. b \notin Bill
    BY <1>5, <2>3
  <2> QED
    BY <2>4, <2>5, <2>6
<1>7. LedgerSpent' = LedgerSpent + Unit
  <2>1. Cardinality(Bill') = Cardinality(Bill) + 1 /\ Cardinality(Bill) \in Nat
    BY <1>6, BillIs, FS_AddElement DEF PaidInv, BooksFit
  <2>2. LedgerSpent' = Worth(Cardinality(Bill'))
    BY DEF LedgerSpent, SpentOn, Bill, Worth
  <2>3. LedgerSpent = Worth(Cardinality(Bill))
    BY BillIs DEF PaidInv, BooksFit
  <2> QED
    BY <2>1, <2>2, <2>3, WorthIs
<1>8. Reported' = Reported + Unit
  <2>1. Reported' = spent + Worth(outstanding + 1) /\ Reported = spent + Worth(outstanding)
    BY <1>1 DEF Reported, Worth
  <2> QED
    BY <1>2, <2>1, WorthIs
<1>9. Cardinality(Flights') = Cardinality(Flights) + 1
  <2>1. Flights' = Flights \cup {c} /\ c \notin Flights
    BY <1>1, <1>2 DEF Flights
  <2> QED
    BY <2>1, FlightsAreCounted, FS_AddElement
<1>10. IsFiniteSet(Known')
  BY <1>3, FS_AddElement DEF PaidInv, BooksFit
<1>11. BooksFit'
  BY <1>1, <1>7, <1>8, <1>9, <1>10 DEF PaidInv, BooksFit, AdmitterMatchesLedger
<1>12. LedgerSpent \in Nat /\ Unit <= remaining
  BY BillIs DEF PaidInv, BooksFit, Admit
<1>13. BudgetHolds'
  BY <1>1, <1>2, <1>7, <1>12 DEF PaidInv, BudgetHolds, NoReservation, TypeOK
<1>14. TasksFit'
  <2>1. \A d \in Clips \ {c}, e \in Events : Has(<<d, ordinal[d]>>, e)' => Has(<<d, ordinal[d]>>, e)
    BY <1>1 DEF Has
  <2>2. \A d \in Clips \ {c} : task'[d] = task[d] /\ ordinal'[d] = ordinal[d]
    BY <1>1, <1>2
  <2>3. torn' = FALSE
    BY <1>1 DEF PaidInv, TasksFit, TypeOK
  <2>4. task'[c] = "admitted"
    BY <1>1, <1>2
  <2> QED
    BY <1>1, <2>1, <2>2, <2>3, <2>4, OthersStand
<1> QED
  BY <1>11, <1>13, <1>14

LEMMA SendKeepsBooks ==
    ASSUME PaidInv, NEW c \in Clips, Send(c)
    PROVE  BooksFit' /\ BudgetHolds' /\ TasksFit'
<1> DEFINE b == <<c, ordinal[c]>>
<1>1. /\ UNCHANGED <<dispatches, reservation, phase, admitter, ordinal>>
      /\ task[c] = "admitted" /\ task' = [task EXCEPT ![c] = "sent"] /\ phase = "sweeping"
      /\ Append(c, "dispatched")
  BY DEF Send
<1>2. /\ task \in [Clips -> Steps] /\ ordinal \in [Clips -> Nat] /\ b \in Clips \X Nat
      /\ b \in dispatches /\ ~torn
  BY <1>1 DEF PaidInv, TypeOK, ChargeInv, TasksAreAhead, TasksFit
<1>3. \A a \in Clips \X Nat, e \in Events :
          Has(a, e)' <=> Has(a, e) \/ (a = b /\ e = "dispatched")
  BY <1>1, <1>2, AppendIs
<1>4. \A a \in Clips \X Nat : Dispatched(a)' <=> Dispatched(a)
  <2>1. \A a \in Clips \X Nat : a # b => (Dispatched(a)' <=> Dispatched(a))
    BY <1>1, <1>3 DEF Dispatched
  <2>2. \A a : a = b => Dispatched(a) /\ Dispatched(a)'
    BY <1>1, <1>2 DEF Dispatched
  <2> QED
    BY <2>1, <2>2
<1>5. \A a \in Clips \X Nat : Billed(a)' <=> Billed(a)
  BY <1>3, <1>4 DEF Billed
<1>6. /\ Known \subseteq Known' /\ Known' \subseteq Known \cup {b} /\ b \in Known
  BY <1>1, <1>2, AppendKnows DEF PaidInv, Known
<1>7. Bill' = Bill
  <2>1. PICK a \in Clips \X Nat : a = b
    BY <1>2
  <2> QED
    BY <1>5, <1>6, <2>1, BillIsTheSame DEF PaidInv
<1>8. LedgerSpent' = LedgerSpent
  BY <1>7, BillStands
<1>9. Flights' = Flights /\ Reported' = Reported
  BY <1>1, <1>2 DEF Flights, Reported
<1>10. Known' = Known
  BY <1>6
<1>11. BooksFit' /\ BudgetHolds'
  BY <1>1, <1>8, <1>9, <1>10 DEF PaidInv, BooksFit, BudgetHolds, AdmitterMatchesLedger
<1>12. TasksFit'
  <2>1. \A d \in Clips \ {c}, e \in Events : Has(<<d, ordinal[d]>>, e)' => Has(<<d, ordinal[d]>>, e)
    BY <1>1, <1>2 DEF Append, Has
  <2>2. /\ \A d \in Clips \ {c} : task'[d] = task[d] /\ ordinal'[d] = ordinal[d]
        /\ torn' = FALSE /\ dispatches' \subseteq dispatches \cup {b} /\ task'[c] = "sent"
    BY <1>1, <1>2 DEF Append
  <2> QED
    BY <2>1, <2>2, OthersStand
<1> QED
  BY <1>11, <1>12

\* The outcome moves a unit from outstanding to spent, or gives it back and takes it off the bill.
LEMMA ResolveKeepsBooks ==
    ASSUME PaidInv, NEW c \in Clips, Resolve(c)
    PROVE  BooksFit' /\ BudgetHolds' /\ TasksFit'
<1> DEFINE b == <<c, ordinal[c]>>
           o == reply[c]
<1>1. /\ UNCHANGED <<dispatches, reservation, phase>> /\ phase = "sweeping"
      /\ task[c] = "sent" /\ task' = [task EXCEPT ![c] = task'[c]]
      /\ task'[c] \in {"answered", "limiting", "done"}
      /\ Append(c, o) /\ outstanding' = outstanding - 1
      /\ ordinal' = [ordinal EXCEPT ![c] = ordinal'[c]]
      /\ task'[c] = "limiting" => ordinal'[c] = ordinal[c] + 1
  BY DEF Resolve, PaidInv, TypeOK
<1>2. /\ task \in [Clips -> Steps] /\ ordinal \in [Clips -> Nat] /\ b \in Clips \X Nat
      /\ b \in dispatches /\ ~torn /\ o \in Outcomes /\ o \in Events /\ Open(c, ordinal[c])
      /\ remaining \in Nat /\ spent \in Nat /\ outstanding \in Nat /\ Unit \in Nat
  BY <1>1, AmountsAssumption DEF PaidInv, TypeOK, ChargeInv, TasksAreAhead, TasksFit
<1>3. \A a \in Clips \X Nat, e \in Events : Has(a, e)' <=> Has(a, e) \/ (a = b /\ e = o)
  BY <1>1, <1>2, AppendIs
<1>4. \A a \in Clips \X Nat : Dispatched(a)' <=> Dispatched(a)
  <2>1. \A a \in Clips \X Nat : a # b => (Dispatched(a)' <=> Dispatched(a))
    BY <1>1, <1>3 DEF Dispatched
  <2>2. \A a : a = b => Dispatched(a) /\ Dispatched(a)'
    BY <1>1, <1>2 DEF Dispatched
  <2> QED
    BY <2>1, <2>2
<1>5. /\ Known \subseteq Known' /\ Known' \subseteq Known \cup {b} /\ b \in Known
  BY <1>1, <1>2, AppendKnows DEF PaidInv, Known
<1>6. Known' = Known
  BY <1>5
<1>7. outstanding # 0 /\ Cardinality(Flights') = Cardinality(Flights) - 1
  <2>1. Flights' = Flights \ {c} /\ c \in Flights
    BY <1>1, <1>2 DEF Flights
  <2>2. Cardinality(Flights) # 0
    BY <2>1, FlightsAreCounted, FS_EmptySet
  <2> QED
    BY <1>1, <2>1, <2>2, FlightsAreCounted, FS_RemoveElement DEF PaidInv, BooksFit
<1>8. Reported' = spent' + Worth(outstanding - 1) /\ Reported = spent + Worth(outstanding - 1) + Unit
      /\ Worth(outstanding - 1) \in Nat
  <2>1. Reported' = spent' + Worth(outstanding') /\ Reported = spent + Worth(outstanding)
    BY DEF Reported, Worth
  <2>2. outstanding - 1 \in Nat /\ Worth(outstanding) = Worth(outstanding - 1) + Unit
    BY <1>2, <1>7, WorthIs
  <2> QED
    BY <1>1, <1>2, <2>1, <2>2, WorthIs
<1>9. LedgerSpent \in Nat
  BY BillIs DEF PaidInv, BooksFit
<1>10. ASSUME o \in {"answer", "billed"} PROVE BooksFit' /\ BudgetHolds'
  <2>1. \A a \in Clips \X Nat : Billed(a)' <=> Billed(a)
    BY <1>3, <1>4, <1>10 DEF Billed
  <2>2. Bill' = Bill
    <3>1. PICK a \in Clips \X Nat : a = b
      BY <1>2
    <3> QED
      BY <1>5, <2>1, <3>1, BillIsTheSame DEF PaidInv
  <2>3. LedgerSpent' = LedgerSpent
    BY <2>2, BillStands
  <2>4. spent' = spent + Unit /\ remaining' = remaining
    BY <1>10 DEF Resolve
  <2>5. Reported' = Reported
    BY <1>2, <1>8, <2>4
  <2> QED
    BY <1>1, <1>6, <1>7, <2>3, <2>4, <2>5
       DEF PaidInv, BooksFit, BudgetHolds, AdmitterMatchesLedger
<1>11. ASSUME o \in {"free", "refused"} PROVE BooksFit' /\ BudgetHolds'
  <2>1. Bill' = Bill \ {b} /\ b \in Bill
    <3>1. Known \subseteq Clips \X Nat
      BY DEF PaidInv, ChargeInv, ChargeTypes, Known, AttemptsOf
    <3>2. \A a : a \in Bill' <=> a \in Known' /\ Billed(a)'
      BY DEF Bill
    <3>3. \A a : a \in Bill <=> a \in Known /\ Billed(a)
      BY DEF Bill
    <3>4. \A a \in Clips \X Nat : a # b => (Billed(a)' <=> Billed(a))
      BY <1>3, <1>4 DEF Billed
    <3>5. \A a \in Clips \X Nat : a = b => ~Billed(a)'
      BY <1>3, <1>11 DEF Billed
    <3>6. Billed(b)
      BY <1>2 DEF Billed, Dispatched, Open, Has
    <3>7. b \notin Bill'
      BY <1>2, <3>2, <3>5
    <3>8. \A a : a # b => (a \in Bill' <=> a \in Bill)
      BY <1>6, <3>1, <3>2, <3>3, <3>4
    <3> QED
      BY <1>5, <3>3, <3>6, <3>7, <3>8
  <2>2. LedgerSpent' = LedgerSpent - Unit
    <3>1. /\ Cardinality(Bill') = Cardinality(Bill) - 1 /\ Cardinality(Bill) \in Nat
          /\ Cardinality(Bill) # 0
      BY <2>1, BillIs, FS_RemoveElement, FS_EmptySet DEF PaidInv, BooksFit
    <3>2. LedgerSpent' = Worth(Cardinality(Bill'))
      BY DEF LedgerSpent, SpentOn, Bill, Worth
    <3>3. LedgerSpent = Worth(Cardinality(Bill))
      BY BillIs DEF PaidInv, BooksFit
    <3>4. LedgerSpent = Worth(Cardinality(Bill) - 1) + Unit /\ Worth(Cardinality(Bill) - 1) \in Nat
      <4>1. Cardinality(Bill) - 1 \in Nat
        BY <3>1
      <4> QED
        BY <3>1, <3>3, <4>1, WorthIs
    <3> QED
      BY <1>2, <3>1, <3>2, <3>4
  <2>3. spent' = spent /\ remaining' = remaining + Unit
    BY <1>11 DEF Resolve
  <2>4. Reported' = Reported - Unit
    BY <1>2, <1>8, <2>3
  <2>5. BooksFit'
    BY <1>1, <1>6, <1>7, <2>2, <2>4 DEF PaidInv, BooksFit, AdmitterMatchesLedger
  <2>6. BudgetHolds'
    BY <1>1, <1>2, <1>9, <2>2, <2>3 DEF PaidInv, BudgetHolds, NoReservation, TypeOK
  <2> QED
    BY <2>5, <2>6
<1>12. TasksFit'
  <2>1. \A d \in Clips \ {c}, e \in Events : Has(<<d, ordinal[d]>>, e)' => Has(<<d, ordinal[d]>>, e)
    BY <1>1, <1>2 DEF Append, Has
  <2>2. /\ \A d \in Clips \ {c} : task'[d] = task[d] /\ ordinal'[d] = ordinal[d]
        /\ torn' = FALSE /\ dispatches' \subseteq dispatches \cup {b}
    BY <1>1, <1>2 DEF Append
  <2>3. ASSUME task'[c] = "limiting" PROVE ~Dispatched(<<c, ordinal[c]>>)'
    <3>1. PICK k \in Nat : k = ordinal[c] + 1
      BY <1>2
    <3>2. ordinal'[c] = k /\ <<c, k>> # b
      BY <1>1, <1>2, <2>3, <3>1
    <3>3. <<c, k>> \notin Known
      BY <1>1, <1>2, <3>1 DEF PaidInv, ChargeInv, TasksAreAhead
    <3>4. ~Dispatched(<<c, k>>)
      BY <3>3, DispatchedIsKnown
    <3>5. PICK a \in Clips \X Nat : a = <<c, k>>
      BY <3>1
    <3>6. ~Dispatched(a)'
      BY <1>4, <3>4, <3>5
    <3> QED
      BY <3>2, <3>5, <3>6 DEF Dispatched, Has
  <2> QED
    BY <1>1, <2>1, <2>2, <2>3, OthersStand
<1> QED
  BY <1>2, <1>10, <1>11, <1>12

LEMMA StepPays ==
    ASSUME PaidInv, [Next]_vars
    PROVE  PaidInv'
<1>1. ChargeInv' /\ TypeOK' /\ JobFits' /\ RowLeads'
  BY StepCharges, StepTypes, StepJobFits, StepSettles DEF PaidInv, Settles
<1>2. BooksFit' /\ BudgetHolds' /\ TasksFit'
  <2>1. CASE \/ Claim \/ DeadLetter \/ Cancel \/ LeaseLapses \/ SourceBusy \/ StopEnds
             \/ StopSettles \/ SweepSettles \/ SweepAttaches \/ SweepReprojects
             \/ MediaGoes \/ MediaReturns \/ StopSweep \/ UNCHANGED vars
    BY <2>1, RowsKeepBooks
  <2>2. CASE SkipSweep \/ MediaBusy \/ \E clips \in SUBSET Clips : StartSweep(clips)
    BY <2>2, BeginsKeepBooks, StartKeepsBooks
  <2>3. CASE EndSweep \/ StorageFault \/ Settle \/ Project \/ ProjectionFails
    BY <2>3, EndsKeepBooks, ReportsKeepBooks
  <2>4. CASE EndJob \/ LostClaim \/ Crash
    BY <2>4, ForgettingKeepsBooks
  <2>5. CASE \E c \in Clips : \/ NeverAsked(c) \/ Refuse(c) \/ Exhausted(c) \/ StoreAnswer(c)
                              \/ Prepare(c) \/ Take(c)
    BY <2>5, TaskEndKeepsBooks, PrepareKeepsBooks, TakeKeepsBooks
  <2>6. CASE \E c \in Clips : Admit(c) \/ Send(c) \/ Resolve(c)
    BY <2>6, AdmitKeepsBooks, SendKeepsBooks, ResolveKeepsBooks
  <2> QED
    BY <2>1, <2>2, <2>3, <2>4, <2>5, <2>6 DEF Next, Progress, Environment
<1> QED
  BY <1>1, <1>2 DEF PaidInv

LEMMA InitPays == Init => PaidInv
<1> SUFFICES ASSUME Init PROVE PaidInv
  OBVIOUS
<1>1. Known = {} /\ IsFiniteSet(Known)
  BY FS_EmptySet DEF Init, Known, AttemptsOf
<1>2. ChargeInv
  BY InitCharges
<1>3. TypeOK
  <2>1. [c \in Clips |-> 0] \in [Clips -> 0..MaxRetries]
    BY LimitsAssumption
  <2>2. 0 \in 0..MaxAttempts
    BY LimitsAssumption
  <2>3. /\ retries \in [Clips -> 0..MaxRetries] /\ attempt \in 0..MaxAttempts
    BY <2>1, <2>2 DEF Init, NoPass
  <2>4. /\ entry \in [status : {"none"} \cup Statuses, spent : Nat]
        /\ line \in [status : {"none"} \cup Statuses, spent : Nat]
        /\ row \in [status : {"none"} \cup Statuses, spent : Nat, located : BOOLEAN]
    BY DEF Init, NoPass, NoLine, NoRow
  <2>5. /\ dispatches \subseteq Clips \X Nat /\ journal \subseteq Clips \X Nat \X Events
        /\ task \in [Clips -> Steps] /\ ordinal \in [Clips -> Nat]
        /\ reply \in [Clips -> Outcomes] /\ charged \subseteq Clips \X Nat
    BY <1>2 DEF ChargeInv, ChargeTypes
  <2> QED
    BY <2>3, <2>4, <2>5 DEF Init, NoPass, TypeOK, Statuses, Phases
<1>4. RowLeads
  BY DEF Init, NoPass, RowLeads, NoLine, NoRow
<1> QED
  BY <1>1, <1>2, <1>3, <1>4
     DEF Init, NoPass, PaidInv, JobFits, BooksFit, TasksFit, BudgetHolds, AdmitterMatchesLedger

\* The invariant of the books: types; a job that is held is waiting; admitter, ledger and
\* reservation are one account during a sweep; a settlement leads its projections.
THEOREM BooksAreKept == Spec => []PaidInv
BY InitPays, StepPays, PTL DEF Spec

\* Type correctness, for any clips, prices and limits: no count goes below zero, no retry and
\* no claim past its limit.
THEOREM PaidTypes == Spec => []TypeOK
<1>1. PaidInv => TypeOK
  BY DEF PaidInv
<1> QED
  BY <1>1, BooksAreKept, PTL

\* During a sweep the admitter's books and the fold of the durable events are the same account,
\* however many tasks are in flight and whatever earlier passes left behind.
THEOREM BooksAgree == Spec => []AdmitterMatchesLedger
<1>1. PaidInv => AdmitterMatchesLedger
  BY DEF PaidInv, BooksFit
<1> QED
  BY <1>1, BooksAreKept, PTL

LEMMA StepCovers ==
    ASSUME PaidInv, [Next]_vars, row' # row
    PROVE  /\ row'.spent >= Truth' \/ (phase = "ending" /\ NeverLooked /\ row'.spent = row.spent)
           /\ row'.spent \in Nat /\ Truth' \in Nat
<1>1. Settles
  BY StepSettles
<1>2. Truth' = Truth
  BY <1>1 DEF Settles, Truth
<1>3. Truth \in Nat
  BY BillIs DEF PaidInv, BooksFit
<1> QED
  BY <1>1, <1>2, <1>3 DEF Settles

\* Unless somebody else holds the media lock when a pass begins, every settlement that is
\* written covers what the provider has charged by then.
THEOREM ChargesAreSettled == ~MediaContended /\ Spec => SettlementCoversCharges
<1> SUFFICES ASSUME ~MediaContended PROVE Spec => SettlementCoversCharges
  OBVIOUS
<1>1. ASSUME PaidInv, [Next]_vars PROVE [row' # row => row'.spent >= Truth']_vars
  BY <1>1, StepCovers DEF NeverLooked
<1> QED
  BY <1>1, BooksAreKept, PTL DEF Spec, SettlementCoversCharges

\* Whoever holds the media: a settlement that reports less than was charged is written by a
\* pass that failed before it looked at the run's money, and it lowers no earlier report.
UnderReportsAreBlind ==
    [][row' # row /\ row'.spent < Truth' =>
           phase = "ending" /\ Reported = 0 /\ result = "failed" /\ row'.spent = row.spent]_vars

\* What is left of SettlementCoversCharges when the media lock may be taken: every other pass,
\* the worker that stops a job and both sweeps cover the charges.
THEOREM OnlyTheBlindUnderReport == Spec => UnderReportsAreBlind
<1>1. ASSUME PaidInv, [Next]_vars
      PROVE  [row' # row /\ row'.spent < Truth' =>
                  phase = "ending" /\ Reported = 0 /\ result = "failed" /\ row'.spent = row.spent]_vars
  <2>1. row' # row => row'.spent >= Truth' \/ (phase = "ending" /\ NeverLooked /\ row'.spent = row.spent)
    BY <1>1, StepCovers
  <2>2. row' # row => row'.spent \in Nat /\ Truth' \in Nat
    BY <1>1, StepCovers
  <2> QED
    BY <2>1, <2>2 DEF NeverLooked
<1> QED
  BY <1>1, BooksAreKept, PTL DEF Spec, UnderReportsAreBlind

\* Once the job was asked to stop or has ended, no request is admitted any more.
THEOREM StopsAreFinal == Spec => NothingAdmittedAfterStop
<1>1. ASSUME PaidInv, [Next]_vars
      PROVE  [cancel_requested \/ jobState \in Statuses => dispatches' = dispatches]_vars
  <2>1. ASSUME NEW c \in Clips, Admit(c) PROVE ~(cancel_requested \/ jobState \in Statuses)
    BY <1>1, <2>1 DEF Admit, Admissible, PaidInv, JobFits, Statuses
  <2>2. ASSUME NEW c \in Clips,
               \/ NeverAsked(c) \/ Refuse(c) \/ Exhausted(c) \/ StoreAnswer(c)
               \/ Take(c) \/ Prepare(c) \/ Send(c) \/ Resolve(c)
        PROVE  dispatches' = dispatches
    BY <2>2 DEF NeverAsked, Refuse, Exhausted, StoreAnswer, Take, Prepare, Send, Resolve
  <2>3. ASSUME \/ Claim \/ DeadLetter \/ Cancel \/ LeaseLapses \/ SourceBusy \/ StopEnds
               \/ StopSettles \/ SweepSettles \/ SweepAttaches \/ SweepReprojects
               \/ MediaGoes \/ MediaReturns \/ StopSweep \/ SkipSweep \/ MediaBusy
               \/ EndSweep \/ StorageFault \/ Settle \/ Project \/ ProjectionFails
               \/ EndJob \/ LostClaim \/ Crash \/ UNCHANGED vars
               \/ \E clips \in SUBSET Clips : StartSweep(clips)
        PROVE  dispatches' = dispatches
    BY <2>3 DEF Claim, DeadLetter, Cancel, LeaseLapses, SourceBusy, StopEnds, StopSettles,
         SweepSettles, SweepAttaches, SweepReprojects, MediaGoes, MediaReturns, StopSweep,
         SkipSweep, BeginPass, MediaBusy, EndSweep, StorageFault, Settle, Project,
         ProjectionFails, EndJob, LostClaim, Crash, StartSweep, vars
  <2> QED
    BY <1>1, <2>1, <2>2, <2>3 DEF Next, Progress, Environment
<1> QED
  BY <1>1, BooksAreKept, PTL DEF Spec, NothingAdmittedAfterStop

-----------------------------------------------------------------------------
(* The run is a purse. *)

LEMMA OwedIsTruth == Purse!Owed = Truth
BY DEF Purse!Owed, Truth, Purse!Cardinality, Cardinality

\* What is charged for goes to a clip that was not, and fits the budget.
LEMMA SendIsACharge ==
    ASSUME PaidInv, NEW c \in Clips, Send(c), charged' # charged
    PROVE  Purse!Charge(c)
<1> DEFINE b == <<c, ordinal[c]>>
<1>1. /\ UNCHANGED <<reservation, row>> /\ phase = "sweeping" /\ task[c] = "admitted"
      /\ charged' = charged \cup {b}
  BY DEF Send
<1>2. \A a \in charged : a[1] # c
  BY <1>1 DEF PaidInv, ChargeInv, TasksAreAhead
<1>3. b \in Bill /\ b \notin charged
  <2>1. b \in dispatches /\ Open(c, ordinal[c])
    BY <1>1 DEF PaidInv, ChargeInv, TasksAreAhead
  <2>2. b \in Known /\ Billed(b)
    BY <2>1 DEF Known, Billed, Dispatched, Open, Has
  <2> QED
    BY <1>2, <2>2 DEF Bill
<1>4. /\ charged \subseteq Bill /\ IsFiniteSet(Bill) /\ IsFiniteSet(charged)
      /\ Cardinality(Bill) \in Nat /\ Cardinality(charged) \in Nat
      /\ LedgerSpent = Worth(Cardinality(Bill)) /\ Truth = Worth(Cardinality(charged))
  BY BillIs DEF PaidInv, BooksFit
<1>5. Cardinality(charged) + 1 <= Cardinality(Bill)
  <2>1. charged \cup {b} \subseteq Bill /\ Cardinality(charged \cup {b}) = Cardinality(charged) + 1
    BY <1>3, <1>4, FS_AddElement
  <2> QED
    BY <1>4, <2>1, FS_Subset
<1>6. Truth + Unit <= LedgerSpent
  <2>1. Worth(Cardinality(charged) + 1) = Truth + Unit
    BY <1>4, WorthIs
  <2>2. Worth(Cardinality(charged) + 1) <= Worth(Cardinality(Bill))
    BY <1>4, <1>5, WorthIs
  <2> QED
    BY <1>4, <2>1, <2>2
<1>7. Purse!Owed + Unit <= reservation
  <2>1. LedgerSpent <= reservation /\ reservation \in Nat
    BY <1>1 DEF PaidInv, BudgetHolds, TypeOK
  <2>2. Purse!Owed = Truth
    BY OwedIsTruth
  <2>3. LedgerSpent \in Nat /\ Truth \in Nat /\ Unit \in Nat
    BY <1>4, WorthIs
  <2> QED
    BY <1>6, <2>1, <2>2, <2>3
<1>8. b \in charged' /\ b[1] = c
  BY <1>1
<1> QED
  BY <1>1, <1>2, <1>7, <1>8 DEF Purse!Charge

LEMMA StepsArePurses ==
    ASSUME PaidInv, [Next]_vars
    PROVE  [Purse!Next]_(Purse!vars)
<1>1. CASE UNCHANGED <<charged, reservation>>
  <2>1. CASE row'.spent = row.spent
    BY <1>1, <2>1 DEF Purse!vars
  <2>2. CASE row'.spent # row.spent
    <3>1. row'.spent >= row.spent /\ row'.spent >= Truth
      BY <2>2, StepSettles DEF Settles
    <3>2. Purse!Owed = Truth
      BY OwedIsTruth
    <3> QED
      BY <1>1, <3>1, <3>2 DEF Purse!Next, Purse!Report
  <2> QED
    BY <2>1, <2>2
<1>2. ASSUME NEW c \in Clips, Send(c) PROVE [Purse!Next]_(Purse!vars)
  <2>1. CASE charged' = charged
    BY <1>2, <2>1 DEF Send, Purse!vars
  <2>2. CASE charged' # charged
    BY <1>2, <2>2, SendIsACharge DEF Purse!Next
  <2> QED
    BY <2>1, <2>2
<1>3. ASSUME NEW clips \in SUBSET Clips, StartSweep(clips) PROVE [Purse!Next]_(Purse!vars)
  <2>1. UNCHANGED <<charged, row>>
    BY <1>3 DEF StartSweep, BeginPass
  <2>2. CASE reservation' = reservation
    BY <2>1, <2>2 DEF Purse!vars
  <2>3. CASE reservation' # reservation
    <3>1. /\ reservation' = Authorised(Cardinality(clips \ cache))
          /\ reservation = NoReservation
      BY <1>3, <2>3 DEF StartSweep, Authorised
    <3>2. reservation' \in Nat
      BY <3>1, PlannedIsTyped DEF PaidInv
    <3>3. Purse!Authorise
      BY <2>1, <3>1, <3>2 DEF Purse!Authorise, Purse!NoBudget, NoReservation
    <3> QED
      BY <3>3 DEF Purse!Next
  <2> QED
    BY <2>2, <2>3
<1>4. ASSUME \/ Claim \/ DeadLetter \/ Cancel \/ LeaseLapses \/ SourceBusy \/ StopEnds
             \/ StopSettles \/ SweepSettles \/ SweepAttaches \/ SweepReprojects
             \/ MediaGoes \/ MediaReturns \/ StopSweep \/ SkipSweep \/ MediaBusy
             \/ EndSweep \/ StorageFault \/ Settle \/ Project \/ ProjectionFails
             \/ EndJob \/ LostClaim \/ Crash \/ UNCHANGED vars
      PROVE  UNCHANGED <<charged, reservation>>
  BY <1>4 DEF Claim, DeadLetter, Cancel, LeaseLapses, SourceBusy, StopEnds, StopSettles,
       SweepSettles, SweepAttaches, SweepReprojects, MediaGoes, MediaReturns, StopSweep,
       SkipSweep, BeginPass, MediaBusy, EndSweep, StorageFault, Settle, Project,
       ProjectionFails, EndJob, LostClaim, Crash, vars
<1>5. ASSUME NEW c \in Clips,
             \/ NeverAsked(c) \/ Refuse(c) \/ Exhausted(c) \/ StoreAnswer(c)
             \/ Take(c) \/ Prepare(c) \/ Admit(c) \/ Resolve(c)
      PROVE  UNCHANGED <<charged, reservation>>
  BY <1>5 DEF NeverAsked, Refuse, Exhausted, StoreAnswer, Take, Prepare, Admit, Resolve
<1> QED
  BY <1>1, <1>2, <1>3, <1>4, <1>5 DEF Next, Progress, Environment

\* A paid run implements the purse: its budget is fixed once, before the first charge; a clip
\* is charged at most once and within the budget; what is reported never goes back and, when
\* it grows, covers what was charged.
THEOREM ARunIsAPurse == Spec => ImplementsPurse
<1>1. Init => Purse!Init
  BY DEF Init, Purse!Init, NoRow, NoReservation, Purse!NoBudget
<1>2. PaidInv /\ [Next]_vars => [Purse!Next]_(Purse!vars)
  BY StepsArePurses
<1> QED
  BY <1>1, <1>2, BooksAreKept, PTL DEF Spec, ImplementsPurse, Purse!Spec
=============================================================================
