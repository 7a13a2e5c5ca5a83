-------------------------- MODULE ProvidersProofs --------------------------
(***************************************************************************)
(* What the providers are asked and what it costs.  The budget of a scan   *)
(* covers what its provider may have charged, and no upload is repeated    *)
(* blindly: for any price and any number of openings of the job store.     *)
(***************************************************************************)
EXTENDS JobStore, Breaker, FiniteSetTheorems, WellFoundedInduction, TLAPS

\* What n scans cost.
Worth(n) == Units * n

Flying == IF post = "flying" THEN 1 ELSE 0

\* What the provider has charged, and may still charge for what it was sent.
Owed == charged + Worth(late) + Worth(Flying)

\* The steps of a driver that rest on the reservation of the row.
Reserving == {"reserved", "listing", "uploading", "waiting", "found", "polling", "answered",
              "parsed", "malformed"}

\* The row, or the step that holds it, says that nothing was sent on its reservation.
Unsent == state \in {"none", "pending", "leased"} \cup Terminal \/ step \in {"listing", "uploading"}

\* Where the process is, what the row says and what the driver knows fit together.
StepsAreRows ==
    /\ step \in {"extending", "resetting"} => state \in Terminal
    /\ step \in {"leased", "reserved"} => state = "leased"
    /\ step \in {"listing", "uploading", "waiting", "found"} => state = "submission_started"
    /\ step \in {"polling", "answered", "parsed", "malformed"} => state = "submitted"
    /\ step \in {"listing", "uploading"} => ~remote_ref
    /\ step \in {"listing", "polling"} => engine = "acrcloud"
    /\ step = "found" => (known <=> engine = "acrcloud")
    /\ step = "polling" => remote_ref
    /\ post # "none" => step = "waiting"
    /\ known => engine = "acrcloud"
    /\ remote_ref => engine = "acrcloud" /\ accepted > 0

\* A reservation is whole, and there while a driver rests on it.
ReservationsAreKept ==
    /\ budget.reserved = reserved
    /\ reserved \in {0, Units}
    /\ step \in Reserving => reserved = Units
    /\ state \in Terminal \cup {"none"} => reserved = 0
    /\ budget.used + budget.reserved <= budget.max

\* What is owed is spent or reserved; and spent already, where the reservation was not used.
ChargesAreCovered ==
    /\ Owed <= budget.used + budget.reserved
    /\ Unsent => remote_ref \/ Owed <= budget.used
    /\ state \in Terminal => Owed <= budget.used
    /\ engine = "audd" /\ (post = "accepted" \/ step \in {"found", "answered", "parsed"}) =>
          Owed <= budget.used + billed
    /\ engine = "acrcloud" /\ step \in {"answered", "parsed", "malformed"} => billed = Units

\* An upload that nobody has an answer to leaves the row where it is not taken up.
UploadsAreKnown ==
    /\ engine = "audd" /\ Unsent => ~unanswered
    /\ engine = "acrcloud" =>
          /\ accepted + late + Flying <= 1 + acknowledged
          /\ Unsent \/ post = "refused" => accepted > 0 \/ late <= acknowledged
          /\ step = "uploading" => accepted + late <= acknowledged
          /\ post = "accepted" \/ step = "found" \/ state = "submitted" => accepted > 0

StoreInv ==
    /\ StoreTypeOK /\ StepsAreRows /\ ReservationsAreKept
    /\ ChargesAreCovered /\ UploadsAreKnown

-----------------------------------------------------------------------------
USE DEF rowVars, driverVars, providerVars, historyVars, Active, Terminal

LEMMA WorthIs ==
    /\ \A n \in Nat : Worth(n) \in Nat /\ Worth(n + 1) = Worth(n) + Units
    /\ \A n \in Nat : n > 0 => Worth(n) = Worth(n - 1) + Units
    /\ Worth(0) = 0 /\ Worth(1) = Units
<1>1. Units \in Nat
  BY StoreBounded
<1> QED
  BY <1>1 DEF Worth

LEMMA OpenKeeps == ASSUME StoreInv, Open PROVE StoreInv'
<1>1. StoreTypeOK'
  BY StoreBounded DEF StoreInv, StoreTypeOK, States, Steps, Open, Recovered
<1>2. StepsAreRows'
  BY DEF StoreInv, StoreTypeOK, StepsAreRows, Open, Recovered
<1>3. ReservationsAreKept'
  BY StoreBounded DEF StoreInv, StoreTypeOK, StepsAreRows, ReservationsAreKept, Reserving,
         Open, Recovered
<1>4. ChargesAreCovered'
  BY DEF StoreInv, StoreTypeOK, StepsAreRows, ReservationsAreKept, Reserving,
         ChargesAreCovered, Unsent, Owed, Flying, Open, Recovered
<1>5. UploadsAreKnown'
  BY DEF StoreInv, StoreTypeOK, StepsAreRows, UploadsAreKnown, Unsent, Flying, Open, Recovered
<1> QED
  BY <1>1, <1>2, <1>3, <1>4, <1>5 DEF StoreInv

LEMMA AcknowledgeKeeps == ASSUME StoreInv, Acknowledge PROVE StoreInv'
<1>1. StoreTypeOK'
  <2>1. /\ engine' \in {"audd", "acrcloud"} /\ state' \in States /\ step' \in Steps
        /\ post' \in {"none", "flying", "accepted", "refused"} /\ billed' \in 0..Units
    BY StoreBounded DEF StoreInv, StoreTypeOK, States, Steps, Acknowledge, Unlease, Leave
  <2>2. reserved' \in Nat /\ budget' \in [max : Nat, reserved : Nat, used : Nat]
    BY DEF StoreInv, StoreTypeOK, ReservationsAreKept, Acknowledge
  <2>3. {submitted_at', remote_ref', result_path', recent', known', unanswered'} \subseteq BOOLEAN
    BY DEF StoreInv, StoreTypeOK, Acknowledge, Unlease, Leave
  <2>4. {late', accepted', charged', opens', acknowledged'} \subseteq Nat
    BY DEF StoreInv, StoreTypeOK, Acknowledge, Leave
  <2> QED
    BY <2>1, <2>2, <2>3, <2>4 DEF StoreTypeOK
<1>2. StepsAreRows'
  BY DEF StoreInv, StoreTypeOK, StepsAreRows, Acknowledge, Unlease, Leave
<1>3. ReservationsAreKept'
  BY StoreBounded DEF StoreInv, StoreTypeOK, StepsAreRows, ReservationsAreKept, Reserving,
         Acknowledge, Unlease, Leave
<1>4. ChargesAreCovered'
  <2>1. Owed' = Owed
    <3>1. charged' = charged /\ post' = "none" /\ charged \in Nat /\ late \in Nat
      BY DEF StoreInv, StoreTypeOK, Acknowledge, Leave
    <3>2. Flying' = 0 /\ Owed' = charged + Worth(late') + Worth(0)
      BY <3>1 DEF Owed, Flying
    <3>3. CASE post = "flying"
      <4>1. late' = late + 1 /\ Owed = charged + Worth(late) + Worth(1)
        BY <3>3 DEF Acknowledge, Leave, Owed, Flying
      <4> QED
        BY <3>1, <3>2, <4>1, WorthIs, StoreBounded
    <3>4. CASE post # "flying"
      <4>1. late' = late /\ Owed = charged + Worth(late) + Worth(0)
        BY <3>4 DEF Acknowledge, Leave, Owed, Flying
      <4> QED
        BY <3>2, <4>1
    <3> QED
      BY <3>3, <3>4
  <2>2. /\ budget'.used = budget.used + budget.reserved
        /\ budget'.reserved = 0 /\ budget.used + budget.reserved \in Nat
    BY DEF StoreInv, StoreTypeOK, ReservationsAreKept, Acknowledge
  <2>3. Owed <= budget.used + budget.reserved
    BY DEF StoreInv, ChargesAreCovered
  <2>4. Owed' <= budget'.used /\ Owed' <= budget'.used + budget'.reserved
    BY <2>1, <2>2, <2>3
  <2>5. step' = "closed" /\ post' = "none"
    BY DEF Acknowledge, Leave
  <2> QED
    BY <2>4, <2>5 DEF ChargesAreCovered
<1>5. UploadsAreKnown'
  BY DEF StoreInv, StoreTypeOK, StepsAreRows, UploadsAreKnown, Unsent, Flying, Acknowledge,
         Unlease, Leave
<1> QED
  BY <1>1, <1>2, <1>3, <1>4, <1>5 DEF StoreInv

LEMMA PrepareKeeps == ASSUME StoreInv, Prepare PROVE StoreInv'
<1>1. StoreTypeOK'
  BY StoreBounded DEF StoreInv, StoreTypeOK, States, Steps, Prepare
<1>2. StepsAreRows'
  BY DEF StoreInv, StoreTypeOK, StepsAreRows, Prepare
<1>3. ReservationsAreKept'
  BY StoreBounded DEF StoreInv, StoreTypeOK, StepsAreRows, ReservationsAreKept, Reserving,
         Prepare
<1>4. ChargesAreCovered'
  BY DEF StoreInv, StoreTypeOK, StepsAreRows, ReservationsAreKept, Reserving,
         ChargesAreCovered, Unsent, Owed, Flying, Prepare
<1>5. UploadsAreKnown'
  BY DEF StoreInv, StoreTypeOK, StepsAreRows, UploadsAreKnown, Unsent, Flying, Prepare
<1> QED
  BY <1>1, <1>2, <1>3, <1>4, <1>5 DEF StoreInv

LEMMA ExtendKeeps == ASSUME StoreInv, Extend PROVE StoreInv'
<1>1. StoreTypeOK'
  BY StoreBounded DEF StoreInv, StoreTypeOK, States, Steps, Extend
<1>2. StepsAreRows'
  BY DEF StoreInv, StoreTypeOK, StepsAreRows, Extend
<1>3. ReservationsAreKept'
  BY StoreBounded DEF StoreInv, StoreTypeOK, StepsAreRows, ReservationsAreKept, Reserving,
         Extend
<1>4. ChargesAreCovered'
  BY DEF StoreInv, StoreTypeOK, StepsAreRows, ReservationsAreKept, Reserving,
         ChargesAreCovered, Unsent, Owed, Flying, Extend
<1>5. UploadsAreKnown'
  BY DEF StoreInv, StoreTypeOK, StepsAreRows, UploadsAreKnown, Unsent, Flying, Extend
<1> QED
  BY <1>1, <1>2, <1>3, <1>4, <1>5 DEF StoreInv

LEMMA ResetKeeps == ASSUME StoreInv, Reset PROVE StoreInv'
<1>1. StoreTypeOK'
  <2>1. /\ engine' \in {"audd", "acrcloud"} /\ state' \in States /\ step' \in Steps
        /\ post' \in {"none", "flying", "accepted", "refused"} /\ billed' \in 0..Units
        /\ reserved' \in Nat /\ budget' \in [max : Nat, reserved : Nat, used : Nat]
    BY StoreBounded DEF StoreInv, StoreTypeOK, States, Steps, Reset
  <2>2. {submitted_at', remote_ref', result_path', recent', known', unanswered'} \subseteq BOOLEAN
    BY DEF StoreInv, StoreTypeOK, Reset
  <2>3. {late', accepted', charged', opens', acknowledged'} \subseteq Nat
    BY DEF StoreInv, StoreTypeOK, Reset
  <2> QED
    BY <2>1, <2>2, <2>3 DEF StoreTypeOK
<1>2. StepsAreRows'
  BY DEF StoreInv, StoreTypeOK, StepsAreRows, Reset
<1>3. ReservationsAreKept'
  BY StoreBounded DEF StoreInv, StoreTypeOK, StepsAreRows, ReservationsAreKept, Reserving, Reset
<1>4. ChargesAreCovered'
  BY DEF StoreInv, StoreTypeOK, StepsAreRows, ReservationsAreKept, Reserving,
         ChargesAreCovered, Unsent, Owed, Flying, Reset
<1>5. UploadsAreKnown'
  BY DEF StoreInv, StoreTypeOK, StepsAreRows, UploadsAreKnown, Unsent, Flying, Reset
<1> QED
  BY <1>1, <1>2, <1>3, <1>4, <1>5 DEF StoreInv

LEMMA LeaseKeeps == ASSUME StoreInv, Lease PROVE StoreInv'
<1>1. StoreTypeOK'
  BY StoreBounded DEF StoreInv, StoreTypeOK, States, Steps, Lease
<1>2. StepsAreRows'
  BY DEF StoreInv, StoreTypeOK, StepsAreRows, Lease
<1>3. ReservationsAreKept'
  BY StoreBounded DEF StoreInv, StoreTypeOK, StepsAreRows, ReservationsAreKept, Reserving, Lease
<1>4. ChargesAreCovered'
  BY DEF StoreInv, StoreTypeOK, StepsAreRows, ReservationsAreKept, Reserving,
         ChargesAreCovered, Unsent, Owed, Flying, Lease
<1>5. UploadsAreKnown'
  BY DEF StoreInv, StoreTypeOK, StepsAreRows, UploadsAreKnown, Unsent, Flying, Lease
<1> QED
  BY <1>1, <1>2, <1>3, <1>4, <1>5 DEF StoreInv

LEMMA ReserveKeeps == ASSUME StoreInv, Reserve PROVE StoreInv'
<1>1. StoreTypeOK'
  BY StoreBounded DEF StoreInv, StoreTypeOK, States, Steps, Reserve
<1>2. StepsAreRows'
  BY DEF StoreInv, StoreTypeOK, StepsAreRows, Reserve
<1>3. ReservationsAreKept'
  BY StoreBounded DEF StoreInv, StoreTypeOK, StepsAreRows, ReservationsAreKept, Reserving,
         Reserve
<1>4. ChargesAreCovered'
  BY StoreBounded, WorthIs DEF StoreInv, StoreTypeOK, StepsAreRows, ReservationsAreKept,
         Reserving, ChargesAreCovered, Unsent, Owed, Flying, Reserve
<1>5. UploadsAreKnown'
  BY DEF StoreInv, StoreTypeOK, StepsAreRows, UploadsAreKnown, Unsent, Flying, Reserve
<1> QED
  BY <1>1, <1>2, <1>3, <1>4, <1>5 DEF StoreInv

LEMMA StartKeeps == ASSUME StoreInv, Start PROVE StoreInv'
<1>1. StoreTypeOK'
  BY StoreBounded DEF StoreInv, StoreTypeOK, States, Steps, Start
<1>2. StepsAreRows'
  BY DEF StoreInv, StoreTypeOK, StepsAreRows, Start
<1>3. ReservationsAreKept'
  BY StoreBounded DEF StoreInv, StoreTypeOK, StepsAreRows, ReservationsAreKept, Reserving, Start
<1>4. ChargesAreCovered'
  BY DEF StoreInv, StoreTypeOK, StepsAreRows, ReservationsAreKept, Reserving,
         ChargesAreCovered, Unsent, Owed, Flying, Start
<1>5. UploadsAreKnown'
  BY DEF StoreInv, StoreTypeOK, StepsAreRows, UploadsAreKnown, Unsent, Flying, Start
<1> QED
  BY <1>1, <1>2, <1>3, <1>4, <1>5 DEF StoreInv

LEMMA UploadKeeps == ASSUME StoreInv, Upload PROVE StoreInv'
<1>1. StoreTypeOK'
  BY StoreBounded DEF StoreInv, StoreTypeOK, States, Steps, Upload
<1>2. StepsAreRows'
  BY DEF StoreInv, StoreTypeOK, StepsAreRows, Upload
<1>3. ReservationsAreKept'
  BY StoreBounded DEF StoreInv, StoreTypeOK, StepsAreRows, ReservationsAreKept, Reserving,
         Upload
<1>4. ChargesAreCovered'
  BY StoreBounded, WorthIs DEF StoreInv, StoreTypeOK, StepsAreRows, ReservationsAreKept,
         Reserving, ChargesAreCovered, Unsent, Owed, Flying, Upload
<1>5. UploadsAreKnown'
  BY DEF StoreInv, StoreTypeOK, StepsAreRows, UploadsAreKnown, Unsent, Flying, Upload
<1> QED
  BY <1>1, <1>2, <1>3, <1>4, <1>5 DEF StoreInv

LEMMA AcceptKeeps == ASSUME StoreInv, Accept PROVE StoreInv'
<1>1. StoreTypeOK'
  BY StoreBounded DEF StoreInv, StoreTypeOK, States, Steps, Accept, Charge, Costs
<1>2. StepsAreRows'
  BY DEF StoreInv, StoreTypeOK, StepsAreRows, Accept, Charge, Costs
<1>3. ReservationsAreKept'
  BY StoreBounded DEF StoreInv, StoreTypeOK, StepsAreRows, ReservationsAreKept, Reserving,
         Accept, Charge, Costs
<1>4. ChargesAreCovered'
  BY StoreBounded, WorthIs DEF StoreInv, StoreTypeOK, StepsAreRows, ReservationsAreKept,
         Reserving, ChargesAreCovered, Unsent, Owed, Flying, Accept, Charge, Costs
<1>5. UploadsAreKnown'
  BY DEF StoreInv, StoreTypeOK, StepsAreRows, UploadsAreKnown, Unsent, Flying, Accept, Charge,
         Costs
<1> QED
  BY <1>1, <1>2, <1>3, <1>4, <1>5 DEF StoreInv

LEMMA RefuseKeeps == ASSUME StoreInv, Refuse PROVE StoreInv'
<1>1. StoreTypeOK'
  BY StoreBounded DEF StoreInv, StoreTypeOK, States, Steps, Refuse, Charge, Costs
<1>2. StepsAreRows'
  BY DEF StoreInv, StoreTypeOK, StepsAreRows, Refuse, Charge, Costs
<1>3. ReservationsAreKept'
  BY StoreBounded DEF StoreInv, StoreTypeOK, StepsAreRows, ReservationsAreKept, Reserving,
         Refuse, Charge, Costs
<1>4. ChargesAreCovered'
  BY StoreBounded, WorthIs DEF StoreInv, StoreTypeOK, StepsAreRows, ReservationsAreKept,
         Reserving, ChargesAreCovered, Unsent, Owed, Flying, Refuse, Charge, Costs
<1>5. UploadsAreKnown'
  BY DEF StoreInv, StoreTypeOK, StepsAreRows, UploadsAreKnown, Unsent, Flying, Refuse, Charge,
         Costs
<1> QED
  BY <1>1, <1>2, <1>3, <1>4, <1>5 DEF StoreInv

LEMMA AcceptLateKeeps == ASSUME StoreInv, AcceptLate PROVE StoreInv'
<1>1. StoreTypeOK'
  BY StoreBounded DEF StoreInv, StoreTypeOK, States, Steps, AcceptLate, Charge, Costs
<1>2. StepsAreRows'
  BY DEF StoreInv, StoreTypeOK, StepsAreRows, AcceptLate, Charge, Costs
<1>3. ReservationsAreKept'
  BY StoreBounded DEF StoreInv, StoreTypeOK, StepsAreRows, ReservationsAreKept, Reserving,
         AcceptLate, Charge, Costs
<1>4. ChargesAreCovered'
  <2>1. /\ late \in Nat /\ late > 0 /\ late' = late - 1 /\ post' = post /\ charged \in Nat
        /\ charged' \in Nat /\ charged' <= charged + Units
    BY StoreBounded DEF StoreInv, StoreTypeOK, AcceptLate, Charge, Costs
  <2>2. Worth(late) = Worth(late') + Units /\ Worth(late') \in Nat
    BY <2>1, WorthIs
  <2>3. Worth(Flying) \in Nat /\ Worth(Flying)' = Worth(Flying)
    BY <2>1, WorthIs DEF Flying, Worth
  <2>4. Owed \in Nat /\ Owed' \in Nat /\ Owed' <= Owed
    BY <2>1, <2>2, <2>3, StoreBounded DEF Owed
  <2> QED
    BY <2>4 DEF StoreInv, StoreTypeOK, StepsAreRows, ReservationsAreKept, ChargesAreCovered,
                Unsent, AcceptLate
<1>5. UploadsAreKnown'
  BY DEF StoreInv, StoreTypeOK, StepsAreRows, UploadsAreKnown, Unsent, Flying, AcceptLate,
         Charge, Costs
<1> QED
  BY <1>1, <1>2, <1>3, <1>4, <1>5 DEF StoreInv

LEMMA SubmittedKeeps == ASSUME StoreInv, Submitted PROVE StoreInv'
<1>1. StoreTypeOK'
  BY StoreBounded DEF StoreInv, StoreTypeOK, States, Steps, Submitted
<1>2. StepsAreRows'
  BY DEF StoreInv, StoreTypeOK, StepsAreRows, UploadsAreKnown, Submitted
<1>3. ReservationsAreKept'
  BY StoreBounded DEF StoreInv, StoreTypeOK, StepsAreRows, ReservationsAreKept, Reserving,
         Submitted
<1>4. ChargesAreCovered'
  BY DEF StoreInv, StoreTypeOK, StepsAreRows, ReservationsAreKept, Reserving,
         ChargesAreCovered, Unsent, Owed, Flying, Submitted
<1>5. UploadsAreKnown'
  BY DEF StoreInv, StoreTypeOK, StepsAreRows, UploadsAreKnown, Unsent, Flying, Submitted
<1> QED
  BY <1>1, <1>2, <1>3, <1>4, <1>5 DEF StoreInv

LEMMA WriteKeeps == ASSUME StoreInv, Write PROVE StoreInv'
<1>1. StoreTypeOK'
  BY StoreBounded DEF StoreInv, StoreTypeOK, States, Steps, Write
<1>2. StepsAreRows'
  BY DEF StoreInv, StoreTypeOK, StepsAreRows, Write
<1>3. ReservationsAreKept'
  BY StoreBounded DEF StoreInv, StoreTypeOK, StepsAreRows, ReservationsAreKept, Reserving, Write
<1>4. ChargesAreCovered'
  BY DEF StoreInv, StoreTypeOK, StepsAreRows, ReservationsAreKept, Reserving,
         ChargesAreCovered, Unsent, Owed, Flying, Write
<1>5. UploadsAreKnown'
  BY DEF StoreInv, StoreTypeOK, StepsAreRows, UploadsAreKnown, Unsent, Flying, Write
<1> QED
  BY <1>1, <1>2, <1>3, <1>4, <1>5 DEF StoreInv

LEMMA CrashKeeps == ASSUME StoreInv, Crash PROVE StoreInv'
<1>1. StoreTypeOK'
  <2>1. /\ engine' \in {"audd", "acrcloud"} /\ state' \in States /\ step' \in Steps
        /\ post' \in {"none", "flying", "accepted", "refused"} /\ billed' \in 0..Units
        /\ reserved' \in Nat /\ budget' \in [max : Nat, reserved : Nat, used : Nat]
    BY StoreBounded DEF StoreInv, StoreTypeOK, States, Steps, Crash, Leave
  <2>2. {submitted_at', remote_ref', result_path', recent', known', unanswered'} \subseteq BOOLEAN
    BY DEF StoreInv, StoreTypeOK, Crash, Leave
  <2>3. {late', accepted', charged', opens', acknowledged'} \subseteq Nat
    BY DEF StoreInv, StoreTypeOK, Crash, Leave
  <2> QED
    BY <2>1, <2>2, <2>3 DEF StoreTypeOK
<1>2. StepsAreRows'
  BY DEF StoreInv, StoreTypeOK, StepsAreRows, Crash, Leave
<1>3. ReservationsAreKept'
  BY StoreBounded DEF StoreInv, StoreTypeOK, StepsAreRows, ReservationsAreKept, Reserving,
         Crash, Leave
<1>4. ChargesAreCovered'
  BY StoreBounded, WorthIs DEF StoreInv, StoreTypeOK, StepsAreRows, ReservationsAreKept,
         Reserving, ChargesAreCovered, Unsent, Owed, Flying, Crash, Leave
<1>5. UploadsAreKnown'
  BY DEF StoreInv, StoreTypeOK, StepsAreRows, UploadsAreKnown, Unsent, Flying, Crash, Leave
<1> QED
  BY <1>1, <1>2, <1>3, <1>4, <1>5 DEF StoreInv

LEMMA AgeKeeps == ASSUME StoreInv, Age PROVE StoreInv'
<1>1. StoreTypeOK'
  BY StoreBounded DEF StoreInv, StoreTypeOK, States, Steps, Age
<1>2. StepsAreRows'
  BY DEF StoreInv, StoreTypeOK, StepsAreRows, Age
<1>3. ReservationsAreKept'
  BY StoreBounded DEF StoreInv, StoreTypeOK, StepsAreRows, ReservationsAreKept, Reserving, Age
<1>4. ChargesAreCovered'
  BY DEF StoreInv, StoreTypeOK, StepsAreRows, ReservationsAreKept, Reserving,
         ChargesAreCovered, Unsent, Owed, Flying, Age
<1>5. UploadsAreKnown'
  BY DEF StoreInv, StoreTypeOK, StepsAreRows, UploadsAreKnown, Unsent, Flying, Age
<1> QED
  BY <1>1, <1>2, <1>3, <1>4, <1>5 DEF StoreInv

\* The row is finished on its reservation, for what covers what is owed.
LEMMA FinishKeeps ==
    ASSUME StoreInv, step \in Reserving, post # "flying", NEW next \in Terminal,
           NEW actual \in 0..Units, NEW stored \in BOOLEAN, Owed <= budget.used + actual,
           engine = "acrcloud" => accepted > 0 \/ late <= acknowledged,
           Finish(next, actual, stored), Leave,
           UNCHANGED <<engine, accepted, charged, opens, acknowledged>>
    PROVE  StoreInv'
<1>1. /\ reserved = Units /\ budget.reserved = Units /\ Units \in Nat
      /\ budget \in [max : Nat, reserved : Nat, used : Nat]
  BY StoreBounded DEF StoreInv, StoreTypeOK, ReservationsAreKept
<1>2. /\ budget' \in [max : Nat, reserved : Nat, used : Nat] /\ reserved' = 0
      /\ budget'.reserved = 0 /\ budget'.used = budget.used + actual /\ budget'.max = budget.max
  <2>1. budget.used \in Nat /\ budget.reserved - reserved = 0
    BY <1>1
  <2>2. PICK spent \in Nat : spent = budget.used + actual
    BY <2>1
  <2>3. budget' = [budget EXCEPT !.reserved = 0, !.used = spent]
    BY <1>1, <2>1, <2>2 DEF Finish
  <2>4. reserved' = 0
    BY DEF Finish
  <2> QED
    BY <1>1, <2>2, <2>3, <2>4
<1>3. /\ state' \in Terminal /\ step' = "closed" /\ known' = FALSE /\ post' = "none" /\ billed' = 0
      /\ late' = late /\ unanswered' = FALSE
  BY DEF Finish, Unlease, Leave
<1>4. StoreTypeOK'
  <2>1. /\ engine' \in {"audd", "acrcloud"} /\ state' \in States /\ step' \in Steps
        /\ post' \in {"none", "flying", "accepted", "refused"} /\ billed' \in 0..Units
        /\ reserved' \in Nat /\ budget' \in [max : Nat, reserved : Nat, used : Nat]
    BY <1>1, <1>2, <1>3 DEF StoreInv, StoreTypeOK, States, Steps
  <2>2. {submitted_at', remote_ref', result_path', recent', known', unanswered'} \subseteq BOOLEAN
    BY <1>3 DEF Finish, Unlease, StoreInv, StoreTypeOK
  <2>3. {late', accepted', charged', opens', acknowledged'} \subseteq Nat
    BY <1>3 DEF StoreInv, StoreTypeOK
  <2> QED
    BY <2>1, <2>2, <2>3 DEF StoreTypeOK
<1>5. StepsAreRows'
  BY <1>3 DEF Finish, StoreInv, StepsAreRows
<1>6. ReservationsAreKept'
  BY <1>1, <1>2, <1>3 DEF StoreInv, StoreTypeOK, ReservationsAreKept, Reserving
<1>7. Owed' <= Owed /\ Owed \in Nat /\ Owed' \in Nat
  BY <1>1, <1>3, WorthIs DEF StoreInv, StoreTypeOK, Owed, Flying
<1>8. ChargesAreCovered'
  BY <1>1, <1>2, <1>3, <1>7 DEF ChargesAreCovered
<1>9. UploadsAreKnown'
  BY <1>3 DEF StoreInv, StoreTypeOK, UploadsAreKnown, Unsent, Flying
<1> QED
  BY <1>4, <1>5, <1>6, <1>8, <1>9 DEF StoreInv

LEMMA FinishFailedKeeps ==
    ASSUME StoreInv, step \in Reserving, post # "flying", FinishFailed,
           engine = "acrcloud" => accepted > 0 \/ late <= acknowledged,
           UNCHANGED <<engine, accepted, charged, opens, acknowledged>>
    PROVE  StoreInv'
<1>1. Owed <= budget.used + Units
  BY DEF StoreInv, ReservationsAreKept, ChargesAreCovered
<1>2. Units \in 0..Units /\ FALSE \in BOOLEAN /\ "permanent_failure" \in Terminal
  BY StoreBounded
<1> QED
  BY <1>1, <1>2, FinishKeeps DEF FinishFailed

\* A request that was not answered: what was submitted under a name is there to be polled.
LEMMA UnheardKeeps ==
    ASSUME StoreInv, step \in {"listing", "waiting", "polling"}, Unheard,
           UNCHANGED <<engine, accepted, charged, opens, acknowledged>>
    PROVE  StoreInv'
<1>1. StoreTypeOK'
  <2>1. /\ engine' \in {"audd", "acrcloud"} /\ state' \in States /\ step' \in Steps
        /\ post' \in {"none", "flying", "accepted", "refused"} /\ billed' \in 0..Units
        /\ reserved' \in Nat /\ budget' \in [max : Nat, reserved : Nat, used : Nat]
    BY StoreBounded DEF StoreInv, StoreTypeOK, States, Steps, Unheard, Release, Unlease, Leave
  <2>2. {submitted_at', remote_ref', result_path', recent', known', unanswered'} \subseteq BOOLEAN
    BY DEF StoreInv, StoreTypeOK, Unheard, Release, Unlease, Leave
  <2>3. {late', accepted', charged', opens', acknowledged'} \subseteq Nat
    BY DEF StoreInv, StoreTypeOK, Unheard, Leave
  <2> QED
    BY <2>1, <2>2, <2>3 DEF StoreTypeOK
<1>2. StepsAreRows'
  BY DEF StoreInv, StoreTypeOK, StepsAreRows, Unheard, Release, Unlease, Leave
<1>3. ReservationsAreKept'
  BY StoreBounded DEF StoreInv, StoreTypeOK, StepsAreRows, ReservationsAreKept, Reserving,
                      Unheard, Release, Unlease, Leave
<1>4. ChargesAreCovered'
  BY StoreBounded, WorthIs DEF StoreInv, StoreTypeOK, StepsAreRows, ReservationsAreKept,
          Reserving, ChargesAreCovered, Unsent, Owed, Flying, Unheard, Release, Unlease, Leave
<1>5. UploadsAreKnown'
  BY DEF StoreInv, StoreTypeOK, StepsAreRows, UploadsAreKnown, Unsent, Flying, Unheard, Release,
         Unlease, Leave
<1> QED
  BY <1>1, <1>2, <1>3, <1>4, <1>5 DEF StoreInv

LEMMA ListKeeps == ASSUME StoreInv, List PROVE StoreInv'
<1>1. CASE /\ step' = IF accepted > 0 THEN "found" ELSE "uploading"
           /\ known' = (accepted > 0)
           /\ UNCHANGED <<rowVars, budget, billed, post, late, unanswered>>
  <2>1. StoreTypeOK'
    BY <1>1 DEF StoreInv, StoreTypeOK, Steps, List
  <2>2. StepsAreRows'
    BY <1>1 DEF StoreInv, StoreTypeOK, StepsAreRows, List
  <2>3. ReservationsAreKept'
    BY <1>1 DEF StoreInv, StoreTypeOK, StepsAreRows, ReservationsAreKept, Reserving, List
  <2>4. ChargesAreCovered'
    BY <1>1 DEF StoreInv, StoreTypeOK, StepsAreRows, ReservationsAreKept, Reserving,
                ChargesAreCovered, Unsent, Owed, Flying, List
  <2>5. UploadsAreKnown'
    BY <1>1 DEF StoreInv, StoreTypeOK, StepsAreRows, UploadsAreKnown, Unsent, Flying, List
  <2> QED
    BY <2>1, <2>2, <2>3, <2>4, <2>5 DEF StoreInv
<1>2. CASE Unheard
  BY <1>2, UnheardKeeps DEF List
<1>3. CASE FinishFailed
  BY <1>3, FinishFailedKeeps DEF List, StoreInv, StepsAreRows, UploadsAreKnown, Unsent,
         Reserving
<1> QED
  BY <1>1, <1>2, <1>3 DEF List

LEMMA HearKeeps == ASSUME StoreInv, Hear PROVE StoreInv'
<1>1. CASE /\ post = "accepted"
           /\ step' = "found" /\ post' = "none" /\ known' = (engine = "acrcloud")
           /\ UNCHANGED <<rowVars, budget, billed, late, unanswered>>
  <2>1. StoreTypeOK'
    BY <1>1 DEF StoreInv, StoreTypeOK, Steps, Hear
  <2>2. StepsAreRows'
    BY <1>1 DEF StoreInv, StoreTypeOK, StepsAreRows, Hear
  <2>3. ReservationsAreKept'
    BY <1>1 DEF StoreInv, StoreTypeOK, StepsAreRows, ReservationsAreKept, Reserving, Hear
  <2>4. ChargesAreCovered'
    BY <1>1, WorthIs DEF StoreInv, StoreTypeOK, StepsAreRows, ReservationsAreKept, Reserving,
                ChargesAreCovered, Unsent, Owed, Flying, Hear
  <2>5. UploadsAreKnown'
    BY <1>1 DEF StoreInv, StoreTypeOK, StepsAreRows, UploadsAreKnown, Unsent, Flying, Hear
  <2> QED
    BY <2>1, <2>2, <2>3, <2>4, <2>5 DEF StoreInv
<1>2. CASE Unheard
  BY <1>2, UnheardKeeps DEF Hear
<1>3. CASE post = "refused" /\ FinishFailed
  BY <1>3, FinishFailedKeeps DEF Hear, StoreInv, UploadsAreKnown, Reserving
<1> QED
  BY <1>1, <1>2, <1>3 DEF Hear

LEMMA PollKeeps == ASSUME StoreInv, Poll PROVE StoreInv'
<1>1. CASE /\ step' = "answered" /\ billed' = Units
           /\ UNCHANGED <<rowVars, budget, known, post, late, unanswered>>
  <2>1. StoreTypeOK'
    BY <1>1, StoreBounded DEF StoreInv, StoreTypeOK, Steps, Poll
  <2>2. StepsAreRows'
    BY <1>1 DEF StoreInv, StoreTypeOK, StepsAreRows, Poll
  <2>3. ReservationsAreKept'
    BY <1>1 DEF StoreInv, StoreTypeOK, StepsAreRows, ReservationsAreKept, Reserving, Poll
  <2>4. ChargesAreCovered'
    BY <1>1 DEF StoreInv, StoreTypeOK, StepsAreRows, ReservationsAreKept, Reserving,
                ChargesAreCovered, Unsent, Owed, Flying, Poll
  <2>5. UploadsAreKnown'
    BY <1>1 DEF StoreInv, StoreTypeOK, StepsAreRows, UploadsAreKnown, Unsent, Flying, Poll
  <2> QED
    BY <2>1, <2>2, <2>3, <2>4, <2>5 DEF StoreInv
<1>2. CASE Unheard
  BY <1>2, UnheardKeeps DEF Poll
<1>3. CASE FinishFailed
  BY <1>3, FinishFailedKeeps DEF Poll, StoreInv, StepsAreRows, UploadsAreKnown, Reserving
<1> QED
  BY <1>1, <1>2, <1>3 DEF Poll

LEMMA ConcludeKeeps == ASSUME StoreInv, Conclude PROVE StoreInv'
<1>1. /\ step \in {"malformed", "parsed"} /\ state = "submitted" /\ post # "flying"
      /\ engine = "acrcloud" => accepted > 0
      /\ UNCHANGED <<engine, accepted, charged, opens, acknowledged>>
  BY DEF Conclude, StoreInv, StepsAreRows, UploadsAreKnown
<1>2. CASE FinishFailed
  BY <1>1, <1>2, FinishFailedKeeps DEF Reserving
<1>3. CASE step = "parsed" /\ \E next \in {"succeeded", "no_match"} : Finish(next, billed, TRUE)
  <2>1. PICK next \in Terminal : Finish(next, billed, TRUE)
    BY <1>3
  <2>2. Leave
    BY <1>3 DEF Conclude
  <2>3. billed \in 0..Units /\ engine \in {"audd", "acrcloud"}
    BY DEF StoreInv, StoreTypeOK
  <2>4. Owed <= budget.used + billed
    BY <1>3, <2>3 DEF StoreInv, ReservationsAreKept, ChargesAreCovered, Reserving
  <2>5. PICK actual \in 0..Units : actual = billed
    BY <2>3
  <2> QED
    BY <1>1, <2>1, <2>2, <2>4, <2>5, FinishKeeps DEF Reserving
<1> QED
  BY <1>2, <1>3 DEF Conclude

-----------------------------------------------------------------------------
LEMMA InitStore == StoreInit => StoreInv
<1> SUFFICES ASSUME StoreInit PROVE StoreInv
  OBVIOUS
<1>1. StoreTypeOK
  <2>1. /\ engine \in {"audd", "acrcloud"} /\ state \in States /\ step \in Steps
        /\ post \in {"none", "flying", "accepted", "refused"} /\ billed \in 0..Units
        /\ reserved \in Nat /\ budget \in [max : Nat, reserved : Nat, used : Nat]
    BY StoreBounded DEF StoreInit, States, Steps
  <2>2. {submitted_at, remote_ref, result_path, recent, known, unanswered} \subseteq BOOLEAN
    BY DEF StoreInit
  <2>3. {late, accepted, charged, opens, acknowledged} \subseteq Nat
    BY DEF StoreInit
  <2> QED
    BY <2>1, <2>2, <2>3 DEF StoreTypeOK
<1>2. StepsAreRows /\ ReservationsAreKept
  BY StoreBounded DEF StoreInit, StepsAreRows, ReservationsAreKept, Reserving
<1>3. ChargesAreCovered
  BY WorthIs DEF StoreInit, ChargesAreCovered, Owed, Flying
<1>4. UploadsAreKnown
  BY DEF StoreInit, UploadsAreKnown, Flying
<1> QED
  BY <1>1, <1>2, <1>3, <1>4 DEF StoreInv

LEMMA StepStore == StoreInv /\ [StoreNext]_storeVars => StoreInv'
<1> SUFFICES ASSUME StoreInv, [StoreNext]_storeVars PROVE StoreInv'
  OBVIOUS
<1>1. CASE Open \/ Acknowledge \/ Prepare \/ Extend \/ Reset
  BY <1>1, OpenKeeps, AcknowledgeKeeps, PrepareKeeps, ExtendKeeps, ResetKeeps
<1>2. CASE Lease \/ Reserve \/ Start \/ List \/ Upload
  BY <1>2, LeaseKeeps, ReserveKeeps, StartKeeps, ListKeeps, UploadKeeps
<1>3. CASE Accept \/ Refuse \/ AcceptLate \/ Hear \/ Submitted
  BY <1>3, AcceptKeeps, RefuseKeeps, AcceptLateKeeps, HearKeeps, SubmittedKeeps
<1>4. CASE Poll \/ Write \/ Conclude \/ Crash \/ Age
  BY <1>4, PollKeeps, WriteKeeps, ConcludeKeeps, CrashKeeps, AgeKeeps
<1>5. CASE UNCHANGED storeVars
  BY <1>5 DEF storeVars, StoreInv, StoreTypeOK, StepsAreRows, ReservationsAreKept, Reserving,
              ChargesAreCovered, UploadsAreKnown, Unsent, Owed, Flying
<1> QED
  BY <1>1, <1>2, <1>3, <1>4, <1>5 DEF StoreNext

\* What the row, its reservation and the driver say of what was sent, in every reachable state.
THEOREM RowsTellWhatWasSent == StoreSpec => []StoreInv
BY InitStore, StepStore, PTL DEF StoreSpec

\* The budget has, spent or reserved, what the provider charged, and keeps to its ceiling.
THEOREM BudgetsCover == StoreSpec => []BudgetCoversCharges
<1>1. StoreInv => BudgetCoversCharges
  <2> SUFFICES ASSUME StoreInv PROVE BudgetCoversCharges
    OBVIOUS
  <2>1. charged <= Owed
    BY WorthIs DEF StoreInv, StoreTypeOK, Owed, Flying
  <2>2. {charged, budget.used, budget.reserved} \subseteq Nat /\ Owed \in Nat
    BY WorthIs, StoreBounded DEF StoreInv, StoreTypeOK, Owed, Flying
  <2> QED
    BY <2>1, <2>2 DEF StoreInv, ReservationsAreKept, ChargesAreCovered, BudgetCoversCharges
<1> QED
  BY <1>1, RowsTellWhatWasSent, PTL

\* AudD gets no second upload before the row says how the one before it ended or someone
\* acknowledged it; ACRCloud holds a second copy only where someone acknowledged.
THEOREM NothingIsResubmittedBlindly == StoreSpec => []NoBlindResubmission
<1>1. StoreInv => NoBlindResubmission
  BY DEF StoreInv, StoreTypeOK, UploadsAreKnown, Unsent, Flying, NoBlindResubmission
<1> QED
  BY <1>1, RowsTellWhatWasSent, PTL

-----------------------------------------------------------------------------
(* The breaker: what is asked for, and how often. *)

Below == {ss \in Nat \X Nat : ss[1] < ss[2]}

LEMMA BelowIsWellFounded == IsWellFoundedOn(Below, Nat)
BY NatLessThanWellFounded DEF OpToRel, Below

LEMMA BelowIsLess == \A x, y \in Nat : x < y => <<x, y>> \in Below
BY DEF Below

\* A bounded set of numbers has a greatest: n less the least of the distances to n.
LEMMA MaxIsIn ==
    ASSUME NEW S \in SUBSET Nat, S # {}, NEW n \in Nat, \A x \in S : x <= n
    PROVE  Max(S) \in S /\ \A x \in S : Max(S) >= x
<1> DEFINE T == {n - x : x \in S}
<1>1. T \subseteq Nat /\ T # {}
  <2>1. \A x \in S : n - x \in Nat
    OBVIOUS
  <2> QED
    BY <2>1
<1>2. \A y \in S : n - y \in T
  OBVIOUS
<1>3. \A u \in T : \E x \in S : u = n - x
  OBVIOUS
<1> HIDE DEF T
<1>4. PICK t \in T : \A u \in T : <<u, t>> \notin Below
  BY <1>1, WFMin, BelowIsWellFounded
<1>5. \A u \in T : u >= t
  <2> SUFFICES ASSUME NEW u \in T PROVE u >= t
    OBVIOUS
  <2>1. u \in Nat /\ t \in Nat
    BY <1>1
  <2>2. ~(u < t)
    BY <1>4, <2>1, BelowIsLess, Zenon
  <2> QED
    BY <2>1, <2>2
<1>6. PICK x \in S : t = n - x
  BY <1>3
<1>7. \A y \in S : x >= y
  BY <1>2, <1>5, <1>6
<1> QED
  BY <1>7 DEF Max

LEMMA DaysGoOn ==
    /\ \A t \in Nat : Today(t) \in Nat
    /\ \A s, t \in Nat : s <= t => Today(s) <= Today(t)
    /\ \A t \in 0..MaxTime : Today(t) \in Days
<1>1. DayLength \in Nat /\ DayLength > 0 /\ MaxTime \in Nat
  BY BreakerBounded
<1>2. \A t \in Nat : /\ Today(t) \in Nat /\ DayLength * Today(t) <= t
                     /\ t < DayLength * (Today(t) + 1)
  BY <1>1 DEF Today
<1>3. ASSUME NEW s \in Nat, NEW t \in Nat, s <= t PROVE Today(s) <= Today(t)
  <2>1. PICK a \in Nat, b \in Nat : a = Today(s) /\ b = Today(t)
    BY <1>2
  <2>2. DayLength * a < DayLength * (b + 1)
    BY <1>1, <1>2, <1>3, <2>1
  <2>3. ASSUME a >= b + 1 PROVE FALSE
    <3>1. PICK c \in Nat : a = b + 1 + c
      BY <2>3
    <3>2. DayLength * a = DayLength * (b + 1) + DayLength * c
      BY <1>1, <3>1
    <3>3. DayLength * c \in Nat
      BY <1>1
    <3> QED
      BY <1>1, <2>2, <3>2, <3>3
  <2> QED
    BY <2>1, <2>3
<1> QED
  BY <1>1, <1>2, <1>3 DEF Days

\* The requesters that may yet be sent on a judgement that did not see all of a day's requests.
Loose(d) ==
    {p \in Requesters : (asking[p] = "admitted" /\ ~free[p]) \/ Today(moment[p]) < d}

\* A day that has not come has no requests.  Today, every requester that is loose has its place
\* below the bound.
DaysAreKept ==
    \A d \in Days :
        /\ dispatched[d].held < DailyBudget + Cardinality(Requesters)
        /\ d > Today(clock) => dispatched[d].held = 0
        /\ d = Today(clock) =>
              dispatched[d].held + Cardinality(Loose(d)) < DailyBudget + Cardinality(Requesters)

FreshUntilWritten == breakerRow.day = Never => breakerRow = FreshRow

MomentsArePast == \A p \in Requesters : moment[p] <= clock

BreakerInv == BreakerTypeOK /\ FreshUntilWritten /\ MomentsArePast /\ DaysAreKept

\* The judgement, step by step.

RowHas(row) ==
    /\ row \in Rows
    /\ row.day \in Days \cup {Never} /\ row.opens \in Nat /\ row.open_until \in Nat \cup {Never}
    /\ row.latched \in BOOLEAN /\ row.reenable_generation \in Nat
    /\ row.reenabled_at \in Nat \cup {Never} /\ row.cursor \in Nat

LEMMA RowsHave == \A row \in Rows : RowHas(row)
BY DEF Rows, RowHas

LEMMA FreshIs ==
    ASSUME NEW day \in Days
    PROVE  /\ FreshRow \in Rows /\ [FreshRow EXCEPT !.day = day] \in Rows
           /\ [FreshRow EXCEPT !.day = day].day = day
           /\ [FreshRow EXCEPT !.day = day].opens = 0
           /\ [FreshRow EXCEPT !.day = day].open_until = FreshRow.open_until
           /\ ~[FreshRow EXCEPT !.day = day].latched
           /\ [FreshRow EXCEPT !.day = day].reenable_generation = FreshRow.reenable_generation
           /\ [FreshRow EXCEPT !.day = day].reenabled_at = FreshRow.reenabled_at
           /\ [FreshRow EXCEPT !.day = day].cursor = FreshRow.cursor
           /\ FreshRow.opens = 0 /\ ~FreshRow.latched
BY DEF FreshRow, Rows

LEMMA ReenabledIs ==
    ASSUME NEW row \in Rows, NEW time \in 0..MaxTime, NEW configured \in Nat
    PROVE  LET r == Reenabled(row, time, configured)
           IN  /\ RowHas(r) /\ r.day = row.day /\ r.cursor = row.cursor
               /\ r.reenabled_at = Cutoff(row, time, configured)
               /\ \/ r = row
                  \/ /\ ~r.latched /\ r.opens = 0 /\ r.open_until = Never
                     /\ r.reenable_generation > row.reenable_generation
<1>1. RowHas(row) /\ time \in Nat
  BY RowsHave, BreakerBounded
<1>2. CASE configured > row.reenable_generation
  BY <1>1, <1>2 DEF Reenabled, Cutoff, RowHas, Rows
<1>3. CASE ~(configured > row.reenable_generation)
  BY <1>1, <1>3 DEF Reenabled, Cutoff, RowHas
<1> QED
  BY <1>2, <1>3

LEMMA NewDayIs ==
    ASSUME NEW row \in Rows, NEW today \in Days
    PROVE  LET r == NewDay(row, today)
           IN  /\ RowHas(r) /\ r.day = today /\ r.cursor = row.cursor
               /\ r.opens = (IF row.day = today THEN row.opens ELSE 0)
               /\ r.reenabled_at = row.reenabled_at /\ r.latched = row.latched
               /\ r.open_until = row.open_until
               /\ r.reenable_generation = row.reenable_generation
BY RowsHave DEF NewDay, RowHas, Rows

LEMMA SampleIs ==
    ASSUME BreakerTypeOK, NEW time, NEW since
    PROVE  /\ Sample(time, since) \subseteq DOMAIN resolved
           /\ \A e \in Sample(time, since) : resolved[e].at > since
           /\ NewestOf(Sample(time, since)) \in Sample(time, since) \cup {0}
           /\ NewestOf(Sample(time, since)) \in Nat
<1>1. Sample(time, since) \subseteq DOMAIN resolved
      /\ \A e \in Sample(time, since) : resolved[e].at > since
  BY DEF Sample
<1>2. PICK n \in Nat : DOMAIN resolved = 1..n
  BY DEF BreakerTypeOK
<1>3. PICK S \in SUBSET Nat : S = Sample(time, since) \cup {0}
  <2>1. Sample(time, since) \cup {0} \in SUBSET Nat
    BY <1>1, <1>2
  <2> QED
    BY <2>1, Zenon
<1>4. S # {} /\ \A x \in S : x <= n
  BY <1>1, <1>2, <1>3
<1>5. Max(S) \in S
  BY <1>4, MaxIsIn
<1> QED
  BY <1>1, <1>3, <1>5 DEF NewestOf

\* What a trip finds and leaves.
LEMMA TripIs ==
    ASSUME BreakerTypeOK, NEW row \in Rows, NEW time \in 0..MaxTime, NEW since
    PROVE  LET r == Trip(row, time, Sample(time, since))
           IN  /\ RowHas(r) /\ r.day = row.day /\ r.reenabled_at = row.reenabled_at
               /\ r.reenable_generation = row.reenable_generation
               /\ \/ r = row
                  \/ /\ r.opens = row.opens + 1 /\ ~row.latched
                     /\ row.open_until <= Tripped(r)
                     /\ \E e \in DOMAIN resolved : resolved[e].at > since /\ e > row.cursor
<1>1. RowHas(row) /\ time \in Nat /\ Cooldown \in Nat
  BY RowsHave, BreakerBounded
<1> DEFINE newest == NewestOf(Sample(time, since))
<1>2. newest \in Nat
  BY SampleIs
<1>3. CASE Tripping(row, time, Sample(time, since))
  <2>1. newest > row.cursor /\ ~row.latched /\ ~(time < row.open_until)
    BY <1>3 DEF Tripping
  <2>2. newest \in Sample(time, since)
    BY <1>1, <1>2, <2>1, SampleIs DEF RowHas
  <2>3. newest \in DOMAIN resolved /\ resolved[newest].at > since
    BY <2>2, SampleIs
  <2> HIDE DEF newest
  <2>4. PICK latch \in BOOLEAN : latch = (row.opens + 1 >= LatchCount)
    <3>1. (row.opens + 1 >= LatchCount) \in BOOLEAN
      BY <1>1, BreakerBounded DEF RowHas
    <3> QED
      BY <3>1, Zenon
  <2>5. Trip(row, time, Sample(time, since)) =
            [row EXCEPT !.opens = row.opens + 1, !.open_until = time + Cooldown,
                        !.latched = latch, !.cursor = newest]
    BY <1>3, <2>4 DEF Trip, newest
  <2>6. row.opens + 1 \in Nat /\ time + Cooldown \in Nat
    BY <1>1 DEF RowHas
  <2>7. RowHas(Trip(row, time, Sample(time, since)))
    BY <1>1, <1>2, <2>5, <2>6 DEF RowHas, Rows
  <2>8. LET r == Trip(row, time, Sample(time, since))
        IN  /\ r.day = row.day /\ r.reenabled_at = row.reenabled_at
            /\ r.reenable_generation = row.reenable_generation /\ r.opens = row.opens + 1
            /\ r.open_until = time + Cooldown
    BY <1>1, <2>5 DEF Rows
  <2>9. row.open_until <= Tripped(Trip(row, time, Sample(time, since)))
    <3>1. row.open_until \in Int /\ time + Cooldown - Cooldown = time
      BY <1>1 DEF RowHas, Never
    <3> QED
      BY <1>1, <2>1, <2>8, <3>1 DEF Tripped
  <2> QED
    BY <2>1, <2>3, <2>7, <2>8, <2>9
<1>4. CASE ~Tripping(row, time, Sample(time, since))
  BY <1>1, <1>4 DEF Trip
<1> QED
  BY <1>3, <1>4

\* The row that is judged counts its trip, and says no more than the row that was read.
Counted(row, judged) ==
    /\ judged.open_until # Never
    /\ judged.open_until # row.open_until \/ judged.opens > row.opens
    =>  /\ \/ judged.reenable_generation > row.reenable_generation
           \/ ~row.latched /\ row.open_until <= Tripped(judged)
        /\ \E e \in DOMAIN resolved : resolved[e].at > judged.reenabled_at /\ e > row.cursor
        /\ judged.opens = 1 + (IF /\ judged.day = row.day
                                  /\ judged.reenable_generation = row.reenable_generation
                               THEN row.opens ELSE 0)

LEMMA JudgeIs ==
    ASSUME BreakerTypeOK, NEW row \in Rows, NEW time \in 0..MaxTime, NEW configured \in Nat
    PROVE  LET judged == Judge(row, time, configured)
           IN  /\ judged.row \in Rows /\ judged.row.day = Today(time)
               /\ judged.refused \in BOOLEAN
               /\ ~judged.refused => Used(Today(time)) < DailyBudget
               /\ Counted(row, judged.row)
<1>1. Today(time) \in Days /\ RowHas(row)
  BY DaysGoOn, RowsHave
<1> DEFINE since == Cutoff(row, time, configured)
<1>2. PICK r1 \in Rows : r1 = Reenabled(row, time, configured)
  BY ReenabledIs DEF RowHas
<1>3. /\ RowHas(r1) /\ r1.day = row.day /\ r1.cursor = row.cursor /\ r1.reenabled_at = since
      /\ \/ r1 = row
         \/ /\ ~r1.latched /\ r1.opens = 0 /\ r1.open_until = Never
            /\ r1.reenable_generation > row.reenable_generation
  BY <1>2, ReenabledIs
<1>4. PICK r2 \in Rows : r2 = NewDay(r1, Today(time))
  BY <1>1, NewDayIs DEF RowHas
<1>5. /\ RowHas(r2) /\ r2.day = Today(time) /\ r2.cursor = r1.cursor
      /\ r2.opens = (IF r1.day = Today(time) THEN r1.opens ELSE 0)
      /\ r2.reenabled_at = r1.reenabled_at /\ r2.latched = r1.latched
      /\ r2.open_until = r1.open_until /\ r2.reenable_generation = r1.reenable_generation
  BY <1>1, <1>4, NewDayIs
<1>6. PICK r3 \in Rows : r3 = Trip(r2, time, Sample(time, since))
  BY TripIs DEF RowHas
<1>7. /\ RowHas(r3) /\ r3.day = r2.day /\ r3.reenabled_at = r2.reenabled_at
      /\ r3.reenable_generation = r2.reenable_generation
      /\ \/ r3 = r2
         \/ /\ r3.opens = r2.opens + 1 /\ ~r2.latched
            /\ r2.open_until <= Tripped(r3)
            /\ \E e \in DOMAIN resolved : resolved[e].at > since /\ e > r2.cursor
  BY <1>6, TripIs
<1>8. Counted(row, r3)
  BY <1>1, <1>3, <1>5, <1>7 DEF Counted, RowHas, Never
<1>9. Judge(row, time, configured).row = r3
  BY <1>2, <1>4, <1>6 DEF Judge
<1>10. Judge(row, time, configured).refused = Refuses(r3, time)
  BY <1>2, <1>4, <1>6 DEF Judge
<1>11. PICK used : used = Used(Today(time))
  OBVIOUS
<1>12. used \in Nat
  BY <1>1, <1>11 DEF BreakerTypeOK, Used
<1>13. Refuses(r3, time) \in BOOLEAN /\ (~Refuses(r3, time) => used < DailyBudget)
  BY <1>11, <1>12, BreakerBounded DEF Refuses
<1> QED
  BY <1>5, <1>7, <1>8, <1>9, <1>10, <1>11, <1>13

\* The row that a judgement starts from.
LEMMA ReadIs ==
    ASSUME BreakerTypeOK, FreshUntilWritten, NEW today \in Days
    PROVE  LET row == ReadState(today)
           IN  /\ row \in Rows
               /\ row.opens = breakerRow.opens /\ row.open_until = breakerRow.open_until
               /\ row.latched = breakerRow.latched /\ row.cursor = breakerRow.cursor
               /\ row.reenable_generation = breakerRow.reenable_generation
               /\ row.day = IF breakerRow.day = Never THEN today ELSE breakerRow.day
<1>1. CASE breakerRow.day = Never
  BY <1>1, FreshIs DEF ReadState, FreshUntilWritten
<1>2. CASE breakerRow.day # Never
  BY <1>2 DEF ReadState, BreakerTypeOK
<1> QED
  BY <1>1, <1>2

LEMMA LooseIsFinite ==
    /\ Cardinality(Requesters) \in Nat
    /\ \A d : /\ Loose(d) \in SUBSET Requesters /\ IsFiniteSet(Loose(d))
              /\ Cardinality(Loose(d)) \in Nat
              /\ Cardinality(Loose(d)) <= Cardinality(Requesters)
<1>1. \A d : Loose(d) \subseteq Requesters
  BY DEF Loose
<1> QED
  BY <1>1, FS_Subset, FS_CardinalityType, BreakerBounded

\* Nothing is sent and no new requester is loose today, unless the day's requests have room.
LEMMA NothingIsSent ==
    ASSUME BreakerInv, UNCHANGED <<clock, dispatched>>,
           \/ Loose(Today(clock))' \subseteq Loose(Today(clock))
           \/ dispatched[Today(clock)].held < DailyBudget
    PROVE  DaysAreKept'
<1>1. Today(clock) \in Days
  BY DaysGoOn DEF BreakerInv, BreakerTypeOK
<1> DEFINE now == Today(clock)
<1>2. PICK before \in SUBSET Requesters, after \in SUBSET Requesters :
          before = Loose(now) /\ after = Loose(now)'
  <2>1. Loose(now) \in SUBSET Requesters /\ Loose(now)' \in SUBSET Requesters
    BY DEF Loose
  <2> QED
    BY <2>1, Zenon
<1>3. /\ {Cardinality(before), Cardinality(after), Cardinality(Requesters)} \subseteq Nat
      /\ Cardinality(after) <= Cardinality(Requesters)
      /\ after \subseteq before => Cardinality(after) <= Cardinality(before)
  BY FS_Subset, FS_CardinalityType, BreakerBounded
<1>4. dispatched[now].held \in Nat /\ DailyBudget \in Nat
  BY <1>1, BreakerBounded DEF BreakerInv, BreakerTypeOK
<1>5. dispatched[now].held + Cardinality(before) < DailyBudget + Cardinality(Requesters)
  BY <1>1, <1>2 DEF BreakerInv, DaysAreKept
<1>6. dispatched[now].held + Cardinality(after) < DailyBudget + Cardinality(Requesters)
  BY <1>2, <1>3, <1>4, <1>5
<1>7. Today(clock)' = now
  BY DEF Today
<1>8. Loose(Today(clock))' = after
  BY <1>2, <1>7 DEF Loose
<1> HIDE DEF now
<1> QED
  BY <1>6, <1>7, <1>8 DEF BreakerInv, DaysAreKept

\* A requester asks: it is loose afterwards only if it was, or if it is admitted on a count
\* that has room, or if it is to judge with the time it took, which is not before the last.
LEMMA AskingKeeps ==
    ASSUME BreakerInv, UNCHANGED <<clock, dispatched>>, NEW p \in Requesters,
           NEW where \in {"idle", "differs", "admitted"}, NEW f \in BOOLEAN,
           NEW time \in moment[p]..clock,
           asking' = [asking EXCEPT ![p] = where], free' = [free EXCEPT ![p] = f],
           moment' = [moment EXCEPT ![p] = time],
           \/ dispatched[Today(clock)].held < DailyBudget
           \/ p \in Loose(Today(clock))
           \/ Today(time) = Today(clock) /\ (where = "admitted" => f)
    PROVE  /\ asking' \in [Requesters -> {"idle", "differs", "admitted"}]
           /\ free' \in [Requesters -> BOOLEAN] /\ moment' \in [Requesters -> 0..MaxTime]
           /\ MomentsArePast' /\ DaysAreKept'
<1>1. /\ asking \in [Requesters -> {"idle", "differs", "admitted"}]
      /\ free \in [Requesters -> BOOLEAN] /\ moment \in [Requesters -> 0..MaxTime]
      /\ clock \in 0..MaxTime /\ MaxTime \in Nat /\ clock \in Nat /\ \A q \in Requesters : moment[q] <= clock
  BY BreakerBounded DEF BreakerInv, BreakerTypeOK, MomentsArePast
<1>2. time \in 0..MaxTime /\ time <= clock
  BY <1>1
<1>3. \A q \in Requesters : q # p => asking'[q] = asking[q] /\ free'[q] = free[q] /\ moment'[q] = moment[q]
  BY <1>1
<1>4. asking'[p] = where /\ free'[p] = f /\ moment'[p] = time
  BY <1>1
<1>5. /\ asking' \in [Requesters -> {"idle", "differs", "admitted"}]
      /\ free' \in [Requesters -> BOOLEAN] /\ moment' \in [Requesters -> 0..MaxTime]
  BY <1>1, <1>2
<1>6. MomentsArePast'
  BY <1>1, <1>2, <1>3, <1>4 DEF MomentsArePast
<1>7. \/ Loose(Today(clock))' \subseteq Loose(Today(clock))
      \/ dispatched[Today(clock)].held < DailyBudget
  <2>1. PICK today \in Nat : today = Today(clock)
    BY <1>1, DaysGoOn
  <2>2. today' = Today(clock)'
    BY <2>1 DEF Today
  <2>3. Loose(Today(clock))' =
            {q \in Requesters : (asking'[q] = "admitted" /\ ~free'[q]) \/ Today(moment'[q]) < today}
    BY <2>1 DEF Loose, Today
  <2>4. \A q \in Requesters : q # p /\ q \in Loose(Today(clock))' => q \in Loose(Today(clock))
    BY <1>3, <2>1, <2>3 DEF Loose
  <2>5. CASE Today(time) = Today(clock) /\ (where = "admitted" => f)
    <3>1. ~(Today(moment'[p]) < today)
      BY <1>4, <2>1, <2>5
    <3>2. p \notin Loose(Today(clock))'
      BY <1>4, <2>3, <2>5, <3>1
    <3> QED
      BY <2>3, <2>4, <3>2
  <2> QED
    BY <2>3, <2>4, <2>5
<1> QED
  BY <1>5, <1>6, <1>7, NothingIsSent

\* What a judgement admits that is not free, or that was taken on an earlier day, keeps the count.
LEMMA AdmittedHasRoom ==
    ASSUME BreakerInv, NEW p \in Requesters, NEW time \in moment[p]..clock,
           NEW row \in Rows, NEW f \in BOOLEAN,
           NEW refused, refused = Judge(row, time, generation).refused,
           asking[p] = "differs" => time = moment[p]
    PROVE  /\ Admits(refused, f) \in BOOLEAN /\ refused \in BOOLEAN
           /\ \/ dispatched[Today(clock)].held < DailyBudget
              \/ p \in Loose(Today(clock))
              \/ Admits(refused, f) => f
<1>1. /\ time \in 0..MaxTime /\ generation \in Nat /\ clock \in 0..MaxTime /\ clock \in Nat
      /\ time \in Nat /\ moment[p] \in Nat /\ moment[p] <= time /\ time <= clock
  BY BreakerBounded DEF BreakerInv, BreakerTypeOK
<1>2. refused \in BOOLEAN /\ (~refused => Used(Today(time)) < DailyBudget)
  BY <1>1, JudgeIs DEF BreakerInv
<1>3. PICK then \in Days, today \in Days : then = Today(time) /\ today = Today(clock)
  BY <1>1, DaysGoOn
<1>4. then \in Nat /\ today \in Nat /\ then <= today /\ Today(moment[p]) <= then
  BY <1>1, <1>3, DaysGoOn
<1>5. CASE then = today
  <2>1. dispatched[today].held \in Nat /\ dispatched[today].free \in Nat
    BY <1>3 DEF BreakerInv, BreakerTypeOK
  <2>2. ~refused => dispatched[today].held < DailyBudget
    BY <1>2, <1>3, <1>5, <2>1, BreakerBounded DEF Used
  <2> QED
    BY <1>2, <1>3, <2>2 DEF Admits
<1>6. CASE then < today
  <2>1. Today(moment[p]) \in Nat
    BY <1>1, DaysGoOn
  <2>2. Today(moment[p]) < Today(clock)
    BY <1>3, <1>4, <1>6, <2>1
  <2> QED
    BY <1>2, <2>2 DEF Admits, Loose
<1> QED
  BY <1>4, <1>5, <1>6

\* An answer to a requester that was not admitted yet.
LEMMA AnswerKeeps ==
    ASSUME BreakerInv, UNCHANGED <<clock, dispatched>>, NEW p \in Requesters,
           NEW refused \in BOOLEAN, NEW f \in BOOLEAN, Answer(p, refused, f),
           \/ dispatched[Today(clock)].held < DailyBudget
           \/ p \in Loose(Today(clock))
           \/ Admits(refused, f) => f
    PROVE  /\ asking' \in [Requesters -> {"idle", "differs", "admitted"}]
           /\ free' \in [Requesters -> BOOLEAN] /\ moment' \in [Requesters -> 0..MaxTime]
           /\ MomentsArePast' /\ DaysAreKept'
<1>1. PICK where \in {"idle", "differs", "admitted"} :
          where = IF Admits(refused, f) THEN "admitted" ELSE "idle"
  OBVIOUS
<1>2. PICK g \in BOOLEAN : g = (f /\ Admits(refused, f))
  <2>1. (f /\ Admits(refused, f)) \in BOOLEAN
    BY DEF Admits
  <2> QED
    BY <2>1, Zenon
<1>3. PICK time \in moment[p]..clock : time = clock
  BY BreakerBounded DEF BreakerInv, BreakerTypeOK, MomentsArePast
<1>4. /\ asking' = [asking EXCEPT ![p] = where] /\ free' = [free EXCEPT ![p] = g]
      /\ moment' = [moment EXCEPT ![p] = time]
  BY <1>1, <1>2, <1>3, Zenon DEF Answer
<1>5. \/ dispatched[Today(clock)].held < DailyBudget
      \/ p \in Loose(Today(clock))
      \/ Today(time) = Today(clock) /\ (where = "admitted" => g)
  BY <1>1, <1>2, <1>3
<1> QED
  BY <1>4, <1>5, AskingKeeps

LEMMA ViewKeeps ==
    ASSUME BreakerInv, NEW p \in Requesters, View(p) PROVE BreakerInv'
<1>1. PICK f \in BOOLEAN, time \in moment[p]..clock :
          LET row == ReadState(Today(time))
              judged == Judge(row, time, generation)
          IN /\ asking[p] = "idle"
             /\ IF judged.row = row
                THEN Answer(p, judged.refused, f)
                ELSE /\ asking' = [asking EXCEPT ![p] = "differs"]
                     /\ free' = [free EXCEPT ![p] = f]
                     /\ moment' = [moment EXCEPT ![p] = time]
             /\ UNCHANGED <<clock, breakerRow, resolved, dispatched, generation>>
  BY Zenon DEF View
<1>2. /\ time \in 0..MaxTime /\ time \in Nat /\ clock \in Nat /\ moment[p] \in Nat
      /\ moment[p] <= time /\ time <= clock /\ Today(time) \in Days
  <2>1. clock \in 0..MaxTime /\ moment[p] \in 0..MaxTime /\ MaxTime \in Nat
    BY BreakerBounded DEF BreakerInv, BreakerTypeOK
  <2> QED
    BY <2>1, DaysGoOn
<1>3. PICK row \in Rows : row = ReadState(Today(time))
  BY <1>2, ReadIs DEF BreakerInv
<1>4. PICK refused : refused = Judge(row, time, generation).refused
  OBVIOUS
<1>5. /\ asking' \in [Requesters -> {"idle", "differs", "admitted"}]
      /\ free' \in [Requesters -> BOOLEAN] /\ moment' \in [Requesters -> 0..MaxTime]
      /\ MomentsArePast' /\ DaysAreKept'
  <2>1. CASE Answer(p, refused, f)
    BY <1>1, <1>4, <2>1, AdmittedHasRoom, AnswerKeeps
  <2>2. CASE /\ asking' = [asking EXCEPT ![p] = "differs"] /\ free' = [free EXCEPT ![p] = f]
             /\ moment' = [moment EXCEPT ![p] = time]
    <3>1. p \in Loose(Today(clock)) \/ Today(time) = Today(clock)
      <4>1. PICK a \in Nat, b \in Nat, c \in Nat :
                a = Today(moment[p]) /\ b = Today(time) /\ c = Today(clock)
        BY <1>2, DaysGoOn
      <4>2. a <= b /\ b <= c
        BY <1>2, <4>1, DaysGoOn
      <4> QED
        BY <4>1, <4>2 DEF Loose
    <3> QED
      BY <1>1, <2>2, <3>1, AskingKeeps
  <2> QED
    BY <1>1, <1>3, <1>4, <2>1, <2>2
<1> QED
  BY <1>1, <1>5 DEF BreakerInv, BreakerTypeOK, FreshUntilWritten

LEMMA JudgeAgainKeeps ==
    ASSUME BreakerInv, NEW p \in Requesters, JudgeAgain(p) PROVE BreakerInv'
<1>1. /\ moment[p] \in 0..MaxTime /\ moment[p] \in Nat /\ clock \in Nat /\ generation \in Nat
      /\ moment[p] <= clock /\ free[p] \in BOOLEAN /\ Today(moment[p]) \in Days
  BY BreakerBounded, DaysGoOn DEF BreakerInv, BreakerTypeOK, MomentsArePast
<1>2. PICK row \in Rows : row = ReadState(Today(moment[p]))
  BY <1>1, ReadIs DEF BreakerInv
<1>3. PICK refused : refused = Judge(row, moment[p], generation).refused
  OBVIOUS
<1>4. /\ asking[p] = "differs" /\ UNCHANGED <<clock, resolved, dispatched, generation>>
      /\ \/ breakerRow' = breakerRow
         \/ breakerRow' = Judge(row, moment[p], generation).row
      /\ Answer(p, refused, free[p])
  BY <1>2, <1>3 DEF JudgeAgain
<1>5. /\ asking' \in [Requesters -> {"idle", "differs", "admitted"}]
      /\ free' \in [Requesters -> BOOLEAN] /\ moment' \in [Requesters -> 0..MaxTime]
      /\ MomentsArePast' /\ DaysAreKept'
  BY <1>1, <1>3, <1>4, AdmittedHasRoom, AnswerKeeps
<1>6. breakerRow' \in Rows /\ FreshUntilWritten'
  <2>1. /\ Judge(row, moment[p], generation).row \in Rows
        /\ Judge(row, moment[p], generation).row.day \in Days
    BY <1>1, JudgeIs DEF BreakerInv
  <2>2. Never \notin Days
    BY DEF Days, Never
  <2>3. CASE breakerRow' = breakerRow
    BY <2>3 DEF BreakerInv, BreakerTypeOK, FreshUntilWritten
  <2>4. CASE breakerRow' = Judge(row, moment[p], generation).row
    BY <2>1, <2>2, <2>4 DEF FreshUntilWritten
  <2> QED
    BY <1>4, <2>3, <2>4
<1> QED
  BY <1>4, <1>5, <1>6 DEF BreakerInv, BreakerTypeOK

\* A request that was admitted is over: its requester is loose no more.
LEMMA OverIs ==
    ASSUME BreakerInv, UNCHANGED clock, NEW p \in Requesters, Over(p)
    PROVE  /\ asking' \in [Requesters -> {"idle", "differs", "admitted"}]
           /\ free' \in [Requesters -> BOOLEAN] /\ moment' \in [Requesters -> 0..MaxTime]
           /\ MomentsArePast'
           /\ Loose(Today(clock))' \subseteq Loose(Today(clock)) \ {p}
<1>1. /\ asking \in [Requesters -> {"idle", "differs", "admitted"}]
      /\ free \in [Requesters -> BOOLEAN] /\ moment \in [Requesters -> 0..MaxTime]
      /\ clock \in 0..MaxTime /\ clock \in Nat /\ \A q \in Requesters : moment[q] <= clock
  BY BreakerBounded DEF BreakerInv, BreakerTypeOK, MomentsArePast
<1>2. PICK today \in Nat : today = Today(clock)
  BY <1>1, DaysGoOn
<1>3. Loose(Today(clock))' =
          {q \in Requesters : (asking'[q] = "admitted" /\ ~free'[q]) \/ Today(moment'[q]) < today}
  BY <1>2 DEF Loose, Today
<1>4. asking'[p] = "idle" /\ moment'[p] = clock
  BY <1>1 DEF Over
<1>5. \A q \in Requesters : q # p => asking'[q] = asking[q] /\ free'[q] = free[q] /\ moment'[q] = moment[q]
  BY <1>1 DEF Over
<1>6. p \notin Loose(Today(clock))'
  BY <1>2, <1>3, <1>4
<1>7. \A q \in Requesters : q # p /\ q \in Loose(Today(clock))' => q \in Loose(Today(clock))
  BY <1>2, <1>3, <1>5 DEF Loose
<1>8. Loose(Today(clock))' \subseteq Loose(Today(clock)) \ {p}
  BY <1>3, <1>6, <1>7
<1>9. MomentsArePast'
  BY <1>1, <1>4, <1>5 DEF MomentsArePast
<1>10. /\ asking' \in [Requesters -> {"idle", "differs", "admitted"}]
       /\ free' \in [Requesters -> BOOLEAN] /\ moment' \in [Requesters -> 0..MaxTime]
  BY <1>1 DEF Over
<1> QED
  BY <1>8, <1>9, <1>10

LEMMA GiveUpKeeps ==
    ASSUME BreakerInv, NEW p \in Requesters, GiveUp(p) PROVE BreakerInv'
<1>1. Over(p) /\ UNCHANGED <<clock, breakerRow, resolved, dispatched, generation>>
  BY DEF GiveUp
<1>2. DaysAreKept'
  BY <1>1, OverIs, NothingIsSent
<1> QED
  BY <1>1, <1>2, OverIs DEF BreakerInv, BreakerTypeOK, FreshUntilWritten

\* The requests of a day after one more was sent.
LEMMA OneMore ==
    ASSUME BreakerTypeOK, NEW p \in Requesters, Dispatch(p)
    PROVE  /\ dispatched' \in [Days -> [free : Nat, held : Nat]]
           /\ \A d \in Days : d # Today(clock) => dispatched'[d].held = dispatched[d].held
           /\ dispatched'[Today(clock)].held
                  = dispatched[Today(clock)].held + (IF free[p] THEN 0 ELSE 1)
<1>1. Today(clock) \in Days
  BY DaysGoOn DEF BreakerTypeOK
<1>2. PICK row \in [free : Nat, held : Nat] : row = dispatched[Today(clock)]
  BY <1>1 DEF BreakerTypeOK
<1>3. PICK one \in [free : Nat, held : Nat] :
          /\ one = IF free[p] THEN [row EXCEPT !.free = @ + 1] ELSE [row EXCEPT !.held = @ + 1]
          /\ one.held = row.held + (IF free[p] THEN 0 ELSE 1)
  <2>1. [row EXCEPT !.free = @ + 1] \in [free : Nat, held : Nat]
        /\ [row EXCEPT !.free = @ + 1].held = row.held + 0
    OBVIOUS
  <2>2. [row EXCEPT !.held = @ + 1] \in [free : Nat, held : Nat]
        /\ [row EXCEPT !.held = @ + 1].held = row.held + 1
    OBVIOUS
  <2> QED
    BY <2>1, <2>2
<1>4. dispatched' = [dispatched EXCEPT ![Today(clock)] = one]
  BY <1>1, <1>2, <1>3 DEF Dispatch, BreakerTypeOK
<1>5. dispatched \in [Days -> [free : Nat, held : Nat]]
  BY DEF BreakerTypeOK
<1> QED
  BY <1>1, <1>2, <1>3, <1>4, <1>5

LEMMA DispatchKeeps ==
    ASSUME BreakerInv, NEW p \in Requesters, Dispatch(p) PROVE BreakerInv'
<1>1. /\ asking[p] = "admitted" /\ Over(p)
      /\ UNCHANGED <<clock, breakerRow, resolved, generation>>
  BY DEF Dispatch
<1>2. Today(clock) \in Days /\ Today(clock)' = Today(clock)
  BY <1>1, DaysGoOn DEF BreakerInv, BreakerTypeOK, Today
<1>3. PICK before \in SUBSET Requesters, after \in SUBSET Requesters :
          before = Loose(Today(clock)) /\ after = Loose(Today(clock))'
  <2>1. Loose(Today(clock)) \in SUBSET Requesters /\ Loose(Today(clock))' \in SUBSET Requesters
    BY DEF Loose
  <2> QED
    BY <2>1, Zenon
<1>4. after \subseteq before \ {p} /\ (~free[p] => p \in before)
  BY <1>1, <1>3, OverIs DEF Loose
<1>5. /\ {Cardinality(before), Cardinality(after), Cardinality(Requesters)} \subseteq Nat
      /\ Cardinality(after) + (IF free[p] THEN 0 ELSE 1) <= Cardinality(before)
  <2>1. IsFiniteSet(before) /\ IsFiniteSet(before \ {p}) /\ after \subseteq before
        /\ before \ {p} \subseteq before
    BY <1>3, <1>4, FS_Subset, BreakerBounded
  <2>2. {Cardinality(before), Cardinality(after), Cardinality(Requesters)} \subseteq Nat
    BY <2>1, FS_Subset, FS_CardinalityType, BreakerBounded
  <2>3. CASE free[p]
    BY <2>1, <2>2, <2>3, FS_Subset
  <2>4. CASE ~free[p]
    <3>1. Cardinality(before \ {p}) = Cardinality(before) - 1
      BY <1>4, <2>1, <2>4, FS_RemoveElement
    <3>2. Cardinality(after) <= Cardinality(before \ {p})
      BY <1>4, <2>1, FS_Subset
    <3> QED
      BY <2>2, <2>4, <3>1, <3>2
  <2> QED
    BY <2>2, <2>3, <2>4
<1>6. PICK held \in Nat : held = dispatched[Today(clock)].held
  BY <1>2 DEF BreakerInv, BreakerTypeOK
<1>7. held + Cardinality(before) < DailyBudget + Cardinality(Requesters)
  BY <1>2, <1>3, <1>6 DEF BreakerInv, DaysAreKept
<1>8. dispatched'[Today(clock)].held + Cardinality(after) < DailyBudget + Cardinality(Requesters)
      /\ dispatched'[Today(clock)].held < DailyBudget + Cardinality(Requesters)
  <2>1. PICK n \in Nat : n = IF free[p] THEN 0 ELSE 1
    OBVIOUS
  <2>2. dispatched'[Today(clock)].held = held + n
    BY <1>6, <2>1, OneMore DEF BreakerInv
  <2>3. Cardinality(after) + n <= Cardinality(before)
    BY <1>5, <2>1
  <2> QED
    BY <1>5, <1>6, <1>7, <2>2, <2>3, BreakerBounded
<1>9. DaysAreKept'
  <2> SUFFICES ASSUME NEW d \in Days
               PROVE  /\ dispatched'[d].held < DailyBudget + Cardinality(Requesters)
                      /\ d > Today(clock) => dispatched'[d].held = 0
                      /\ d = Today(clock) => dispatched'[d].held + Cardinality(after)
                                                 < DailyBudget + Cardinality(Requesters)
    BY <1>2, <1>3 DEF DaysAreKept
  <2>1. CASE d = Today(clock)
    BY <1>2, <1>8, <2>1, DaysGoOn DEF Days
  <2>2. CASE d # Today(clock)
    BY <2>2, OneMore DEF BreakerInv, DaysAreKept
  <2> QED
    BY <2>1, <2>2
<1> QED
  BY <1>1, <1>9, OverIs, OneMore DEF BreakerInv, BreakerTypeOK, FreshUntilWritten

LEMMA ResolveKeeps == ASSUME BreakerInv, Resolve PROVE BreakerInv'
<1>1. PICK f \in BOOLEAN : resolved' = Append(resolved, [failed |-> f, at |-> clock])
  BY DEF Resolve
<1>2. resolved' \in Seq([failed : BOOLEAN, at : 0..MaxTime])
  BY <1>1 DEF BreakerInv, BreakerTypeOK
<1>3. DaysAreKept'
  BY NothingIsSent DEF Resolve, askingVars, Loose, Today
<1> QED
  BY <1>2, <1>3 DEF BreakerInv, BreakerTypeOK, FreshUntilWritten, MomentsArePast, Resolve,
                    askingVars

LEMMA ConfigureKeeps == ASSUME BreakerInv, Configure PROVE BreakerInv'
<1>1. DaysAreKept'
  BY NothingIsSent DEF Configure, askingVars, Loose, Today
<1>2. generation' \in 0..MaxGeneration
  BY BreakerBounded DEF BreakerInv, BreakerTypeOK, Configure
<1> QED
  BY <1>1, <1>2 DEF BreakerInv, BreakerTypeOK, FreshUntilWritten, MomentsArePast, Configure,
                    askingVars

LEMMA ReenableKeeps == ASSUME BreakerInv, Reenable PROVE BreakerInv'
<1>1. PICK time \in 0..clock :
          breakerRow' = [FreshRow EXCEPT !.day = Today(time), !.reenabled_at = time,
                             !.reenable_generation = breakerRow.reenable_generation + 1]
  BY DEF Reenable
<1>2. PICK day \in Days : day = Today(time) /\ time \in Nat
  BY DaysGoOn, BreakerBounded DEF BreakerInv, BreakerTypeOK
<1>3. PICK g \in Nat : g = breakerRow.reenable_generation + 1
  BY DEF BreakerInv, BreakerTypeOK, Rows
<1>4. breakerRow' \in Rows /\ breakerRow'.day \in Days
  <2>1. breakerRow' = [day |-> day, opens |-> 0, open_until |-> Never, latched |-> FALSE,
                       reenable_generation |-> g, reenabled_at |-> time, cursor |-> 0]
    BY <1>1, <1>2, <1>3 DEF FreshRow
  <2> QED
    BY <1>2, <1>3, <2>1 DEF Rows
<1>5. Never \notin Days
  BY DEF Days, Never
<1>6. DaysAreKept'
  BY NothingIsSent DEF Reenable, askingVars, Loose, Today
<1> QED
  BY <1>4, <1>5, <1>6 DEF BreakerInv, BreakerTypeOK, FreshUntilWritten, MomentsArePast,
                          Reenable, askingVars

\* The first moment of a day finds no request of that day, whoever is loose.
LEMMA TickKeeps == ASSUME BreakerInv, Tick PROVE BreakerInv'
<1>1. /\ clock' = clock + 1 /\ clock < MaxTime
      /\ UNCHANGED <<breakerRow, resolved, dispatched, generation, asking, free, moment>>
  BY DEF Tick, askingVars
<1>2. clock \in Nat /\ clock' \in Nat /\ clock' \in 0..MaxTime
  BY <1>1, BreakerBounded DEF BreakerInv, BreakerTypeOK
<1>3. PICK today \in Days, next \in Days :
          today = Today(clock) /\ next = Today(clock + 1) /\ today <= next
  BY <1>1, <1>2, DaysGoOn DEF BreakerInv, BreakerTypeOK
<1>4. Today(clock)' = next
  BY <1>1, <1>3 DEF Today
<1>5. PICK before \in SUBSET Requesters, after \in SUBSET Requesters :
          before = Loose(today) /\ after = Loose(next)
  <2>1. Loose(today) \in SUBSET Requesters /\ Loose(next) \in SUBSET Requesters
    BY DEF Loose
  <2> QED
    BY <2>1, Zenon
<1>6. \A d : Loose(d)' = Loose(d)
  BY <1>1 DEF Loose, Today
<1>7. Loose(Today(clock))' = after
  BY <1>4, <1>5, <1>1 DEF Loose, Today
<1>8. /\ {Cardinality(after), Cardinality(Requesters)} \subseteq Nat
      /\ Cardinality(after) <= Cardinality(Requesters)
  BY FS_Subset, FS_CardinalityType, BreakerBounded
<1>9. DaysAreKept'
  <2> SUFFICES ASSUME NEW d \in Days
               PROVE  /\ dispatched[d].held < DailyBudget + Cardinality(Requesters)
                      /\ d > next => dispatched[d].held = 0
                      /\ d = next => dispatched[d].held + Cardinality(after)
                                         < DailyBudget + Cardinality(Requesters)
    BY <1>1, <1>4, <1>7 DEF DaysAreKept
  <2>1. /\ dispatched[d].held < DailyBudget + Cardinality(Requesters)
        /\ d > today => dispatched[d].held = 0
        /\ d = today => dispatched[d].held + Cardinality(before)
                            < DailyBudget + Cardinality(Requesters)
    BY <1>3, <1>5 DEF BreakerInv, DaysAreKept
  <2>2. {d, today, next, DailyBudget} \subseteq Nat /\ DailyBudget > 0
    BY <1>2, <1>3, DaysGoOn, BreakerBounded DEF Days
  <2>3. CASE today = next
    BY <1>5, <2>1, <2>2, <2>3
  <2>4. CASE today < next
    BY <1>8, <2>1, <2>2, <2>4
  <2> QED
    BY <1>3, <2>2, <2>3, <2>4
<1>10. MomentsArePast'
  <2> SUFFICES ASSUME NEW p \in Requesters PROVE moment[p] <= clock + 1
    BY <1>1 DEF MomentsArePast
  <2>1. moment[p] \in Nat /\ moment[p] <= clock
    BY BreakerBounded DEF BreakerInv, BreakerTypeOK, MomentsArePast
  <2> QED
    BY <1>2, <2>1
<1> QED
  BY <1>1, <1>2, <1>9, <1>10 DEF BreakerInv, BreakerTypeOK, FreshUntilWritten

LEMMA InitBreaker == BreakerInit => BreakerInv
<1> SUFFICES ASSUME BreakerInit PROVE BreakerInv
  OBVIOUS
<1>1. 0 \in 0..MaxTime /\ Today(0) \in Days /\ Days \subseteq Nat /\ 0 \in Days
  BY DaysGoOn, BreakerBounded DEF Days
<1>2. BreakerTypeOK
  <2>1. FreshRow \in Rows
    BY <1>1, FreshIs
  <2>2. 0 \in 0..MaxGeneration
    BY BreakerBounded
  <2>3. /\ dispatched \in [Days -> [free : Nat, held : Nat]]
        /\ asking \in [Requesters -> {"idle", "differs", "admitted"}]
        /\ free \in [Requesters -> BOOLEAN] /\ moment \in [Requesters -> 0..MaxTime]
    BY <1>1 DEF BreakerInit
  <2>4. resolved \in Seq([failed : BOOLEAN, at : 0..MaxTime])
    BY DEF BreakerInit
  <2> QED
    BY <1>1, <2>1, <2>2, <2>3, <2>4 DEF BreakerInit, BreakerTypeOK
<1>3. \A d \in Days : dispatched[d].held = 0
  BY DEF BreakerInit
<1>4. DaysAreKept
  <2>1. Cardinality(Loose(Today(clock))) <= Cardinality(Requesters)
        /\ {Cardinality(Loose(Today(clock))), Cardinality(Requesters)} \subseteq Nat
    BY LooseIsFinite
  <2> QED
    BY <1>3, <2>1, BreakerBounded DEF DaysAreKept
<1>5. FreshUntilWritten /\ MomentsArePast
  BY <1>1 DEF BreakerInit, FreshUntilWritten, MomentsArePast
<1> QED
  BY <1>2, <1>4, <1>5 DEF BreakerInv

LEMMA StepBreaker == BreakerInv /\ [BreakerNext]_breakerVars => BreakerInv'
<1> SUFFICES ASSUME BreakerInv, [BreakerNext]_breakerVars PROVE BreakerInv'
  OBVIOUS
<1>1. CASE \E p \in Requesters : View(p) \/ JudgeAgain(p) \/ Dispatch(p) \/ GiveUp(p)
  BY <1>1, ViewKeeps, JudgeAgainKeeps, DispatchKeeps, GiveUpKeeps
<1>2. CASE Resolve \/ Configure \/ Reenable \/ Tick
  BY <1>2, ResolveKeeps, ConfigureKeeps, ReenableKeeps, TickKeeps
<1>3. CASE UNCHANGED breakerVars
  <2>1. DaysAreKept'
    BY <1>3, NothingIsSent DEF breakerVars, Loose, Today
  <2> QED
    BY <1>3, <2>1 DEF breakerVars, BreakerInv, BreakerTypeOK, FreshUntilWritten, MomentsArePast
<1> QED
  BY <1>1, <1>2, <1>3 DEF BreakerNext

\* What the row says and how many requesters may yet be sent, in every reachable state.
THEOREM EveryPlaceIsCounted == BreakerSpec => []BreakerInv
BY InitBreaker, StepBreaker, PTL DEF BreakerSpec

\* Rule (b), for any number of requesters on any interleaving: what asks before it starts
\* exceeds a day's budget at most by the other requesters that were just asking.
THEOREM FleetIsBounded == BreakerSpec => []FleetKeepsBudget
<1>1. BreakerInv => FleetKeepsBudget
  BY DEF BreakerInv, DaysAreKept, FleetKeepsBudget
<1> QED
  BY <1>1, EveryPlaceIsCounted, PTL

TripIsCounted ==
    Trips =>
        LET fresh(e) == /\ resolved[e].at > breakerRow'.reenabled_at
                        /\ e > breakerRow.cursor
        IN /\ \/ breakerRow'.reenable_generation > breakerRow.reenable_generation
              \/ ~breakerRow.latched /\ breakerRow.open_until <= Tripped(breakerRow')
           /\ \E e \in DOMAIN resolved : fresh(e)
           /\ breakerRow'.opens = 1 + (IF /\ breakerRow'.day = breakerRow.day
                                          /\ breakerRow'.reenable_generation
                                                = breakerRow.reenable_generation
                                       THEN breakerRow.opens ELSE 0)

\* A row that stays as it is has not tripped.
LEMMA OpensStand == ASSUME BreakerTypeOK, breakerRow' = breakerRow PROVE ~Trips
<1>1. breakerRow.opens \in Nat
  BY DEF BreakerTypeOK, Rows
<1> QED
  BY <1>1 DEF Trips

LEMMA JudgingIsCounted ==
    ASSUME BreakerInv, NEW p \in Requesters, JudgeAgain(p) PROVE TripIsCounted
<1>1. /\ moment[p] \in 0..MaxTime /\ generation \in Nat /\ Today(moment[p]) \in Days
  BY BreakerBounded, DaysGoOn DEF BreakerInv, BreakerTypeOK
<1>2. PICK row \in Rows : row = ReadState(Today(moment[p]))
  BY <1>1, ReadIs DEF BreakerInv
<1>3. /\ row.opens = breakerRow.opens /\ row.open_until = breakerRow.open_until
      /\ row.latched = breakerRow.latched /\ row.cursor = breakerRow.cursor
      /\ row.reenable_generation = breakerRow.reenable_generation
      /\ breakerRow.day # Never => row.day = breakerRow.day
      /\ breakerRow.day = Never => row.opens = 0
  BY <1>1, <1>2, ReadIs DEF BreakerInv, FreshUntilWritten, FreshRow
<1>4. PICK judged \in Rows : judged = Judge(row, moment[p], generation).row
  BY <1>1, JudgeIs DEF BreakerInv
<1>5. Counted(row, judged)
  BY <1>1, <1>4, JudgeIs DEF BreakerInv
<1>6. breakerRow' = breakerRow \/ breakerRow' = judged
  BY <1>2, <1>4 DEF JudgeAgain
<1>7. CASE breakerRow' = breakerRow
  BY <1>7, OpensStand DEF TripIsCounted, BreakerInv
<1>8. CASE breakerRow' = judged
  BY <1>3, <1>5, <1>8 DEF TripIsCounted, Trips, Counted, Tripped
<1> QED
  BY <1>6, <1>7, <1>8

\* Two workers that see one incident trip once, whatever each of them read before.
THEOREM OneIncidentTripsOnce == BreakerSpec => TripsAreCounted
<1>1. BreakerInv /\ [BreakerNext]_breakerVars => [TripIsCounted]_breakerVars
  <2> SUFFICES ASSUME BreakerInv, BreakerNext PROVE TripIsCounted
    OBVIOUS
  <2>1. ASSUME NEW p \in Requesters, JudgeAgain(p) PROVE TripIsCounted
    BY <2>1, JudgingIsCounted
  <2>2. ASSUME NEW p \in Requesters, View(p) \/ Dispatch(p) \/ GiveUp(p) PROVE ~Trips
    BY <2>2, OpensStand DEF View, Dispatch, GiveUp, BreakerInv
  <2>3. CASE Reenable
    BY <2>3 DEF Reenable, Trips, TripIsCounted, FreshRow
  <2>4. CASE Resolve \/ Configure \/ Tick
    BY <2>4, OpensStand DEF Resolve, Configure, Tick, TripIsCounted, BreakerInv
  <2> QED
    BY <2>1, <2>2, <2>3, <2>4 DEF BreakerNext, TripIsCounted
<1> QED
  BY <1>1, EveryPlaceIsCounted, PTL DEF BreakerSpec, TripsAreCounted, TripIsCounted
=============================================================================
