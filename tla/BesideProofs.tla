---------------------------- MODULE BesideProofs ----------------------------
(***************************************************************************)
(* What stands beside the queue and the money, together: the types of the  *)
(* run, from those of its parts.                                           *)
(***************************************************************************)
EXTENDS MCBeside, ProvidersProofs, PeopleProofs, DiskProofs, TLAPS

PartNames == {"breaker", "accounts", "jobs", "store", "library", "retention"}

\* What the run does is, of each part, a behaviour of that part's own specification.
LEMMA EachIsAlone ==
    Spec => /\ BreakerSpec /\ AccountsSpec /\ LocalSpec /\ StoreSpec
            /\ LibrarySpec /\ RetentionSpec
<1>1. Init => /\ BreakerInit /\ AccountsInit /\ LocalInit /\ StoreInit
              /\ LibraryInit /\ RetentionInit
  BY DEF Init
<1>2. [Next]_vars => [BreakerNext]_breakerVars /\ [AccountsNext]_accountVars
  BY DEF Next, vars
<1>3. [Next]_vars => [LocalNext]_localVars /\ [StoreNext]_storeVars
  BY DEF Next, vars
<1>4. [Next]_vars => [LibraryNext]_libraryVars /\ [RetentionNext]_retentionVars
  BY DEF Next, vars
<1> QED
  BY <1>1, <1>2, <1>3, <1>4, PTL
  DEF Spec, BreakerSpec, AccountsSpec, LocalSpec, StoreSpec, LibrarySpec, RetentionSpec

\* Every variable of the part that runs has its type.
THEOREM BesideTypes == Spec => []TypeOK
<1>1. Init => part \in PartNames
  BY DEF Init, PartNames
<1>2. part \in PartNames /\ [Next]_vars => (part \in PartNames)'
  BY DEF Next, vars
<1>3. Spec => [](part \in PartNames)
  BY <1>1, <1>2, PTL DEF Spec
<1>4. BreakerInv => BreakerTypeOK
  BY DEF BreakerInv
<1>5. LocalInv => LocalTypeOK
  BY DEF LocalInv
<1>6. StoreInv => StoreTypeOK
  BY DEF StoreInv
<1>7. LibraryInv => LibraryTypeOK
  BY DEF LibraryInv
<1>8. RetentionInv => RetentionTypeOK
  BY DEF RetentionInv
<1>9. /\ part \in PartNames
      /\ BreakerTypeOK /\ AccountsTypeOK /\ LocalTypeOK /\ StoreTypeOK
      /\ LibraryTypeOK /\ RetentionTypeOK
      => TypeOK
  BY DEF TypeOK, PartNames
<1> QED
  BY <1>3, <1>4, <1>5, <1>6, <1>7, <1>8, <1>9, EachIsAlone, EveryPlaceIsCounted,
     AccountTypes, OffersAndSweeps, RowsTellWhatWasSent, PublishersFit, WhatGoesIsDue, PTL
=============================================================================
