------------------------------ MODULE MCBeside ------------------------------
(***************************************************************************)
(* What stands beside the queue and the money: the breaker, the accounts,  *)
(* the jobs of the owner's machine, and what the analyses leave on disk    *)
(* and how it is collected.  These parts share no state here, so a         *)
(* behaviour picks one at its start and the others rest.                   *)
(***************************************************************************)
EXTENDS Breaker, Accounts, LocalJobs, JobStore, Library, Retention, TLC

CONSTANTS r1, r2   \* a Deep analysis that may use a stored result, and a free one

VARIABLE part

\* The two analyses of the mix.
DeepAndFree == analyses[r1].deep /\ ~analyses[r1].refresh /\ ~analyses[r2].deep

\* The part that runs starts in any of its initial states, the others in one.
Init ==
    /\ part \in {"breaker", "accounts", "jobs", "store", "library", "retention"}
    /\ BreakerInit /\ AccountsInit /\ LocalInit
    /\ StoreInit /\ LibraryInit /\ RetentionInit
    /\ DeepAndFree
    /\ part # "accounts" => version = 1
    /\ part # "store" => engine = "audd"
    /\ part # "library" => ~analyses[r2].refresh

vars == <<part, breakerVars, accountVars, localVars, storeVars, libraryVars, retentionVars>>

Next ==
    \/ /\ part = "breaker" /\ BreakerNext
       /\ UNCHANGED <<part, accountVars, localVars, storeVars, libraryVars, retentionVars>>
    \/ /\ part = "accounts" /\ AccountsNext
       /\ UNCHANGED <<part, breakerVars, localVars, storeVars, libraryVars, retentionVars>>
    \/ /\ part = "jobs" /\ LocalNext
       /\ UNCHANGED <<part, breakerVars, accountVars, storeVars, libraryVars, retentionVars>>
    \/ /\ part = "store" /\ StoreNext
       /\ UNCHANGED <<part, breakerVars, accountVars, localVars, libraryVars, retentionVars>>
    \/ /\ part = "library" /\ LibraryNext
       /\ UNCHANGED <<part, breakerVars, accountVars, localVars, storeVars, retentionVars>>
    \/ /\ part = "retention" /\ RetentionNext
       /\ UNCHANGED <<part, breakerVars, accountVars, localVars, storeVars, libraryVars>>

Spec == Init /\ [][Next]_vars

\* One part alone.
LibraryOnly == (Init /\ part = "library") /\ [][Next]_vars

\* Every variable of the part that runs has its type.
TypeOK ==
    CASE part = "breaker" -> BreakerTypeOK [] part = "accounts" -> AccountsTypeOK
      [] part = "jobs" -> LocalTypeOK [] part = "store" -> StoreTypeOK
      [] part = "library" -> LibraryTypeOK [] part = "retention" -> RetentionTypeOK

\* The cfg gives the requesters, the requests and the workers, which never run together, the
\* same two names, so one permutation of them serves all three.
Symmetry == Permutations(Workers)
=============================================================================
