----------------------------- MODULE MCEvidence -----------------------------
(***************************************************************************)
(* What a mix is heard to be, and what it really is: the free sweep that   *)
(* asks about its clips, the merge of what the paid check adds to it, the  *)
(* truth of a test set that the answers are measured against, and the      *)
(* snapshots that keep it all.  They share no state here, so a behaviour   *)
(* picks one at its start and the others rest.                             *)
(***************************************************************************)
EXTENDS Additive, Sweep, Truth, Backup, TLC

VARIABLE part

Init ==
    /\ part \in {"sweep", "merge", "truth", "backup"}
    /\ SweepInit /\ AdditiveInit /\ TruthInit /\ BackupInit
    \* The earlier run of the media answered at most the first clip.
    /\ \A c \in Clips : c > 1 => jobRows[c].state = "none"
    /\ part # "merge" => freeRows = {}
    /\ part # "sweep" => \A c \in Clips : jobRows[c].state = "none"
    /\ part # "backup" => disk["run"] = 1 /\ snapshot = NoSnapshot

vars == <<part, sweepVars, additiveVars, truthVars, backupVars>>

Next ==
    \/ part = "sweep" /\ SweepNext /\ UNCHANGED <<part, additiveVars, truthVars, backupVars>>
    \/ part = "merge" /\ AdditiveNext /\ UNCHANGED <<part, sweepVars, truthVars, backupVars>>
    \/ part = "truth" /\ TruthNext /\ UNCHANGED <<part, sweepVars, additiveVars, backupVars>>
    \/ part = "backup" /\ BackupNext /\ UNCHANGED <<part, sweepVars, additiveVars, truthVars>>

Spec == Init /\ [][Next]_vars

\* One part alone.
SweepOnly == (Init /\ part = "sweep") /\ [][Next]_vars
MergeOnly == (Init /\ part = "merge") /\ [][Next]_vars
BackupOnly == (Init /\ part = "backup") /\ [][Next]_vars

TypeOK ==
    CASE part = "sweep" -> SweepTypeOK [] part = "merge" -> AdditiveTypeOK
      [] part = "truth" -> TruthTypeOK [] part = "backup" -> BackupTypeOK

\* The cfg gives the tasks and the tracklists, which never meet, the same two names.
Symmetry == Permutations(Tasks) \cup Permutations(Annotators)
=============================================================================
