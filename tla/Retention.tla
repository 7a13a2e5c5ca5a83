----------------------------- MODULE Retention -----------------------------
(***************************************************************************)
(* Collecting what the analyses of one mix leave behind: `idea gc --apply` *)
(* (id_detector/retention.py), beside the passes of those analyses.        *)
(*                                                                         *)
(* The windows, the PCM and the original are shared by all runs of a mix,  *)
(* so what may go is folded from every line of invocations.jsonl.  A       *)
(* collector may be stopped between any two of its writes.                 *)
(*                                                                         *)
(* Abstractions.                                                           *)
(*  - Time is counted in days, and the ages of the policy are constants.   *)
(*  - The completion sidecars that name an artefact as their upstream are  *)
(*    one mark: they hold its digest, or say it was pruned.                *)
(*  - present/bundles, present/current and the index are one reference.    *)
(*  - Links, unreadable trees and the retention manifest are left out, but *)
(*    any of them may refuse a move; the trash is not purged.              *)
(***************************************************************************)
EXTENDS Naturals, Sequences, SequencesExt

CONSTANTS
    PcmKept,        \* days a successful run keeps the PCM (48 hours)
    OriginalKept,   \* days a failed run keeps the original (24 hours)
    HostedKept,     \* days a successful hosted run keeps the original (7)
    MediaKept,      \* days a failed run keeps the mix (7)
    LastDay,        \* bound: the days that are watched
    MaxLines        \* bound: lines of invocations.jsonl

ASSUME RetentionBounded ==
    {PcmKept, OriginalKept, HostedKept, MediaKept, LastDay, MaxLines} \subseteq Nat

VARIABLES
    today,
    journal,    \* invocations.jsonl of the mix
    present,    \* which of the artefacts are there
    upstream,   \* what the sidecars say of each: nothing, its digest, that it was pruned
    published,  \* something may serve a result of the mix
    pass,       \* the analysis that holds the media lock
    collector   \* the collector: where it is, under which policy, what it is to move

retentionVars == <<today, journal, present, upstream, published, pass, collector>>

Intermediates == {"windows", "pcm"}
Artefacts == Intermediates \cup {"original"}
Media == "media"
Outcomes == {"success", "failed", "waiting"}
Policies == {"local", "hosted"}

RetentionTypeOK ==
    /\ today \in 0..LastDay
    /\ journal \in Seq([status : Outcomes, day : Nat, keep : BOOLEAN])
    /\ present \subseteq (Artefacts \cup {Media})
    /\ upstream \in [Artefacts -> {"none", "digest", "pruned"}]
    /\ published \in BOOLEAN
    /\ pass \in {"idle", "working", "published"}
    /\ collector \in [at : {"idle", "planned", "moving"}, policy : Policies,
                      targets : SUBSET (Artefacts \cup {Media})]

Away == [at |-> "idle", policy |-> "local", targets |-> {}]

RetentionInit ==
    /\ today = 0
    /\ journal = <<>>
    /\ present = {}
    /\ upstream = [x \in Artefacts |-> "none"]
    /\ published = FALSE
    /\ pass = "idle"
    /\ collector = Away

\* One media lock for both: the collector never waits for it.
MediaFree == pass = "idle" /\ collector.at = "idle"

----------------------------------------------------------------------------
(* A pass of an analysis, as far as it touches the artefacts. *)

\* It fetches, decodes and cuts what is missing, or is served a stored result and needs none.
\* The evidence it records names what it read; older evidence keeps its marks.
PassStarts ==
    /\ MediaFree
    /\ Len(journal) < MaxLines
    /\ pass' = "working"
    /\ \/ /\ present' = Artefacts \cup {Media}
          /\ upstream' \in {upstream, [x \in Artefacts |-> "digest"]}
          /\ \A x \in Artefacts : upstream'[x] # "none"
       \/ published /\ UNCHANGED <<present, upstream>>
    /\ UNCHANGED <<today, journal, published, collector>>

PassPublishes ==
    /\ pass = "working"
    /\ published' = TRUE
    /\ pass' = "published"
    /\ UNCHANGED <<today, journal, present, upstream, collector>>

\* _append_settlement(), under the lock; nothing is served of a run that failed or waits, but
\* one that stopped may have published its free result.
PassSettles ==
    /\ pass # "idle"
    /\ \E status \in Outcomes, keep \in BOOLEAN :
          /\ status = "success" => published
          /\ journal' = Append(journal, [status |-> status, day |-> today, keep |-> keep])
    /\ pass' = "idle"
    /\ UNCHANGED <<today, present, upstream, published, collector>>

\* The process dies; what it has done stays, and no line tells of it.
PassDies ==
    /\ pass # "idle"
    /\ pass' = "idle"
    /\ UNCHANGED <<today, journal, present, upstream, published, collector>>

NextDay ==
    /\ today < LastDay
    /\ today' = today + 1
    /\ UNCHANGED <<journal, present, upstream, published, pass, collector>>

----------------------------------------------------------------------------
(* collect(apply=True) of this mix. *)

TerminalLines == {i \in DOMAIN journal : journal[i].status # "waiting"}

\* _retention_plan(): the age an artefact must have reached, of one line and of them all; a
\* successful run keeps the mix for ever, and in local mode the original.
Keeps(line, policy) ==
    [windows |-> 0,
     pcm |-> IF line.status = "failed" THEN 0 ELSE PcmKept,
     original |-> CASE line.status = "failed" -> OriginalKept
                    [] line.status # "failed" /\ policy = "hosted" -> HostedKept
                    [] OTHER -> LastDay + 1,
     media |-> IF line.status = "failed" THEN MediaKept ELSE LastDay + 1]

Due(x, policy) ==
    /\ x \in Intermediates => \A i \in TerminalLines : ~journal[i].keep
    /\ \A i \in TerminalLines : today >= journal[i].day + Keeps(journal[i], policy)[x]

\* Mutant of Unreferenced: what the journal tells is all there is.
UnreferencedByJournal == \A i \in DOMAIN journal : journal[i].status # "success"

\* _has_publication_reference()
Unreferenced == ~published

\* _targets(): the mix as a whole, once it is due, or the artefacts that are.
Targets(policy) ==
    IF Due(Media, policy) /\ Unreferenced
    THEN {Media} \cap present
    ELSE {x \in Artefacts \cap present : Due(x, policy)}

\* A run whose line is not terminal is still under way, and nothing of the mix is collected.
Plan ==
    /\ MediaFree
    /\ journal # <<>> /\ Last(journal).status # "waiting"
    /\ \E policy \in Policies :
          /\ Targets(policy) # {}
          /\ collector' = [at |-> "planned", policy |-> policy, targets |-> Targets(policy)]
    /\ UNCHANGED <<today, journal, present, upstream, published, pass>>

\* Mutant of Rewrite: the marks are left for later.
RewriteLater ==
    /\ collector.at = "planned"
    /\ collector' = [collector EXCEPT !.at = "moving"]
    /\ UNCHANGED <<today, journal, present, upstream, published, pass>>

\* _rewrite_sidecars(): one after the other, before anything moves; the mix as a whole takes
\* its sidecars along.
Rewrite ==
    /\ collector.at = "planned"
    /\ LET unmarked == {x \in collector.targets \cap Artefacts : upstream[x] = "digest"} IN
          \/ /\ \E x \in unmarked : upstream' = [upstream EXCEPT ![x] = "pruned"]
             /\ UNCHANGED collector
          \/ /\ unmarked = {}
             /\ collector' = [collector EXCEPT !.at = "moving"]
             /\ UNCHANGED upstream
    /\ UNCHANGED <<today, journal, present, published, pass>>

\* _move_to_trash()
MoveToTrash ==
    /\ collector.at = "moving"
    /\ \E x \in collector.targets :
          /\ collector' = [collector EXCEPT !.targets = @ \ {x}]
          /\ IF x = Media
             THEN present' = {} /\ upstream' = [y \in Artefacts |-> "none"] /\ journal' = <<>>
             ELSE present' = present \ {x} /\ UNCHANGED <<upstream, journal>>
    /\ UNCHANGED <<today, published, pass>>

\* It has done all of it, is refused, or is stopped half-way: the lock is released.
Leaves ==
    /\ collector.at # "idle"
    /\ collector' = Away
    /\ UNCHANGED <<today, journal, present, upstream, published, pass>>

RetentionNext ==
    \/ PassStarts \/ PassPublishes \/ PassSettles \/ PassDies \/ NextDay
    \/ Plan \/ Rewrite \/ MoveToTrash \/ Leaves

RetentionSpec == RetentionInit /\ [][RetentionNext]_retentionVars

----------------------------------------------------------------------------
(* What retention promises. *)

\* When something goes nobody has it: no analysis is under way, no run that ended owns it still
\* (the mix or, locally, its original once a run succeeded; any part of a kept run), and a mix
\* is never taken from under a result, not even one whose run died before it wrote its line.
NothingOwnedIsCollected ==
    [][\A x \in present \ present' :
          /\ pass = "idle"
          /\ Media \notin present' => ~published
          /\ Media \in present' => \A i \in TerminalLines :
                /\ x \in Intermediates => ~journal[i].keep
                /\ (x = "original" /\ journal[i].status = "success") =>
                      collector.policy = "hosted" /\ today >= journal[i].day + HostedKept
                /\ (x = "pcm" /\ journal[i].status = "success") =>
                      today >= journal[i].day + PcmKept]_retentionVars

\* Evidence stays proven: wherever a collector was stopped, an artefact that is gone is marked
\* as pruned in the sidecars that name it, never missing from under its digest.
EvidenceStaysProven ==
    \A x \in Artefacts : upstream[x] = "digest" => x \in present
=============================================================================
