----------------------------- MODULE DiskProofs -----------------------------
(***************************************************************************)
(* What the analyses of a mix leave on disk, for every number of analyses, *)
(* days and passes: nothing is collected that somebody owns, and the       *)
(* pointer of the library always opens and never goes back.                *)
(*                                                                         *)
(* Two components that share no state, each with the invariant its         *)
(* properties need.  The variables of one never occur in the other.        *)
(***************************************************************************)
EXTENDS Library, Retention, FiniteSetTheorems, WellFoundedInduction, TLAPS

-----------------------------------------------------------------------------
(* Retention: the journal is folded before, and the lock held until, the last move. *)

OneHoldsTheMix == collector.at # "idle" => pass = "idle"

\* The mix goes as a whole, or keeps its directory.
MixIsWhole == present # {} => Media \in present

\* What was due when it was planned is due until it is moved.
TargetsAreDue ==
    collector.at # "idle" =>
        \/ collector.targets \subseteq {Media} /\ ~published
        \/ /\ collector.targets \subseteq Artefacts
           /\ \A x \in collector.targets : Due(x, collector.policy)

MovedAreMarked ==
    collector.at = "moving" => \A x \in collector.targets \cap Artefacts : upstream[x] # "digest"

RetentionInv ==
    /\ RetentionTypeOK /\ EvidenceStaysProven
    /\ OneHoldsTheMix /\ MixIsWhole /\ TargetsAreDue /\ MovedAreMarked

LEMMA PassStartsKeeps == ASSUME RetentionInv, PassStarts PROVE RetentionInv'
<1>1. /\ present' \subseteq Artefacts \cup {Media}
      /\ upstream' \in [Artefacts -> {"none", "digest", "pruned"}]
      /\ (present' = present /\ upstream' = upstream) \/ present' = Artefacts \cup {Media}
  BY DEF RetentionInv, RetentionTypeOK, PassStarts
<1>2. /\ pass' = "working" /\ collector.at = "idle" /\ UNCHANGED <<today, journal, published, collector>>
  BY DEF PassStarts, MediaFree
<1> QED
  BY <1>1, <1>2 DEF RetentionInv, RetentionTypeOK, EvidenceStaysProven, OneHoldsTheMix, MixIsWhole,
                    TargetsAreDue, MovedAreMarked

LEMMA PassGoesOn ==
    ASSUME RetentionInv, PassPublishes \/ PassSettles \/ PassDies PROVE RetentionInv'
<1>1. collector.at = "idle" /\ UNCHANGED <<today, present, upstream, collector>>
  BY DEF RetentionInv, OneHoldsTheMix, PassPublishes, PassSettles, PassDies
<1>2. published' \in BOOLEAN /\ pass' \in {"idle", "working", "published"}
  BY DEF RetentionInv, RetentionTypeOK, PassPublishes, PassSettles, PassDies
<1>3. journal' \in Seq([status : Outcomes, day : Nat, keep : BOOLEAN])
  <2>1. CASE PassSettles
    <3>1. PICK status \in Outcomes, keep \in BOOLEAN :
              journal' = Append(journal, [status |-> status, day |-> today, keep |-> keep])
      BY <2>1 DEF PassSettles
    <3>2. [status |-> status, day |-> today, keep |-> keep]
              \in [status : Outcomes, day : Nat, keep : BOOLEAN]
      BY RetentionBounded DEF RetentionInv, RetentionTypeOK
    <3> QED
      BY <3>1, <3>2 DEF RetentionInv, RetentionTypeOK
  <2> QED
    BY <2>1 DEF RetentionInv, RetentionTypeOK, PassPublishes, PassDies
<1> QED
  BY <1>1, <1>2, <1>3 DEF RetentionInv, RetentionTypeOK, EvidenceStaysProven, OneHoldsTheMix,
                          MixIsWhole, TargetsAreDue, MovedAreMarked

LEMMA LinesAre ==
    ASSUME RetentionTypeOK, NEW i \in TerminalLines
    PROVE  journal[i] \in [status : Outcomes, day : Nat, keep : BOOLEAN]
<1>1. \A S : journal \in Seq(S) => \A j \in DOMAIN journal : journal[j] \in S
  OBVIOUS
<1>2. i \in DOMAIN journal
  BY DEF TerminalLines
<1> QED
  BY <1>1, <1>2, Zenon DEF RetentionTypeOK

\* What is due stays due as the days go by.
LEMMA DueStays ==
    ASSUME RetentionTypeOK, NEW x \in Artefacts, NEW policy \in Policies, Due(x, policy),
           UNCHANGED journal, today' \in Nat, today' >= today
    PROVE  Due(x, policy)'
<1>1. ASSUME NEW i \in TerminalLines
      PROVE  /\ journal[i].day + Keeps(journal[i], policy)[x] \in Nat
             /\ Keeps(journal[i], policy)[x] \in Nat
  <2>1. journal[i] \in [status : Outcomes, day : Nat, keep : BOOLEAN]
    BY LinesAre
  <2>2. Keeps(journal[i], policy)[x] \in Nat
    BY <2>1, RetentionBounded DEF Keeps, Artefacts, Intermediates, Policies
  <2> QED
    BY <2>1, <2>2
<1>2. TerminalLines' = TerminalLines
  BY DEF TerminalLines
<1>3. today \in Nat
  BY RetentionBounded DEF RetentionTypeOK
<1>4. \A i \in TerminalLines : today >= journal[i].day + Keeps(journal[i], policy)[x]
  BY DEF Due
<1>5. \A i \in TerminalLines : today' >= journal[i].day + Keeps(journal[i], policy)[x]
  BY <1>1, <1>3, <1>4
<1>6. \A i \in TerminalLines : (Keeps(journal[i], policy)[x])' = Keeps(journal[i], policy)[x]
  BY DEF Keeps
<1> QED
  BY <1>2, <1>5, <1>6 DEF Due

LEMMA NextDayKeeps == ASSUME RetentionInv, NextDay PROVE RetentionInv'
<1>1. /\ today' \in 0..LastDay /\ today' \in Nat /\ today' >= today
      /\ UNCHANGED <<journal, present, upstream, published, pass, collector>>
  BY RetentionBounded DEF NextDay, RetentionInv, RetentionTypeOK
<1>2. TargetsAreDue'
  <2>1. \A x \in Artefacts : Due(x, collector.policy) => Due(x, collector.policy)'
    BY <1>1, DueStays DEF RetentionInv, RetentionTypeOK
  <2> QED
    BY <1>1, <2>1 DEF RetentionInv, TargetsAreDue
<1> QED
  BY <1>1, <1>2 DEF RetentionInv, RetentionTypeOK, EvidenceStaysProven, OneHoldsTheMix, MixIsWhole,
                    MovedAreMarked

LEMMA PlanKeeps == ASSUME RetentionInv, Plan PROVE RetentionInv'
<1>1. PICK policy \in Policies :
          collector' = [at |-> "planned", policy |-> policy, targets |-> Targets(policy)]
  BY DEF Plan
<1>2. pass = "idle" /\ UNCHANGED <<today, journal, present, upstream, published, pass>>
  BY DEF Plan, MediaFree
<1>3. Targets(policy) \subseteq Artefacts \cup {Media}
  BY DEF Targets
<1>4. \/ Targets(policy) \subseteq {Media} /\ ~published
      \/ Targets(policy) \subseteq Artefacts /\ \A x \in Targets(policy) : Due(x, policy)
  BY DEF Targets, Unreferenced
<1>5. \A x : Due(x, policy)' = Due(x, policy)
  BY <1>2 DEF Due, TerminalLines, Keeps
<1> QED
  BY <1>1, <1>2, <1>3, <1>4, <1>5 DEF RetentionInv, RetentionTypeOK, EvidenceStaysProven,
     OneHoldsTheMix, MixIsWhole, TargetsAreDue, MovedAreMarked

LEMMA RewriteKeeps == ASSUME RetentionInv, Rewrite PROVE RetentionInv'
<1>1. UNCHANGED <<today, journal, present, published, pass>>
      /\ UNCHANGED <<collector.policy, collector.targets>> /\ collector.at # "idle"
      /\ collector' \in [at : {"planned", "moving"}, policy : Policies,
                         targets : SUBSET (Artefacts \cup {Media})]
  BY DEF Rewrite, RetentionInv, RetentionTypeOK
<1>2. /\ upstream' \in [Artefacts -> {"none", "digest", "pruned"}]
      /\ \A x \in Artefacts : upstream'[x] = "digest" => upstream[x] = "digest"
      /\ collector'.at = "moving" =>
            \A x \in collector.targets \cap Artefacts : upstream'[x] # "digest"
  BY DEF Rewrite, RetentionInv, RetentionTypeOK
<1>3. \A x : Due(x, collector.policy)' = Due(x, collector.policy)
  BY <1>1 DEF Due, TerminalLines, Keeps
<1> QED
  BY <1>1, <1>2, <1>3 DEF RetentionInv, RetentionTypeOK, EvidenceStaysProven, OneHoldsTheMix,
                          MixIsWhole, TargetsAreDue, MovedAreMarked

LEMMA MoveToTrashKeeps == ASSUME RetentionInv, MoveToTrash PROVE RetentionInv'
<1>1. PICK x \in collector.targets :
          /\ collector' = [collector EXCEPT !.targets = @ \ {x}]
          /\ IF x = Media
             THEN present' = {} /\ upstream' = [y \in Artefacts |-> "none"] /\ journal' = <<>>
             ELSE present' = present \ {x} /\ UNCHANGED <<upstream, journal>>
  BY DEF MoveToTrash
<1>2. collector.at = "moving" /\ UNCHANGED <<today, published, pass>>
  BY DEF MoveToTrash
<1>3. /\ collector' \in [at : {"idle", "planned", "moving"}, policy : Policies,
                         targets : SUBSET (Artefacts \cup {Media})]
      /\ collector'.at = "moving" /\ collector'.policy = collector.policy
      /\ collector'.targets = collector.targets \ {x}
  BY <1>1, <1>2 DEF RetentionInv, RetentionTypeOK
<1>4. Media \notin Artefacts
  BY DEF Media, Artefacts, Intermediates
<1>5. CASE x = Media
  <2>1. collector'.targets = {} /\ ~published
    BY <1>2, <1>3, <1>4, <1>5 DEF RetentionInv, TargetsAreDue
  <2>2. present' = {} /\ upstream' = [y \in Artefacts |-> "none"] /\ journal' = <<>>
    BY <1>1, <1>5
  <2>3. journal' \in Seq([status : Outcomes, day : Nat, keep : BOOLEAN])
    BY <2>2
  <2> QED
    BY <1>2, <1>3, <2>1, <2>2, <2>3 DEF RetentionInv, RetentionTypeOK, EvidenceStaysProven,
       OneHoldsTheMix, MixIsWhole, TargetsAreDue, MovedAreMarked
<1>6. CASE x # Media
  <2>1. present' = present \ {x} /\ UNCHANGED <<upstream, journal>>
    BY <1>1, <1>6
  <2>2. x \in Artefacts /\ upstream[x] # "digest"
    BY <1>2, <1>6 DEF RetentionInv, RetentionTypeOK, MovedAreMarked
  <2>3. \A y : Due(y, collector.policy)' = Due(y, collector.policy)
    BY <1>2, <1>3, <2>1 DEF Due, TerminalLines, Keeps
  <2>4. TargetsAreDue' /\ MovedAreMarked'
    BY <1>2, <1>3, <2>1, <2>3 DEF RetentionInv, TargetsAreDue, MovedAreMarked
  <2> QED
    BY <1>2, <1>3, <1>4, <1>6, <2>1, <2>2, <2>4 DEF RetentionInv, RetentionTypeOK,
       EvidenceStaysProven, OneHoldsTheMix, MixIsWhole
<1> QED
  BY <1>5, <1>6

LEMMA LeavesKeeps == ASSUME RetentionInv, Leaves PROVE RetentionInv'
<1>1. Away \in [at : {"idle", "planned", "moving"}, policy : Policies,
                targets : SUBSET (Artefacts \cup {Media})]
  BY DEF Away, Policies
<1>2. collector' = Away /\ Away.at = "idle"
      /\ UNCHANGED <<today, journal, present, upstream, published, pass>>
  BY DEF Leaves, Away
<1> QED
  BY <1>1, <1>2 DEF RetentionInv, RetentionTypeOK, EvidenceStaysProven, OneHoldsTheMix, MixIsWhole,
                    TargetsAreDue, MovedAreMarked

LEMMA InitRetention == RetentionInit => RetentionInv
<1> SUFFICES ASSUME RetentionInit PROVE RetentionInv
  OBVIOUS
<1>1. Away \in [at : {"idle", "planned", "moving"}, policy : Policies,
                targets : SUBSET (Artefacts \cup {Media})]
      /\ Away.at = "idle"
  BY DEF Away, Policies
<1>2. <<>> \in Seq([status : Outcomes, day : Nat, keep : BOOLEAN]) /\ 0 \in 0..LastDay
  BY RetentionBounded
<1> QED
  BY <1>1, <1>2 DEF RetentionInit, RetentionInv, RetentionTypeOK, EvidenceStaysProven,
     OneHoldsTheMix, MixIsWhole, TargetsAreDue, MovedAreMarked

LEMMA StepRetention == RetentionInv /\ [RetentionNext]_retentionVars => RetentionInv'
<1> SUFFICES ASSUME RetentionInv, [RetentionNext]_retentionVars PROVE RetentionInv'
  OBVIOUS
<1>1. CASE UNCHANGED retentionVars
  <2>1. \A x : Due(x, collector.policy)' = Due(x, collector.policy)
    BY <1>1 DEF retentionVars, Due, TerminalLines, Keeps
  <2> QED
    BY <1>1, <2>1 DEF retentionVars, RetentionInv, RetentionTypeOK, EvidenceStaysProven,
       OneHoldsTheMix, MixIsWhole, TargetsAreDue, MovedAreMarked
<1> QED
  BY <1>1, PassStartsKeeps, PassGoesOn, NextDayKeeps, PlanKeeps, RewriteKeeps, MoveToTrashKeeps,
     LeavesKeeps DEF RetentionNext

\* Who holds the mix, and that what is to be moved is due and marked, in every reachable state.
THEOREM WhatGoesIsDue == RetentionSpec => []RetentionInv
BY InitRetention, StepRetention, PTL DEF RetentionSpec

\* Wherever a collector was stopped, no sidecar names the digest of an artefact that is gone.
THEOREM SidecarsTellThePruned == RetentionSpec => []EvidenceStaysProven
<1>1. RetentionInv => EvidenceStaysProven
  BY DEF RetentionInv
<1> QED
  BY <1>1, WhatGoesIsDue, PTL

WhatGoesIsFree ==
    \A x \in present \ present' :
          /\ pass = "idle"
          /\ Media \notin present' => ~published
          /\ Media \in present' => \A i \in TerminalLines :
                /\ x \in Intermediates => ~journal[i].keep
                /\ (x = "original" /\ journal[i].status = "success") =>
                      collector.policy = "hosted" /\ today >= journal[i].day + HostedKept
                /\ (x = "pcm" /\ journal[i].status = "success") =>
                      today >= journal[i].day + PcmKept

\* What is due is owned by no run that ended.
LEMMA DueIsFree ==
    ASSUME RetentionTypeOK, NEW x \in Artefacts, NEW policy \in Policies, Due(x, policy),
           NEW i \in TerminalLines
    PROVE  /\ x \in Intermediates => ~journal[i].keep
           /\ (x = "original" /\ journal[i].status = "success") =>
                 policy = "hosted" /\ today >= journal[i].day + HostedKept
           /\ (x = "pcm" /\ journal[i].status = "success") => today >= journal[i].day + PcmKept
<1>1. journal[i] \in [status : Outcomes, day : Nat, keep : BOOLEAN] /\ today \in 0..LastDay
  BY LinesAre DEF RetentionTypeOK
<1>2. today >= journal[i].day + Keeps(journal[i], policy)[x]
  BY DEF Due
<1>3. x \in Intermediates => ~journal[i].keep
  BY DEF Due
<1>4. ASSUME x = "original", journal[i].status = "success"
      PROVE  policy = "hosted" /\ today >= journal[i].day + HostedKept
  <2>1. CASE policy = "hosted"
    BY <1>2, <1>4, <2>1 DEF Keeps
  <2>2. CASE policy = "local"
    <3>1. today >= journal[i].day + (LastDay + 1)
      BY <1>2, <1>4, <2>2 DEF Keeps
    <3> QED
      BY <1>1, <3>1, RetentionBounded
  <2> QED
    BY <2>1, <2>2 DEF Policies
<1>5. ASSUME x = "pcm", journal[i].status = "success" PROVE today >= journal[i].day + PcmKept
  BY <1>2, <1>5 DEF Keeps
<1> QED
  BY <1>3, <1>4, <1>5

\* Nothing is collected that an analysis or a run that ended still owns, nor a mix from under a
\* result.
THEOREM OnlyTheFreeGoes == RetentionSpec => NothingOwnedIsCollected
<1>1. RetentionInv /\ [RetentionNext]_retentionVars => [WhatGoesIsFree]_retentionVars
  <2> SUFFICES ASSUME RetentionInv, RetentionNext, NEW x \in present, x \notin present'
               PROVE  WhatGoesIsFree
    BY DEF WhatGoesIsFree
  <2>1. CASE MoveToTrash
    <3>1. PICK y \in collector.targets :
              IF y = Media THEN present' = {} ELSE present' = present \ {y}
      BY <2>1 DEF MoveToTrash
    <3>2. collector.at = "moving" /\ pass = "idle" /\ collector.policy \in Policies
          /\ y \in Artefacts \cup {Media} /\ Media \in present
      BY <2>1 DEF MoveToTrash, RetentionInv, RetentionTypeOK, OneHoldsTheMix, MixIsWhole
    <3>3. CASE y = Media
      <4>1. ~published /\ present' = {}
        BY <3>1, <3>2, <3>3 DEF RetentionInv, TargetsAreDue, Media, Artefacts, Intermediates
      <4> QED
        BY <3>2, <4>1 DEF WhatGoesIsFree
    <3>4. CASE y # Media
      <4>1. Due(y, collector.policy) /\ y \in Artefacts
        BY <3>2, <3>4 DEF RetentionInv, TargetsAreDue
      <4>2. present \ present' \subseteq {y} /\ Media \in present'
        BY <3>1, <3>2, <3>4
      <4> QED
        BY <3>2, <4>1, <4>2, DueIsFree DEF WhatGoesIsFree, RetentionInv
    <3> QED
      BY <3>3, <3>4
  <2>2. CASE ~MoveToTrash
    BY <2>2 DEF RetentionNext, PassStarts, PassPublishes, PassSettles, PassDies, NextDay, Plan,
                Rewrite, Leaves, RetentionInv, RetentionTypeOK
  <2> QED
    BY <2>1, <2>2
<1> QED
  BY <1>1, WhatGoesIsDue, PTL DEF RetentionSpec, NothingOwnedIsCollected, WhatGoesIsFree

-----------------------------------------------------------------------------
(* The library: who may publish, what is frozen, and where the pointer goes. *)

Writings == [at : Phases, id : RunIds \cup {<<NoOne, 0>>}, started : 0..MaxBegun,
             claims : Evidence, shows : Evidence, complete : BOOLEAN, links : BOOLEAN,
             version : Nat, chosen : BOOLEAN, borrowed : BOOLEAN]
Bundles == [id : RunIds, version : Nat, started : 1..MaxBegun, page : 1..MaxRelease,
            claims : Evidence, shows : Evidence, complete : BOOLEAN, links : BOOLEAN,
            sealed : BOOLEAN]
Demands == [state : {"new", "open", "settled"}, deep : BOOLEAN, refresh : BOOLEAN,
            swept : BOOLEAN, answered : BOOLEAN]
Runs == [seal : {"none", "open", "sealed"}, holds : Evidence]

\* Who holds the media lock, and that nobody else does.
Locked(w) == w # "acquire" /\ writer[w].at \notin {"idle", "queued"}
OneHoldsTheLock == \A v, w \in Writers : Locked(v) /\ Locked(w) => v = w

\* A time is that of one analysis, however often its results are published again.
Started(s, a) ==
    \/ \E b \in bundles : b.started = s /\ b.id[1] = a
    \/ \E w \in Writers : writer[w].at # "idle" /\ writer[w].started = s /\ writer[w].id[1] = a
StartsAreTold ==
    \A s \in 1..MaxBegun : \A a, c \in Analyses :
        /\ Started(s, a) => s <= begun
        /\ Started(s, a) /\ Started(s, c) => a = c

\* A bundle is its run's, of a fusion version that was there, and alone under its name.
BundlesFit ==
    /\ release.fusion < release.page /\ IsFiniteSet(bundles)
    /\ \A b \in bundles : b.claims.run = b.id[1] /\ b.claims.fusion <= release.fusion
    /\ \A b, c \in bundles : Named(b) = Named(c) => b = c

\* The rows a run may hold.
Fits(id, rows) == rows.run = id[1] /\ (id[2] # 0 => rows.fusion = id[2])
FrozenFit == \A id \in RunIds : frozen[id].seal # "none" => Fits(id, frozen[id].holds)

\* What a writer renders, from what it says of itself.
Drawn(r) ==
    [id |-> r.id, version |-> r.version, started |-> r.started, page |-> release.page,
     claims |-> r.claims, shows |-> r.shows, complete |-> r.complete, links |-> r.links,
     sealed |-> TRUE]

Begun(r) == [Drawn(r) EXCEPT !.sealed = FALSE]

Holding == {"publish", "freeze", "seal_run", "make", "seal", "compare", "point"}

\* Where a writer is, its run is as far: unsealed before it freezes it, from its own evidence,
\* sealed when it makes a bundle, and rendered when it compares.  Only acquire comes without
\* the lock, with a sealed run and with links; what another points at with none is not newer.
Fitting(w, r) ==
    /\ r.at # "idle" => r.id \in RunIds /\ r.started \in 1..MaxBegun
    /\ r.at \in {"queued", "fuse", "paid", "settle"} => w \in Analyses
    /\ r.at \in {"queued", "fuse", "paid"} => r.id = <<w, 0>>
    /\ w = "acquire" /\ r.at # "idle" =>
          frozen[r.id].seal = "sealed" /\ r.links /\ r.at \in Holding \ {"freeze", "seal_run"}
    /\ r.at = "freeze" => frozen[r.id].seal # "sealed"
    /\ r.at = "seal_run" => frozen[r.id].seal = "open"
    /\ r.at \in {"make", "seal", "compare", "point"} => frozen[r.id].seal = "sealed"
    /\ r.at \in {"compare", "point"} => Drawn(r) \in bundles
    /\ r.at = "seal" => Begun(r) \in bundles
    /\ r.at = "point" => r.complete
    /\ r.at \in Holding => r.claims.run = r.id[1]
    /\ r.claims.fusion <= release.fusion
    /\ r.at \in {"paid", "publish", "freeze"} /\ frozen[r.id].seal # "sealed" =>
          IF r.id[2] = 0 THEN flat.run = r.id[1] ELSE Fits(r.id, r.shows)
    /\ r.at = "point" /\ w # "acquire" /\ ~r.links =>
          \A b \in bundles : Named(b) = pointer /\ ~b.links => NotBefore(r, b)
WritersFit == \A w \in Writers : Fitting(w, writer[w])

\* Nobody seals the bundle that another is writing.
SealsApart ==
    \A v, w \in Writers :
        v # w /\ writer[v].at = "seal" /\ writer[w].at = "seal" => Named(writer[v]) # Named(writer[w])

LibraryInv ==
    /\ LibraryTypeOK /\ OneHoldsTheLock /\ StartsAreTold /\ BundlesFit /\ FrozenFit /\ WritersFit
    /\ SealsApart /\ PointerOpens

LEMMA LibraryTypes ==
    ASSUME LibraryTypeOK
    PROVE  /\ writer \in [Writers -> Writings] /\ bundles \subseteq Bundles
           /\ frozen \in [RunIds -> Runs] /\ analyses \in [Analyses -> Demands]
           /\ release.page \in 1..MaxRelease /\ release.fusion \in 0..MaxRelease
           /\ release.page \in Nat /\ release.fusion \in Nat
BY LibraryBounded DEF LibraryTypeOK, Writings, Bundles, Runs, Demands

LEMMA AnalysesWrite ==
    /\ \A a \in Analyses : a \in Writers /\ a # "acquire" /\ a # "upkeep"
    /\ "upkeep" \in Writers /\ "acquire" \in Writers /\ "upkeep" \notin Analyses
    /\ "acquire" \notin Analyses
BY LibraryBounded DEF Writers

LEMMA DrawnIs ==
    ASSUME NEW w PROVE Rendered(w) = Drawn(writer[w])
BY DEF Rendered, Drawn

LEMMA NamesOf ==
    /\ \A r : Drawn(r).id = r.id /\ Drawn(r).version = r.version /\ Drawn(r).started = r.started
              /\ Drawn(r).links = r.links /\ Drawn(r).complete = r.complete /\ Drawn(r).sealed
              /\ Named(Drawn(r)) = Named(r)
    /\ \A r, b : NotBefore(Drawn(r), b) <=> NotBefore(r, b)
    /\ \A r, b : NotBefore(b, Drawn(r)) <=> NotBefore(b, r)
BY DEF Drawn, Named, NotBefore

\* One writer moves, and writes nothing but perhaps fuse/.
LEMMA OneMoves ==
    ASSUME LibraryInv, NEW w \in Writers, NEW r \in Writings, writer' = [writer EXCEPT ![w] = r],
           UNCHANGED <<release, frozen, bundles, pointer>>,
           analyses' \in [Analyses -> Demands], flat' \in Evidence,
           UNCHANGED flat \/ Locked(w),
           begun' \in 0..MaxBegun, begun <= begun',
           r.at \notin {"idle", "queued"} => (w = "acquire" \/ Locked(w) \/ LockFree),
           \/ r.at = "idle"
           \/ Started(r.started, r.id[1])
           \/ r.started = begun + 1 /\ begun' = begun + 1,
           r.at # "seal", Fitting(w, r)'
    PROVE  LibraryInv'
<1>1. /\ writer \in [Writers -> Writings] /\ writer'[w] = r
      /\ \A v \in Writers : v # w => writer'[v] = writer[v]
      /\ writer' \in [Writers -> Writings]
  BY LibraryTypes DEF LibraryInv
<1>2. LibraryTypeOK'
  BY <1>1 DEF LibraryInv, LibraryTypeOK, Writings, Demands
<1>3. OneHoldsTheLock'
  <2>1. \A v \in Writers : v # w => (Locked(v)' <=> Locked(v))
    BY <1>1 DEF Locked
  <2>2. Locked(w)' => Locked(w) \/ LockFree
    BY <1>1 DEF Locked
  <2>3. LockFree => \A v \in Writers : ~Locked(v)
    BY DEF LockFree, Locked
  <2> QED
    BY <2>1, <2>2, <2>3 DEF LibraryInv, OneHoldsTheLock
<1>4. StartsAreTold'
  <2>1. ASSUME NEW s \in 1..MaxBegun, NEW a \in Analyses, Started(s, a)'
        PROVE  Started(s, a) \/ (s = begun + 1 /\ begun' = begun + 1 /\ r.id[1] = a)
    <3>1. CASE \E b \in bundles : b.started = s /\ b.id[1] = a
      BY <3>1 DEF Started
    <3>2. CASE \E v \in Writers : writer'[v].at # "idle" /\ writer'[v].started = s /\ writer'[v].id[1] = a
      <4>1. PICK v \in Writers : writer'[v].at # "idle" /\ writer'[v].started = s /\ writer'[v].id[1] = a
        BY <3>2
      <4>2. CASE v = w
        BY <1>1, <4>1, <4>2
      <4>3. CASE v # w
        BY <1>1, <4>1, <4>3 DEF Started
      <4> QED
        BY <4>2, <4>3
    <3> QED
      BY <2>1, <3>1, <3>2 DEF Started
  <2>2. begun \in Nat /\ begun' \in Nat
    BY LibraryBounded DEF LibraryInv, LibraryTypeOK
  <2>3. \A s \in 1..MaxBegun : \A a \in Analyses : Started(s, a) => s <= begun
    BY DEF LibraryInv, StartsAreTold
  <2> QED
    BY <2>1, <2>2, <2>3 DEF LibraryInv, StartsAreTold
<1>5. BundlesFit' /\ FrozenFit'
  BY DEF LibraryInv, BundlesFit, FrozenFit, Named
<1>6. WritersFit'
  <2> SUFFICES ASSUME NEW v \in Writers, v # w PROVE Fitting(v, writer[v])'
    BY <1>1 DEF WritersFit
  <2>1. PICK x \in Writings : x = writer[v] /\ x = writer'[v] /\ Fitting(v, x)
    BY <1>1 DEF LibraryInv, WritersFit
  <2>2. CASE UNCHANGED flat
    <3>1. Fitting(v, x)'
      BY <2>1, <2>2 DEF Fitting, Fits, Drawn, Begun, Named, NotBefore
    <3> QED
      BY <2>1, <3>1
  <2>3. CASE Locked(w)
    <3>1. v = "acquire" \/ x.at \in {"idle", "queued"}
      BY <2>1, <2>3 DEF LibraryInv, OneHoldsTheLock, Locked
    <3>2. Fitting(v, x)'
      BY <2>1, <3>1 DEF Fitting, Fits, Drawn, Begun, Named, NotBefore
    <3> QED
      BY <2>1, <3>2
  <2> QED
    BY <2>2, <2>3
<1>7. PointerOpens'
  BY DEF LibraryInv, PointerOpens, Opens, Named
<1>8. SealsApart'
  BY <1>1 DEF LibraryInv, SealsApart
<1> QED
  BY <1>2, <1>3, <1>4, <1>5, <1>6, <1>7, <1>8 DEF LibraryInv

LEMMA RestingIs ==
    /\ Resting \in Writings /\ Resting.at = "idle"
    /\ \A w : release.fusion \in Nat => Fitting(w, Resting)
<1>1. Nothing \in Evidence /\ Nothing.fusion = 0
  BY DEF Evidence, Nothing
<1>2. /\ Resting.at = "idle" /\ Resting.claims = Nothing /\ Resting.id = <<NoOne, 0>>
      /\ 0 \in 0..MaxBegun /\ "idle" \in Phases
  BY LibraryBounded DEF Resting, Phases
<1>3. Resting \in Writings
  BY <1>1, <1>2 DEF Writings, Resting
<1>4. ASSUME NEW w, release.fusion \in Nat PROVE Fitting(w, Resting)
  BY <1>1, <1>2, <1>4 DEF Fitting, Holding
<1> QED
  BY <1>2, <1>3, <1>4

\* A writer is done, is refused, or dies.
LEMMA RestKeeps ==
    ASSUME LibraryInv, NEW w \in Writers, Rests(w), analyses' \in [Analyses -> Demands],
           UNCHANGED <<release, flat, frozen, bundles, pointer, begun>>
    PROVE  LibraryInv'
<1>1. writer' = [writer EXCEPT ![w] = Resting]
  BY DEF Rests
<1>2. /\ flat' \in Evidence /\ begun' \in 0..MaxBegun /\ begun <= begun' /\ release.fusion \in Nat
      /\ release'.fusion \in Nat
  BY LibraryTypes, LibraryBounded DEF LibraryInv, LibraryTypeOK
<1>3. Fitting(w, Resting)
  BY <1>2, RestingIs
<1>4. Fitting(w, Resting)'
  <2>1. PICK r \in Writings : r = Resting /\ r.at = "idle" /\ Fitting(w, r)
    BY <1>3, RestingIs
  <2>2. Fitting(w, r)'
    BY <2>1 DEF Fitting, Holding
  <2> QED
    BY <2>1, <2>2 DEF Resting
<1>5. PICK r \in Writings : r = Resting /\ r.at = "idle"
  BY RestingIs
<1>6. Fitting(w, r)'
  BY <1>4, <1>5 DEF Resting
<1> QED
  BY <1>1, <1>2, <1>5, <1>6, OneMoves

LEMMA SettledIs ==
    ASSUME LibraryTypeOK, NEW a \in Analyses, Settled(a)
    PROVE  Rests(a) /\ analyses' \in [Analyses -> Demands]
<1>1. analyses \in [Analyses -> Demands]
  BY LibraryTypes
<1>2. PICK d \in Demands : d = [analyses[a] EXCEPT !.state = "settled"]
  <2>1. [analyses[a] EXCEPT !.state = "settled"] \in Demands
    BY <1>1 DEF Demands
  <2> QED
    BY <2>1, Zenon
<1>3. analyses' = [analyses EXCEPT ![a] = d]
  BY <1>1, <1>2 DEF Settled
<1> QED
  BY <1>1, <1>3 DEF Settled

LEMMA LeavingKeeps ==
    ASSUME LibraryInv, NEW a \in Analyses, Served(a) \/ Journalled(a) PROVE LibraryInv'
<1>1. Settled(a) /\ UNCHANGED <<release, flat, frozen, bundles, pointer, begun>>
  BY DEF Served, Journalled
<1> QED
  BY <1>1, SettledIs, RestKeeps, AnalysesWrite DEF LibraryInv

LEMMA StopsKeeps == ASSUME LibraryInv, NEW w \in Writers, Stops(w) PROVE LibraryInv'
BY RestKeeps, LibraryTypes DEF Stops, LibraryInv

LEMMA BeginKeeps == ASSUME LibraryInv, NEW a \in Analyses, Begin(a) PROVE LibraryInv'
<1>1. /\ a \in Writers /\ a # "acquire" /\ analyses \in [Analyses -> Demands]
      /\ begun \in 0..MaxBegun /\ MaxBegun \in Nat /\ flat \in Evidence /\ release.fusion \in Nat
  BY AnalysesWrite, LibraryTypes, LibraryBounded DEF LibraryInv, LibraryTypeOK
<1>2. begun < MaxBegun /\ begun' = begun + 1 /\ UNCHANGED <<release, flat, frozen, bundles, pointer>>
  BY DEF Begin
<1>3. PICK s \in 1..MaxBegun : s = begun + 1
  BY <1>1, <1>2
<1>4. PICK r \in Writings :
          /\ r = [Resting EXCEPT !.at = "queued", !.id = <<a, 0>>, !.started = s]
          /\ r.at = "queued" /\ r.id = <<a, 0>> /\ r.started = s /\ r.claims = Nothing
  <2>1. <<a, 0>> \in RunIds /\ "queued" \in Phases /\ s \in 0..MaxBegun
    BY LibraryBounded DEF RunIds, Phases
  <2>2. [Resting EXCEPT !.at = "queued", !.id = <<a, 0>>, !.started = s] \in Writings
    BY <2>1, RestingIs DEF Writings
  <2>3. /\ [Resting EXCEPT !.at = "queued", !.id = <<a, 0>>, !.started = s].at = "queued"
        /\ [Resting EXCEPT !.at = "queued", !.id = <<a, 0>>, !.started = s].id = <<a, 0>>
        /\ [Resting EXCEPT !.at = "queued", !.id = <<a, 0>>, !.started = s].started = s
        /\ [Resting EXCEPT !.at = "queued", !.id = <<a, 0>>, !.started = s].claims = Nothing
    BY DEF Resting
  <2> QED
    BY <2>2, <2>3
<1>5. writer' = [writer EXCEPT ![a] = r]
  BY <1>2, <1>3, <1>4 DEF Begin
<1>6. analyses' \in [Analyses -> Demands]
  <2>1. PICK d \in Demands : d = [analyses[a] EXCEPT !.state = "open"]
    <3>1. [analyses[a] EXCEPT !.state = "open"] \in Demands
      BY <1>1 DEF Demands
    <3> QED
      BY <3>1, Zenon
  <2>2. analyses' = [analyses EXCEPT ![a] = d]
    BY <1>1, <2>1 DEF Begin
  <2> QED
    BY <1>1, <2>2
<1>7. Fitting(a, r)'
  <2>1. <<a, 0>> \in RunIds
    BY LibraryBounded DEF RunIds
  <2>2. release'.fusion \in Nat /\ r.claims.fusion = 0
    BY <1>1, <1>2, <1>4 DEF Nothing
  <2> QED
    BY <1>1, <1>4, <2>1, <2>2 DEF Fitting, Holding
<1>8. /\ flat' \in Evidence /\ begun' \in 0..MaxBegun /\ begun <= begun'
      /\ r.started = begun + 1 /\ r.at # "seal"
  BY <1>1, <1>2, <1>3, <1>4
<1> QED
  BY <1>1, <1>2, <1>4, <1>5, <1>6, <1>7, <1>8, OneMoves

\* A writer goes on with what it has.
LEMMA StepIs ==
    ASSUME LibraryTypeOK, NEW w \in Writers, NEW step \in Phases
    PROVE  \E r \in Writings :
              /\ r = [writer[w] EXCEPT !.at = step] /\ r.at = step
              /\ r.id = writer[w].id /\ r.started = writer[w].started
              /\ r.claims = writer[w].claims /\ r.shows = writer[w].shows
              /\ r.complete = writer[w].complete /\ r.links = writer[w].links
              /\ r.version = writer[w].version /\ r.chosen = writer[w].chosen
              /\ Drawn(r) = Drawn(writer[w]) /\ Named(r) = Named(writer[w])
<1>1. PICK x \in Writings : x = writer[w]
  BY LibraryTypes
<1>2. [x EXCEPT !.at = step] \in Writings
  BY DEF Writings
<1>3. PICK r \in Writings : r = [x EXCEPT !.at = step]
  BY <1>2
<1>4. /\ r.at = step /\ r.id = x.id /\ r.started = x.started
      /\ r.claims = x.claims /\ r.shows = x.shows
      /\ r.complete = x.complete /\ r.links = x.links
      /\ r.version = x.version /\ r.chosen = x.chosen
  BY <1>3 DEF Writings
<1>5. Drawn(r) = Drawn(x) /\ Named(r) = Named(x)
  BY <1>4 DEF Drawn, Named
<1> QED
  BY <1>1, <1>3, <1>4, <1>5

\* A writer that is under way has started.
LEMMA UnderWay ==
    ASSUME LibraryInv, NEW w \in Writers, writer[w].at # "idle"
    PROVE  /\ writer[w].id \in RunIds /\ writer[w].id[1] \in Analyses
           /\ writer[w].id[2] \in 0..MaxRelease /\ writer[w].started \in 1..MaxBegun
           /\ Started(writer[w].started, writer[w].id[1])
BY DEF LibraryInv, WritersFit, Fitting, Started, RunIds

-----------------------------------------------------------------------------
\* _order() is a total order: results of one time are of one analysis.
LEMMA ResultsAreOrdered ==
    ASSUME LibraryInv
    PROVE  /\ \A b, c \in bundles : NotBefore(b, c) \/ NotBefore(c, b)
           /\ \A b, c, d \in bundles : NotBefore(b, c) /\ NotBefore(c, d) => NotBefore(b, d)
<1>1. \A b \in bundles : /\ b.started \in 1..MaxBegun /\ b.started \in Nat /\ b.version \in Nat
                         /\ b.id[1] \in Analyses /\ b.id[2] \in Nat /\ b.id = <<b.id[1], b.id[2]>>
  <2> SUFFICES ASSUME NEW b \in bundles
               PROVE  /\ b.started \in 1..MaxBegun /\ b.started \in Nat /\ b.version \in Nat
                      /\ b.id[1] \in Analyses /\ b.id[2] \in Nat /\ b.id = <<b.id[1], b.id[2]>>
    OBVIOUS
  <2>1. b.id \in RunIds /\ b.started \in 1..MaxBegun /\ b.version \in Nat
    BY LibraryTypes DEF LibraryInv, Bundles
  <2> QED
    BY <2>1, LibraryBounded DEF RunIds
<1>2. \A b, c \in bundles : b.started = c.started => b.id[1] = c.id[1]
  BY <1>1 DEF LibraryInv, StartsAreTold, Started
<1>3. \A b, c \in bundles : b.started = c.started /\ b.id[2] = c.id[2] => b.id = c.id
  BY <1>1, <1>2
<1> QED
  BY <1>1, <1>3 DEF NotBefore

\* Some results have a newest: the one that the fewest are after.
LEMMA NewestIs ==
    ASSUME LibraryInv, NEW S \in SUBSET bundles, S # {}
    PROVE  Newest(S) \in S /\ \A c \in S : NotBefore(Newest(S), c)
<1> DEFINE After(b) == {c \in S : ~NotBefore(b, c)}
           T == {After(b) : b \in S}
           R == StrictSubsetOrdering(S)
<1>1. IsWellFoundedOn(R, SUBSET S)
  BY FS_StrictSubsetOrderingWellFounded, FS_FiniteSubsetsOfFinite, FS_Subset
     DEF LibraryInv, BundlesFit
<1>2. T \subseteq SUBSET S /\ T # {}
  OBVIOUS
<1>3. PICK U \in T : \A V \in T : <<V, U>> \notin R
  <2> HIDE DEF T, R
  <2> QED
    BY <1>1, <1>2, WFMin
<1>4. PICK b \in S : U = After(b)
  BY <1>3
<1>5. ASSUME NEW c \in S PROVE NotBefore(b, c)
  <2> SUFFICES ASSUME ~NotBefore(b, c) PROVE FALSE
    OBVIOUS
  <2>1. NotBefore(c, b) /\ NotBefore(c, c)
    BY <1>5, ResultsAreOrdered
  <2>2. After(c) \subseteq After(b) /\ c \in After(b) /\ c \notin After(c)
    BY <1>5, <2>1, ResultsAreOrdered
  <2>3. <<After(c), After(b)>> \in R
    BY <2>2 DEF StrictSubsetOrdering
  <2> QED
    BY <1>3, <1>4, <1>5, <2>3
<1> QED
  BY <1>5 DEF Newest

\* What is served, shown and revised is one of the results.
LEMMA ShownIsThere ==
    ASSUME LibraryInv PROVE ResultDir \subseteq {b \in bundles : b.sealed}
<1> DEFINE readable == {b \in bundles : b.sealed}
           complete == {b \in readable : b.complete}
           pointed == {b \in complete : Named(b) = pointer}
<1>1. complete # {} => Newest(complete) \in complete
  BY NewestIs
<1>2. readable # {} => Newest(readable) \in readable
  BY NewestIs
<1> QED
  BY <1>1, <1>2 DEF ResultDir

\* A result that is pointed at is the one shown.
LEMMA PointedIsShown ==
    ASSUME LibraryInv, pointer # NoPointer, NEW b \in bundles, Named(b) = pointer
    PROVE  b.sealed /\ b.complete /\ Opens(b) /\ b \in ResultDir
BY DEF LibraryInv, PointerOpens, BundlesFit, ResultDir

LEMMA ResultsAre ==
    ASSUME LibraryInv, NEW b \in bundles
    PROVE  /\ b.id \in RunIds /\ b.id[1] \in Analyses /\ b.started \in 1..MaxBegun
           /\ b.version \in Nat /\ b.complete \in BOOLEAN /\ b.links \in BOOLEAN
           /\ b.claims \in [run : Analyses, paid : BOOLEAN, fusion : 0..MaxRelease]
           /\ b.claims.run = b.id[1] /\ b.claims.fusion <= release.fusion
           /\ Started(b.started, b.id[1])
<1>1. b \in Bundles /\ b.claims.run = b.id[1] /\ b.claims.fusion <= release.fusion
  BY LibraryTypes DEF LibraryInv, BundlesFit
<1>2. b.id \in RunIds /\ b.id[1] \in Analyses /\ b.claims \in Evidence
  BY <1>1 DEF Bundles, RunIds
<1>3. b.claims \in [run : Analyses, paid : BOOLEAN, fusion : 0..MaxRelease]
  <2>1. CASE b.claims = Nothing
    <3>1. NoOne \in Analyses /\ 0 \in 0..MaxRelease
      BY <1>1, <1>2, <2>1, LibraryBounded DEF Nothing
    <3> QED
      BY <2>1, <3>1 DEF Nothing
  <2> QED
    BY <1>2, <2>1 DEF Evidence
<1> QED
  BY <1>1, <1>2, <1>3 DEF Bundles, Started

LEMMA UnchangedFits ==
    ASSUME NEW w, NEW r, Fitting(w, r), UNCHANGED <<release, flat, frozen, bundles, pointer>>
    PROVE  Fitting(w, r)'
BY DEF Fitting, Fits, Drawn, Begun, Named, NotBefore

\* A re-fused run is of the new fusion version, and its rows are its own or its frozen ones.
LEMMA RefusingIs ==
    ASSUME LibraryInv, NEW w \in Writers, w # "acquire", NEW b \in bundles, ~UpToDate(b),
           Refusing(w, b)
    PROVE  \E r \in Writings :
              /\ writer' = [writer EXCEPT ![w] = r] /\ r.at \in {"publish", "freeze"}
              /\ Started(r.started, r.id[1]) /\ Fitting(w, r)
<1>1. release.fusion \in 0..MaxRelease /\ release.fusion \in Nat /\ MaxRelease \in Nat
  BY LibraryTypes, LibraryBounded DEF LibraryInv
<1>2. PICK id \in RunIds :
          id = <<b.id[1], release.fusion>> /\ id[1] = b.id[1] /\ id[2] = release.fusion /\ id[2] # 0
  <2>1. <<b.id[1], release.fusion>> \in RunIds
    BY <1>1, ResultsAre DEF RunIds
  <2>2. b.claims.fusion \in Nat /\ b.claims.fusion <= release.fusion /\ b.claims.fusion # release.fusion
    BY ResultsAre DEF UpToDate
  <2>3. release.fusion # 0
    BY <1>1, <2>2
  <2> QED
    BY <2>1, <2>3
<1>3. PICK e \in Evidence : /\ e = [b.claims EXCEPT !.fusion = release.fusion]
                            /\ e.run = id[1] /\ e.fusion = id[2]
  <2>1. PICK c \in [run : Analyses, paid : BOOLEAN, fusion : 0..MaxRelease] : c = b.claims
    BY ResultsAre
  <2>2. /\ [c EXCEPT !.fusion = release.fusion] \in Evidence
        /\ [c EXCEPT !.fusion = release.fusion].run = c.run
        /\ [c EXCEPT !.fusion = release.fusion].fusion = release.fusion
    BY <1>1 DEF Evidence
  <2> QED
    BY <1>2, <2>1, <2>2, ResultsAre
<1>4. frozen[id].holds \in Evidence
  BY LibraryTypes DEF LibraryInv, Runs
<1>5. PICK h \in Evidence : h = IF frozen[id].seal = "sealed" THEN frozen[id].holds ELSE e
  BY <1>4
<1>6. PICK step \in Phases : /\ step = IF frozen[id].seal = "sealed" THEN "publish" ELSE "freeze"
                             /\ step \in {"publish", "freeze"}
  BY DEF Phases
<1>7. PICK r \in Writings :
          /\ r = [Resting EXCEPT !.at = step, !.id = id, !.started = b.started,
                                 !.complete = b.complete, !.links = b.links, !.claims = e,
                                 !.shows = h]
          /\ r.at = step /\ r.id = id /\ r.started = b.started /\ r.claims = e /\ r.shows = h
  <2> DEFINE R == [Resting EXCEPT !.at = step, !.id = id, !.started = b.started,
                                  !.complete = b.complete, !.links = b.links, !.claims = e,
                                  !.shows = h]
  <2>1. b.started \in 0..MaxBegun /\ b.complete \in BOOLEAN /\ b.links \in BOOLEAN
    BY ResultsAre
  <2>2. R \in Writings
    BY <1>2, <2>1, RestingIs DEF Writings
  <2>3. R.at = step /\ R.id = id /\ R.started = b.started /\ R.claims = e /\ R.shows = h
    BY DEF Resting
  <2> QED
    BY <2>2, <2>3
<1>8. writer' = [writer EXCEPT ![w] = r]
  <2>1. writer' = [writer EXCEPT ![w] =
            [Resting EXCEPT !.at = step, !.id = id, !.started = b.started,
                            !.complete = b.complete, !.links = b.links, !.claims = e,
                            !.shows = h]]
    BY <1>2, <1>3, <1>5, <1>6, Zenon DEF Refusing
  <2> QED
    BY <1>7, <2>1, Zenon
<1>9. Fitting(w, r)
  <2>1. e.fusion <= release.fusion /\ r.started \in 1..MaxBegun
    BY <1>1, <1>2, <1>3, <1>7, ResultsAre
  <2> QED
    BY <1>2, <1>3, <1>5, <1>6, <1>7, <2>1 DEF Fitting, Fits, Holding
<1> QED
  BY <1>2, <1>6, <1>7, <1>8, <1>9, ResultsAre

LEMMA RevisesIs ==
    ASSUME LibraryInv, NEW w \in Writers, NEW b \in bundles, Opens(b), NEW links \in BOOLEAN,
           w = "acquire" => links, Revises(w, b, links)
    PROVE  \E r \in Writings :
              /\ writer' = [writer EXCEPT ![w] = r] /\ r.at = "publish"
              /\ Started(r.started, r.id[1]) /\ Fitting(w, r)
<1>1. frozen[b.id].holds \in Evidence /\ frozen[b.id].seal = "sealed"
  BY LibraryTypes, ResultsAre DEF LibraryInv, Runs, Opens
<1>2. PICK r \in Writings :
          /\ r = [Resting EXCEPT !.at = "publish", !.id = b.id, !.started = b.started,
                                 !.complete = b.complete, !.links = links, !.version = b.version,
                                 !.claims = b.claims, !.shows = frozen[b.id].holds]
          /\ r.at = "publish" /\ r.id = b.id /\ r.started = b.started /\ r.claims = b.claims
          /\ r.links = links
  <2> DEFINE R == [Resting EXCEPT !.at = "publish", !.id = b.id, !.started = b.started,
                                  !.complete = b.complete, !.links = links, !.version = b.version,
                                  !.claims = b.claims, !.shows = frozen[b.id].holds]
  <2>1. /\ "publish" \in Phases /\ b.started \in 0..MaxBegun /\ b.claims \in Evidence
        /\ b.id \in RunIds /\ b.complete \in BOOLEAN /\ b.version \in Nat
    BY ResultsAre DEF Phases, Evidence
  <2>2. R \in Writings
    BY <1>1, <2>1, RestingIs DEF Writings
  <2>3. R.at = "publish" /\ R.id = b.id /\ R.started = b.started /\ R.claims = b.claims /\ R.links = links
    BY DEF Resting
  <2> QED
    BY <2>2, <2>3
<1>3. writer' = [writer EXCEPT ![w] = r]
  BY <1>2, Zenon DEF Revises
<1>4. Fitting(w, r)
  BY <1>1, <1>2, ResultsAre DEF Fitting, Holding
<1> QED
  BY <1>2, <1>3, <1>4, ResultsAre

LEMMA SameRestIs ==
    ASSUME LibraryInv, UNCHANGED flat
    PROVE  /\ flat' \in Evidence /\ release.fusion \in Nat
           /\ begun \in 0..MaxBegun /\ begun <= begun
           /\ analyses \in [Analyses -> Demands]
BY LibraryTypes, LibraryBounded DEF LibraryInv, LibraryTypeOK

LEMMA RefuseStoredKeeps ==
    ASSUME LibraryInv, NEW a \in Analyses, RefuseStored(a) PROVE LibraryInv'
<1>1. /\ a \in Writers /\ a # "acquire" /\ LockFree
      /\ UNCHANGED <<release, flat, frozen, bundles, pointer, analyses, begun>>
  BY AnalysesWrite DEF RefuseStored
<1>2. PICK b \in bundles : ~UpToDate(b) /\ Refusing(a, b)
  <2>1. Newest(Answering(a)) \in bundles
    BY NewestIs DEF RefuseStored, Answering
  <2> QED
    BY <2>1 DEF RefuseStored
<1>3. PICK r \in Writings :
          /\ writer' = [writer EXCEPT ![a] = r] /\ r.at \in {"publish", "freeze"}
          /\ Started(r.started, r.id[1]) /\ Fitting(a, r)
  BY <1>1, <1>2, RefusingIs
<1>4. Fitting(a, r)'
  BY <1>1, <1>3, UnchangedFits
<1>5. /\ flat' \in Evidence /\ begun' \in 0..MaxBegun /\ begun <= begun'
      /\ analyses' \in [Analyses -> Demands] /\ r.at # "seal"
  BY <1>1, <1>3, SameRestIs
<1> QED
  BY <1>1, <1>3, <1>4, <1>5, OneMoves

LEMMA UpkeepKeeps == ASSUME LibraryInv, Upkeep PROVE LibraryInv'
<1>1. /\ "upkeep" \in Writers /\ "upkeep" # "acquire" /\ LockFree
      /\ UNCHANGED <<release, flat, frozen, bundles, pointer, analyses>>
      /\ begun < MaxBegun /\ begun' = begun + 1
  BY AnalysesWrite DEF Upkeep
<1>2. PICK b \in bundles :
          /\ Opens(b)
          /\ (~UpToDate(b) /\ Refusing("upkeep", b)) \/ Revises("upkeep", b, b.links)
  BY ShownIsThere DEF Upkeep
<1>3. PICK r \in Writings :
          /\ writer' = [writer EXCEPT !["upkeep"] = r] /\ r.at \in {"publish", "freeze"}
          /\ Started(r.started, r.id[1]) /\ Fitting("upkeep", r)
  <2>1. CASE ~UpToDate(b) /\ Refusing("upkeep", b)
    BY <1>1, <2>1, RefusingIs
  <2>2. CASE Revises("upkeep", b, b.links)
    <3>1. b.links \in BOOLEAN
      BY ResultsAre
    <3>2. \E r \in Writings :
              /\ writer' = [writer EXCEPT !["upkeep"] = r] /\ r.at = "publish"
              /\ Started(r.started, r.id[1]) /\ Fitting("upkeep", r)
      BY <1>1, <1>2, <2>2, <3>1, RevisesIs
    <3> QED
      BY <3>2
  <2> QED
    BY <1>2, <2>1, <2>2
<1>4. Fitting("upkeep", r)'
  BY <1>1, <1>3, UnchangedFits
<1>5. /\ flat' \in Evidence /\ begun' \in 0..MaxBegun /\ begun <= begun'
      /\ analyses' \in [Analyses -> Demands] /\ r.at # "seal"
  BY <1>1, <1>3, SameRestIs, LibraryBounded
<1> QED
  BY <1>1, <1>3, <1>4, <1>5, OneMoves

LEMMA AcquireKeeps == ASSUME LibraryInv, Acquire PROVE LibraryInv'
<1>1. /\ "acquire" \in Writers
      /\ UNCHANGED <<release, flat, frozen, bundles, pointer, analyses>>
      /\ begun < MaxBegun /\ begun' = begun + 1
  BY AnalysesWrite DEF Acquire
<1>2. PICK b \in bundles : Opens(b) /\ Revises("acquire", b, TRUE)
  BY ShownIsThere DEF Acquire
<1>3. PICK r \in Writings :
          /\ writer' = [writer EXCEPT !["acquire"] = r] /\ r.at = "publish"
          /\ Started(r.started, r.id[1]) /\ Fitting("acquire", r)
  BY <1>1, <1>2, RevisesIs
<1>4. Fitting("acquire", r)'
  BY <1>1, <1>3, UnchangedFits
<1>5. /\ flat' \in Evidence /\ begun' \in 0..MaxBegun /\ begun <= begun'
      /\ analyses' \in [Analyses -> Demands] /\ r.at # "seal"
  BY <1>1, <1>3, SameRestIs, LibraryBounded
<1> QED
  BY <1>1, <1>3, <1>4, <1>5, OneMoves

LEMMA SweepKeeps == ASSUME LibraryInv, NEW a \in Analyses, Sweep(a) PROVE LibraryInv'
<1>1. /\ a \in Writers /\ a # "acquire" /\ LockFree /\ writer[a].at = "queued"
      /\ UNCHANGED <<release, flat, frozen, bundles, pointer, begun>>
  BY AnalysesWrite DEF Sweep
<1>2. PICK c \in BOOLEAN : writer' = [writer EXCEPT ![a].at = "fuse", ![a].borrowed = c]
  <2>1. analyses[a].deep \in BOOLEAN
    BY LibraryTypes DEF LibraryInv, Demands
  <2>2. (/\ analyses[a].deep /\ ~analyses[a].swept /\ ~analyses[a].refresh
         /\ \E b \in bundles : b.sealed /\ b.complete /\ ~b.claims.paid /\ Opens(b)) \in BOOLEAN
    OBVIOUS
  <2> QED
    BY <2>2, Zenon DEF Sweep
<1>3. PICK x \in Writings : x = writer[a] /\ x.at = "queued" /\ Fitting(a, x)
  BY <1>1, LibraryTypes DEF LibraryInv, WritersFit
<1>4. PICK r \in Writings :
          /\ r = [x EXCEPT !.at = "fuse", !.borrowed = c] /\ r.at = "fuse" /\ r.id = x.id
          /\ r.started = x.started /\ r.claims = x.claims
  <2> DEFINE R == [x EXCEPT !.at = "fuse", !.borrowed = c]
  <2>1. R \in Writings /\ R.at = "fuse" /\ R.id = x.id /\ R.started = x.started /\ R.claims = x.claims
    BY DEF Writings, Phases
  <2> QED
    BY <2>1
<1>5. writer' = [writer EXCEPT ![a] = r]
  BY <1>1, <1>2, <1>3, <1>4, LibraryTypes DEF LibraryInv
<1>6. Fitting(a, r)
  BY <1>1, <1>3, <1>4 DEF Fitting, Holding
<1>7. Fitting(a, r)'
  BY <1>1, <1>6, UnchangedFits
<1>8. Started(r.started, r.id[1])
  BY <1>1, <1>3, <1>4, UnderWay
<1>9. analyses' \in [Analyses -> Demands]
  <2>1. PICK d \in Demands : d = [analyses[a] EXCEPT !.swept = TRUE]
    <3>1. [analyses[a] EXCEPT !.swept = TRUE] \in Demands
      BY SameRestIs, <1>1 DEF Demands
    <3> QED
      BY <3>1, Zenon
  <2>2. analyses' = [analyses EXCEPT ![a] = d]
    BY <2>1, SameRestIs, <1>1 DEF Sweep
  <2> QED
    BY <2>2, SameRestIs, <1>1
<1>10. flat' \in Evidence /\ begun' \in 0..MaxBegun /\ begun <= begun' /\ r.at # "seal"
  BY <1>1, <1>4, SameRestIs
<1> QED
  BY <1>1, <1>4, <1>5, <1>7, <1>8, <1>9, <1>10, OneMoves

\* A pass that has something of its own to show.
LEMMA PublishesIs ==
    ASSUME LibraryTypeOK, NEW a \in Writers, NEW e \in Evidence, NEW complete \in BOOLEAN,
           Publishes(a, e, complete)
    PROVE  \E r \in Writings :
              /\ writer' = [writer EXCEPT ![a] = r] /\ r.at = "publish" /\ r.id = writer[a].id
              /\ r.started = writer[a].started /\ r.claims = e
<1>1. PICK x \in Writings : x = writer[a]
  BY LibraryTypes
<1>2. PICK r \in Writings :
          /\ r = [x EXCEPT !.at = "publish", !.claims = e, !.shows = e, !.complete = complete]
          /\ r.at = "publish" /\ r.id = x.id /\ r.started = x.started /\ r.claims = e
  <2> DEFINE R == [x EXCEPT !.at = "publish", !.claims = e, !.shows = e, !.complete = complete]
  <2>1. R \in Writings /\ R.at = "publish" /\ R.id = x.id /\ R.started = x.started /\ R.claims = e
    BY DEF Writings, Phases
  <2> QED
    BY <2>1
<1>3. writer' = [writer EXCEPT ![a] = r]
  BY <1>1, <1>2, LibraryTypes DEF Publishes
<1> QED
  BY <1>1, <1>2, <1>3

LEMMA OwnIs ==
    ASSUME LibraryInv, NEW a \in Analyses, NEW paid \in BOOLEAN
    PROVE  /\ Own(a, paid) \in Evidence /\ Own(a, paid).run = a
           /\ Own(a, paid).fusion = release.fusion /\ release.fusion <= release.fusion
BY LibraryTypes DEF LibraryInv, Own, Evidence

\* From then on fuse/ is its own.
LEMMA PublishKeeps ==
    ASSUME LibraryInv, NEW a \in Analyses, writer[a].at \in {"fuse", "paid"},
           NEW paid \in BOOLEAN, NEW complete \in BOOLEAN,
           Publishes(a, Own(a, paid), complete), flat' \in Evidence,
           flat'.run = a \/ (UNCHANGED flat /\ writer[a].at = "paid"),
           analyses' \in [Analyses -> Demands],
           UNCHANGED <<release, frozen, bundles, pointer, begun>>
    PROVE  LibraryInv'
<1>1. a \in Writers /\ a # "acquire" /\ Locked(a) /\ Fitting(a, writer[a])
  BY AnalysesWrite DEF Locked, LibraryInv, WritersFit
<1>2. PICK e \in Evidence : e = Own(a, paid) /\ e.run = a /\ e.fusion = release.fusion
  BY OwnIs
<1>3. PICK r \in Writings :
          /\ writer' = [writer EXCEPT ![a] = r] /\ r.at = "publish" /\ r.id = writer[a].id
          /\ r.started = writer[a].started /\ r.claims = e
  BY <1>1, <1>2, PublishesIs DEF LibraryInv
<1>4. r.id = <<a, 0>> /\ r.id \in RunIds /\ r.started \in 1..MaxBegun
  BY <1>1, <1>3 DEF Fitting
<1>5. frozen[r.id].seal # "sealed" => flat'.run = a
  BY <1>1, <1>3, <1>4 DEF Fitting
<1>6. Fitting(a, r)'
  BY <1>1, <1>2, <1>3, <1>4, <1>5, OwnIs DEF Fitting, Holding
<1>7. Started(r.started, r.id[1])
  BY <1>1, <1>3, UnderWay
<1>8. begun' \in 0..MaxBegun /\ begun <= begun' /\ r.at # "seal"
  BY <1>3, SameRestIs, LibraryBounded DEF LibraryInv, LibraryTypeOK
<1> QED
  BY <1>1, <1>3, <1>6, <1>7, <1>8, OneMoves

LEMMA FuseKeeps == ASSUME LibraryInv, NEW a \in Analyses, Fuse(a) PROVE LibraryInv'
<1>1. /\ a \in Writers /\ a # "acquire" /\ writer[a].at = "fuse" /\ Locked(a)
      /\ flat' = Own(a, FALSE) /\ UNCHANGED <<release, frozen, bundles, pointer, analyses, begun>>
  BY AnalysesWrite DEF Fuse, Locked
<1>2. flat' \in Evidence /\ flat'.run = a
  BY <1>1, OwnIs
<1>3. analyses' \in [Analyses -> Demands] /\ begun' \in 0..MaxBegun /\ begun <= begun'
  BY <1>1, LibraryTypes, LibraryBounded DEF LibraryInv, LibraryTypeOK
<1>4. CASE Goes(a, "paid")
  <2>1. PICK r \in Writings :
            /\ r = [writer[a] EXCEPT !.at = "paid"] /\ r.at = "paid" /\ r.id = writer[a].id
            /\ r.started = writer[a].started /\ r.claims = writer[a].claims
    BY <1>1, StepIs DEF LibraryInv, Phases
  <2>2. writer' = [writer EXCEPT ![a] = r]
    BY <1>1, <1>4, <2>1, LibraryTypes DEF Goes, LibraryInv
  <2>3. Fitting(a, writer[a])
    BY <1>1 DEF LibraryInv, WritersFit
  <2>4. Fitting(a, r)'
    <3>1. /\ r.id = <<a, 0>> /\ r.id \in RunIds /\ r.started \in 1..MaxBegun
          /\ r.claims.fusion <= release.fusion
      BY <1>1, <2>1, <2>3 DEF Fitting
    <3>2. /\ r.at = "paid" /\ r.id[1] = a /\ r.id[2] = 0 /\ release' = release
          /\ a \in Analyses /\ a # "acquire"
      BY <1>1, <2>1, <3>1
    <3>3. PICK e : flat' = e /\ e.run = a
      BY <1>2
    <3> QED
      BY <3>1, <3>2, <3>3 DEF Fitting, Holding
  <2>5. Started(r.started, r.id[1])
    BY <1>1, <2>1, UnderWay
  <2>6. r.at # "seal"
    BY <2>1
  <2> QED
    BY <1>1, <1>2, <1>3, <2>1, <2>2, <2>4, <2>5, <2>6, OneMoves
<1>5. CASE \E complete \in BOOLEAN : Publishes(a, Own(a, FALSE), complete)
  BY <1>1, <1>2, <1>3, <1>5, PublishKeeps
<1> QED
  BY <1>4, <1>5 DEF Fuse

LEMMA PaidAnswersKeeps == ASSUME LibraryInv, NEW a \in Analyses, PaidAnswers(a) PROVE LibraryInv'
<1>1. /\ writer[a].at = "paid" /\ flat' = Own(a, TRUE)
      /\ UNCHANGED <<release, frozen, bundles, pointer, begun>>
  BY DEF PaidAnswers
<1>2. flat' \in Evidence /\ flat'.run = a
  BY <1>1, OwnIs
<1>3. analyses' \in [Analyses -> Demands]
  <2>1. analyses \in [Analyses -> Demands]
    BY LibraryTypes DEF LibraryInv
  <2>2. PICK d \in Demands : d = [analyses[a] EXCEPT !.answered = TRUE]
    <3>1. [analyses[a] EXCEPT !.answered = TRUE] \in Demands
      BY <2>1 DEF Demands
    <3> QED
      BY <3>1, Zenon
  <2>3. analyses' = [analyses EXCEPT ![a] = d]
    BY <2>1, <2>2 DEF PaidAnswers
  <2> QED
    BY <2>1, <2>3
<1>4. PICK complete \in BOOLEAN : Publishes(a, Own(a, TRUE), complete)
  BY DEF PaidAnswers
<1> QED
  BY <1>1, <1>2, <1>3, <1>4, PublishKeeps

LEMMA NoPaidAnswersKeeps ==
    ASSUME LibraryInv, NEW a \in Analyses, NoPaidAnswers(a) PROVE LibraryInv'
<1>1. /\ writer[a].at = "paid" /\ UNCHANGED <<release, flat, frozen, bundles, pointer, begun>>
      /\ a \in Writers
  BY AnalysesWrite DEF NoPaidAnswers
<1>2. CASE Settled(a)
  BY <1>1, <1>2, SettledIs, RestKeeps DEF LibraryInv
<1>3. CASE UNCHANGED analyses /\ \E complete \in BOOLEAN : Publishes(a, Own(a, FALSE), complete)
  <2>1. PICK complete \in BOOLEAN : Publishes(a, Own(a, FALSE), complete)
    BY <1>3
  <2>2. flat' \in Evidence /\ analyses' \in [Analyses -> Demands]
    BY <1>1, <1>3, LibraryTypes DEF LibraryInv, LibraryTypeOK
  <2> QED
    BY <1>1, <2>1, <2>2, PublishKeeps
<1> QED
  BY <1>2, <1>3 DEF NoPaidAnswers

-----------------------------------------------------------------------------
(* Publishing. *)

Smaller == {ss \in Nat \X Nat : ss[1] < ss[2]}

LEMMA LeastIs ==
    ASSUME NEW S \in SUBSET Nat, S # {}
    PROVE  \E m \in S : \A n \in S : m <= n
<1>1. IsWellFoundedOn(Smaller, Nat)
  BY NatLessThanWellFounded DEF OpToRel, Smaller
<1>2. PICK m \in S : \A n \in S : <<n, m>> \notin Smaller
  BY <1>1, WFMin
<1>3. \A x, y \in Nat : x < y => <<x, y>> \in Smaller
  BY DEF Smaller
<1>4. ASSUME NEW n \in S PROVE m <= n
  <2>1. n \in Nat /\ m \in Nat
    OBVIOUS
  <2>2. ~(n < m)
    BY <1>2, <1>3, <2>1, Zenon
  <2> QED
    BY <2>1, <2>2
<1> QED
  BY <1>4

\* Among one more revisions than there are bundles, one is free.
LEMMA OneIsFree ==
    ASSUME NEW B, IsFiniteSet(B), NEW from \in Nat, NEW id
    PROVE  \E n \in from..(from + Cardinality(B)) : ~\E b \in B : Named(b) = <<id, n>>
<1> DEFINE S == from..(from + Cardinality(B))
           f == [n \in S |-> CHOOSE b \in B : Named(b) = <<id, n>>]
<1> SUFFICES ASSUME \A n \in S : \E b \in B : Named(b) = <<id, n>> PROVE FALSE
  OBVIOUS
<1>1. Cardinality(B) \in Nat
  BY FS_CardinalityType
<1>2. IsFiniteSet(S) /\ Cardinality(S) = Cardinality(B) + 1
  BY <1>1, FS_Interval
<1>3. \A n \in S : f[n] \in B /\ Named(f[n]) = <<id, n>>
  OBVIOUS
<1>4. f \in [S -> B]
  BY <1>3
<1>5. Cardinality(B) < Cardinality(S)
  BY <1>1, <1>2
<1>6. PICK x, y \in S : x # y /\ f[x] = f[y]
  <2> HIDE DEF f, S
  <2> QED
    BY <1>2, <1>4, <1>5, FS_PigeonHole
<1> QED
  BY <1>3, <1>6

LEMMA ChooseIs ==
    ASSUME LibraryInv, NEW w \in Writers, Choose(w)
    PROVE  \E n \in Nat, step \in {"compare", "make", "freeze"} :
              /\ writer' = [writer EXCEPT ![w].version = n, ![w].chosen = TRUE, ![w].at = step]
              /\ step = "compare" => [Rendered(w) EXCEPT !.version = n] \in bundles
              /\ step = "freeze" <=> ~Opens(writer[w])
<1> DEFINE from == Max({release.page, writer[w].version})
           taken(n) == \E b \in bundles : Named(b) = <<writer[w].id, n>>
           same(n) == [Rendered(w) EXCEPT !.version = n] \in bundles
           Right(n) == /\ same(n) \/ ~taken(n)
                       /\ \A m \in from..(n - 1) : taken(m) /\ ~same(m)
           range == from..(from + Cardinality(bundles))
           n == CHOOSE n \in range : Right(n)
<1>1. from \in Nat
  <2>1. release.page \in Nat /\ writer[w].version \in Nat
    BY LibraryTypes DEF LibraryInv, Writings
  <2> QED
    BY <2>1 DEF Max
<1>2. IsFiniteSet(bundles) /\ Cardinality(bundles) \in Nat
  BY FS_CardinalityType DEF LibraryInv, BundlesFit
<1>3. \E k \in range : Right(k)
  <2> DEFINE T == {k \in range : same(k) \/ ~taken(k)}
  <2>1. T # {}
    <3>1. PICK k \in range : ~taken(k)
      <4> HIDE DEF from
      <4> QED
        BY <1>1, <1>2, OneIsFree
    <3> HIDE DEF range, same, taken
    <3> QED
      BY <3>1, Zenon
  <2>2. T \in SUBSET Nat /\ range \subseteq Nat
    <3> HIDE DEF from, same, taken
    <3> QED
      BY <1>1, <1>2
  <2>3. PICK k \in T : \A m \in T : k <= m
    <3> HIDE DEF T
    <3> QED
      BY <2>1, <2>2, LeastIs
  <2>4. \A m \in from..(k - 1) : m \in range /\ ~(k <= m)
    <3> HIDE DEF from, same, taken
    <3> QED
      BY <1>1, <1>2, <2>2, <2>3
  <2>5. Right(k)
    <3> HIDE DEF from
    <3> QED
      BY <2>3, <2>4
  <2> QED
    BY <2>3, <2>5
<1>4. n \in range /\ Right(n)
  <2> HIDE DEF range, Right
  <2> QED
    BY <1>3, Zenon
<1>5. n \in Nat
  <2> HIDE DEF from
  <2>1. \A k \in range : k \in Nat
    <3> HIDE DEF n
    <3> QED
      BY <1>1, <1>2
  <2> HIDE DEF range, n
  <2> QED
    BY <1>4, <2>1
<1>6. /\ ~same(n) \/ Opens(writer[w])
      /\ writer' = [writer EXCEPT ![w].version = n, ![w].chosen = TRUE,
                            ![w].at = CASE same(n) -> "compare"
                                        [] ~same(n) /\ Opens(writer[w]) -> "make"
                                        [] OTHER -> "freeze"]
  BY Zenon DEF Choose
<1>7. PICK k \in Nat : k = n
  BY <1>5
<1>8. /\ ~same(k) \/ Opens(writer[w])
      /\ writer' = [writer EXCEPT ![w].version = k, ![w].chosen = TRUE,
                            ![w].at = CASE same(k) -> "compare"
                                        [] ~same(k) /\ Opens(writer[w]) -> "make"
                                        [] OTHER -> "freeze"]
  <2> HIDE DEF n
  <2> QED
    BY <1>6, <1>7, Zenon
<1>9. CASE same(k)
  <2>1. Opens(writer[w])
    BY <1>8, <1>9
  <2>2. writer' = [writer EXCEPT ![w].version = k, ![w].chosen = TRUE, ![w].at = "compare"]
    BY <1>8, <1>9
  <2> QED
    BY <1>9, <2>1, <2>2
<1>10. CASE ~same(k) /\ Opens(writer[w])
  <2>1. writer' = [writer EXCEPT ![w].version = k, ![w].chosen = TRUE, ![w].at = "make"]
    BY <1>8, <1>10
  <2> QED
    BY <1>10, <2>1
<1>11. CASE ~Opens(writer[w])
  <2>1. writer' = [writer EXCEPT ![w].version = k, ![w].chosen = TRUE, ![w].at = "freeze"]
    BY <1>8, <1>11
  <2> QED
    BY <1>11, <2>1
<1> QED
  BY <1>9, <1>10, <1>11

LEMMA ChooseKeeps == ASSUME LibraryInv, NEW w \in Writers, Choose(w) PROVE LibraryInv'
<1>1. PICK n \in Nat, step \in {"compare", "make", "freeze"} :
          /\ writer' = [writer EXCEPT ![w].version = n, ![w].chosen = TRUE, ![w].at = step]
          /\ step = "compare" => [Rendered(w) EXCEPT !.version = n] \in bundles
          /\ step = "freeze" <=> ~Opens(writer[w])
  BY ChooseIs
<1>2. /\ writer[w].at = "publish" /\ UNCHANGED <<release, flat, frozen, bundles, pointer, analyses, begun>>
  BY DEF Choose
<1>3. PICK x \in Writings : x = writer[w] /\ Fitting(w, x) /\ x.at = "publish"
  BY <1>2, LibraryTypes DEF LibraryInv, WritersFit
<1>4. PICK r \in Writings :
          /\ r = [x EXCEPT !.version = n, !.chosen = TRUE, !.at = step] /\ r.at = step
          /\ r.id = x.id /\ r.started = x.started /\ r.claims = x.claims /\ r.shows = x.shows
          /\ r.complete = x.complete /\ r.links = x.links /\ r.version = n
  <2> DEFINE R == [x EXCEPT !.version = n, !.chosen = TRUE, !.at = step]
  <2>1. /\ R \in Writings /\ R.at = step /\ R.id = x.id /\ R.started = x.started
        /\ R.claims = x.claims /\ R.shows = x.shows /\ R.complete = x.complete
        /\ R.links = x.links /\ R.version = n
    BY DEF Writings, Phases
  <2> QED
    BY <2>1
<1>5. writer' = [writer EXCEPT ![w] = r]
  BY <1>1, <1>3, <1>4, LibraryTypes DEF LibraryInv
<1>6. /\ step = "compare" => Drawn(r) \in bundles
      /\ step = "freeze" <=> frozen[r.id].seal # "sealed"
  <2>1. Drawn(r) = [Drawn(x) EXCEPT !.version = n]
    <3>1. x.id \in RunIds /\ x.started \in 1..MaxBegun /\ release.page \in 1..MaxRelease
      BY <1>3, LibraryTypes DEF Fitting, LibraryInv
    <3>2. Drawn(r) \in Bundles /\ Drawn(x) \in Bundles
      BY <1>4, <3>1 DEF Drawn, Bundles, Writings
    <3>3. /\ Drawn(r).id = Drawn(x).id /\ Drawn(r).started = Drawn(x).started
          /\ Drawn(r).page = Drawn(x).page /\ Drawn(r).claims = Drawn(x).claims
          /\ Drawn(r).shows = Drawn(x).shows /\ Drawn(r).complete = Drawn(x).complete
          /\ Drawn(r).links = Drawn(x).links /\ Drawn(r).sealed = Drawn(x).sealed
          /\ Drawn(r).version = n
      BY <1>4 DEF Drawn
    <3> QED
      BY <3>2, <3>3 DEF Bundles
  <2> QED
    BY <1>1, <1>3, <1>4, <2>1, DrawnIs DEF Opens
<1>7. Fitting(w, r)
  <2>1. /\ r.id \in RunIds /\ r.started \in 1..MaxBegun /\ r.claims.run = r.id[1]
        /\ r.claims.fusion <= release.fusion
        /\ w = "acquire" => frozen[r.id].seal = "sealed"
        /\ frozen[r.id].seal # "sealed" =>
              IF r.id[2] = 0 THEN flat.run = r.id[1] ELSE Fits(r.id, r.shows)
    BY <1>3, <1>4 DEF Fitting, Holding
  <2>2. w = "acquire" => r.links
    <3>1. r.links = x.links
      BY <1>4 DEF Writings
    <3> QED
      BY <1>3, <3>1 DEF Fitting
  <2> QED
    BY <1>4, <1>6, <2>1, <2>2 DEF Fitting, Holding
<1>8. Fitting(w, r)'
  BY <1>2, <1>7, UnchangedFits
<1>9. /\ w = "acquire" \/ Locked(w)
      /\ Started(r.started, r.id[1])
  BY <1>2, <1>3, <1>4, UnderWay DEF Locked
<1>10. /\ flat' \in Evidence /\ begun' \in 0..MaxBegun /\ begun <= begun'
       /\ analyses' \in [Analyses -> Demands] /\ r.at # "seal"
  BY <1>2, <1>4, SameRestIs
<1> QED
  BY <1>2, <1>5, <1>8, <1>9, <1>10, OneMoves

\* A writer under way goes on, and writes nothing.
LEMMA GoesKeeps ==
    ASSUME LibraryInv, NEW w \in Writers, writer[w].at \notin {"idle", "queued"},
           NEW step \in Phases \ {"seal"}, Goes(w, step),
           UNCHANGED <<release, flat, frozen, bundles, pointer, analyses, begun>>,
           \A r \in Writings :
              /\ r.at = step /\ r.id = writer[w].id /\ r.started = writer[w].started
              /\ r.claims = writer[w].claims /\ r.links = writer[w].links
              /\ r.complete = writer[w].complete /\ Drawn(r) = Drawn(writer[w])
              => Fitting(w, r)
    PROVE  LibraryInv'
<1>1. PICK r \in Writings :
          /\ r = [writer[w] EXCEPT !.at = step] /\ r.at = step
          /\ r.id = writer[w].id /\ r.started = writer[w].started
          /\ r.claims = writer[w].claims /\ r.links = writer[w].links
          /\ r.complete = writer[w].complete /\ Drawn(r) = Drawn(writer[w])
  BY StepIs DEF LibraryInv
<1>2. writer' = [writer EXCEPT ![w] = r]
  BY <1>1, LibraryTypes DEF Goes, LibraryInv
<1>3. Fitting(w, r)'
  BY <1>1, UnchangedFits
<1>4. /\ w = "acquire" \/ Locked(w)
      /\ Started(r.started, r.id[1])
  BY <1>1, UnderWay DEF Locked
<1>5. /\ flat' \in Evidence /\ begun' \in 0..MaxBegun /\ begun <= begun'
      /\ analyses' \in [Analyses -> Demands] /\ r.at # "seal"
  BY <1>1, SameRestIs
<1> QED
  BY <1>2, <1>3, <1>4, <1>5, OneMoves

LEMMA ConcludesKeeps ==
    ASSUME LibraryInv, NEW w \in Writers, writer[w].at \in {"compare", "point"}, Concludes(w),
           UNCHANGED <<release, flat, frozen, bundles, pointer, analyses, begun>>
    PROVE  LibraryInv'
<1>1. CASE w \in Analyses
  <2>1. Fitting(w, writer[w]) /\ w # "acquire"
    BY <1>1, AnalysesWrite DEF LibraryInv, WritersFit
  <2>2. "settle" \in Phases \ {"seal"} /\ Goes(w, "settle") /\ writer[w].at \notin {"idle", "queued"}
    BY <1>1 DEF Concludes, Phases
  <2>3. \A r \in Writings :
            /\ r.at = "settle" /\ r.id = writer[w].id /\ r.started = writer[w].started
            /\ r.claims = writer[w].claims /\ r.links = writer[w].links
            /\ r.complete = writer[w].complete /\ Drawn(r) = Drawn(writer[w])
            => Fitting(w, r)
    BY <1>1, <2>1 DEF Fitting, Holding
  <2> QED
    BY <2>2, <2>3, GoesKeeps
<1>2. CASE w \notin Analyses
  BY <1>2, RestKeeps, LibraryTypes DEF Concludes, LibraryInv
<1> QED
  BY <1>1, <1>2

\* Nothing that is pointed at is newer than what is compared with it.
LEMMA CompareKeeps == ASSUME LibraryInv, NEW w \in Writers, Compare(w) PROVE LibraryInv'
<1>1. /\ writer[w].at = "compare"
      /\ UNCHANGED <<release, flat, frozen, bundles, pointer, analyses, begun>>
  BY DEF Compare
<1>2. CASE Concludes(w)
  BY <1>1, <1>2, ConcludesKeeps
<1>3. CASE /\ writer[w].complete /\ \A c \in ResultDir : c.complete => NotBefore(writer[w], c)
           /\ Goes(w, "point")
  <2>1. Fitting(w, writer[w])
    BY DEF LibraryInv, WritersFit
  <2>2. \A b \in bundles : Named(b) = pointer => NotBefore(writer[w], b)
    <3> SUFFICES ASSUME NEW b \in bundles, Named(b) = pointer PROVE NotBefore(writer[w], b)
      OBVIOUS
    <3>1. pointer # NoPointer
      BY DEF Named, NoPointer
    <3> QED
      BY <1>3, <3>1, PointedIsShown
  <2>3. \A r \in Writings :
            /\ r.at = "point" /\ r.id = writer[w].id /\ r.started = writer[w].started
            /\ r.claims = writer[w].claims /\ r.links = writer[w].links
            /\ r.complete = writer[w].complete /\ Drawn(r) = Drawn(writer[w])
            => Fitting(w, r)
    <3> SUFFICES ASSUME NEW r \in Writings, r.at = "point", r.id = writer[w].id,
                        r.started = writer[w].started, r.claims = writer[w].claims,
                        r.links = writer[w].links, r.complete = writer[w].complete,
                        Drawn(r) = Drawn(writer[w])
                 PROVE  Fitting(w, r)
      OBVIOUS
    <3>1. \A b \in bundles : Named(b) = pointer => NotBefore(r, b)
      BY <2>2, NamesOf
    <3> QED
      BY <1>1, <1>3, <2>1, <3>1 DEF Fitting, Holding
  <2>4. "point" \in Phases \ {"seal"} /\ writer[w].at \notin {"idle", "queued"}
    BY <1>1 DEF Phases
  <2> QED
    BY <1>1, <1>3, <2>3, <2>4, GoesKeeps
<1> QED
  BY <1>2, <1>3 DEF Compare

-----------------------------------------------------------------------------
(* Writing. *)

LEMMA StillTold ==
    ASSUME LibraryInv, NEW w \in Writers, writer[w].at \notin {"idle", "queued"},
           NEW r \in Writings, writer' = [writer EXCEPT ![w] = r],
           r.at = "idle" \/ (r.id = writer[w].id /\ r.started = writer[w].started),
           \A b \in bundles' :
              b \in bundles \/ (b.id = writer[w].id /\ b.started = writer[w].started),
           UNCHANGED begun
    PROVE  OneHoldsTheLock' /\ StartsAreTold'
<1>1. /\ writer'[w] = r
      /\ \A v \in Writers : v # w => writer'[v] = writer[v]
  BY LibraryTypes DEF LibraryInv
<1>2. OneHoldsTheLock'
  <2>1. \A v \in Writers : Locked(v)' => Locked(v)
    BY <1>1 DEF Locked
  <2> QED
    BY <2>1 DEF LibraryInv, OneHoldsTheLock
<1>3. ASSUME NEW s \in 1..MaxBegun, NEW a \in Analyses, Started(s, a)' PROVE Started(s, a)
  <2>1. CASE \E b \in bundles' : b.started = s /\ b.id[1] = a
    BY <2>1 DEF Started
  <2>2. CASE \E v \in Writers : writer'[v].at # "idle" /\ writer'[v].started = s /\ writer'[v].id[1] = a
    <3>1. PICK v \in Writers : writer'[v].at # "idle" /\ writer'[v].started = s /\ writer'[v].id[1] = a
      BY <2>2
    <3>2. CASE v = w
      BY <1>1, <3>1, <3>2 DEF Started
    <3>3. CASE v # w
      BY <1>1, <3>1, <3>3 DEF Started
    <3> QED
      BY <3>2, <3>3
  <2> QED
    BY <1>3, <2>1, <2>2 DEF Started
<1> QED
  BY <1>2, <1>3 DEF LibraryInv, StartsAreTold

\* An unsealed run is written by the one who holds the lock.
LEMMA RunsKeep ==
    ASSUME LibraryInv, NEW w \in Writers, writer[w].at \in {"freeze", "seal_run"},
           NEW r \in Writings, writer' = [writer EXCEPT ![w] = r], r.id = writer[w].id,
           r.started = writer[w].started, r.at \notin {"idle", "queued", "seal"},
           NEW f \in Runs, frozen' = [frozen EXCEPT ![r.id] = f], f.seal # "none",
           Fits(r.id, f.holds), Fitting(w, r)',
           UNCHANGED <<release, flat, bundles, pointer, analyses, begun>>
    PROVE  LibraryInv'
<1>1. /\ writer \in [Writers -> Writings] /\ writer'[w] = r
      /\ \A v \in Writers : v # w => writer'[v] = writer[v]
      /\ writer' \in [Writers -> Writings]
      /\ frozen \in [RunIds -> Runs] /\ frozen' \in [RunIds -> Runs]
  BY LibraryTypes DEF LibraryInv
<1>2. /\ Fitting(w, writer[w]) /\ w # "acquire" /\ Locked(w) /\ r.id \in RunIds
      /\ frozen[r.id].seal # "sealed"
  <2>1. Fitting(w, writer[w])
    BY DEF LibraryInv, WritersFit
  <2> QED
    BY <2>1 DEF Fitting, Locked, Holding
<1>3. /\ frozen'[r.id] = f
      /\ \A id \in RunIds : id # r.id => frozen'[id] = frozen[id]
  BY <1>1, <1>2
<1>4. LibraryTypeOK'
  BY <1>1 DEF LibraryInv, LibraryTypeOK, Writings, Runs
<1>5. OneHoldsTheLock' /\ StartsAreTold'
  BY <1>2, StillTold DEF Locked
<1>6. BundlesFit'
  BY DEF LibraryInv, BundlesFit, Named
<1>7. FrozenFit'
  BY <1>3 DEF LibraryInv, FrozenFit, Fits
<1>8. WritersFit'
  <2> SUFFICES ASSUME NEW v \in Writers, v # w PROVE Fitting(v, writer[v])'
    BY <1>1 DEF WritersFit
  <2>1. PICK x \in Writings : x = writer[v] /\ x = writer'[v] /\ Fitting(v, x)
    BY <1>1 DEF LibraryInv, WritersFit
  <2>2. v = "acquire" \/ x.at \in {"idle", "queued"}
    BY <1>2, <2>1 DEF LibraryInv, OneHoldsTheLock, Locked
  <2>3. v = "acquire" /\ x.at # "idle" => x.id \in RunIds /\ x.id # r.id /\ frozen'[x.id] = frozen[x.id]
    BY <1>2, <1>3, <2>1 DEF Fitting
  <2>4. Fitting(v, x)'
    <3>1. CASE v = "acquire" /\ x.at # "idle"
      BY <2>1, <2>3, <3>1 DEF Fitting, Fits, Drawn, Begun, Named, NotBefore
    <3>2. CASE x.at \in {"idle", "queued"} /\ ~(v = "acquire" /\ x.at # "idle")
      BY <2>1, <3>2 DEF Fitting, Holding
    <3> QED
      BY <2>2, <3>1, <3>2
  <2> QED
    BY <2>1, <2>4
<1>9. PointerOpens'
  <2> SUFFICES ASSUME pointer # NoPointer PROVE PointerOpens'
    BY DEF PointerOpens
  <2>1. PICK b \in bundles : Named(b) = pointer /\ b.sealed /\ b.complete /\ Opens(b)
    BY DEF LibraryInv, PointerOpens
  <2>2. b.id \in RunIds /\ b.id # r.id
    BY <1>2, <2>1, ResultsAre DEF Opens
  <2>3. Named(b)' = pointer' /\ Opens(b)'
    BY <1>3, <2>1, <2>2 DEF Named, Opens
  <2> QED
    BY <2>1, <2>3 DEF PointerOpens
<1>10. SealsApart'
  BY <1>1 DEF LibraryInv, SealsApart
<1> QED
  BY <1>4, <1>5, <1>6, <1>7, <1>8, <1>9, <1>10 DEF LibraryInv

LEMMA FreezeKeeps == ASSUME LibraryInv, NEW w \in Writers, Freeze(w) PROVE LibraryInv'
<1>1. /\ writer[w].at = "freeze" /\ Goes(w, "seal_run") /\ Fitting(w, writer[w])
      /\ UNCHANGED <<release, flat, bundles, pointer, analyses, begun>>
  BY DEF Freeze, LibraryInv, WritersFit
<1>2. PICK r \in Writings :
          /\ r = [writer[w] EXCEPT !.at = "seal_run"] /\ r.at = "seal_run"
          /\ r.id = writer[w].id /\ r.started = writer[w].started
          /\ r.claims = writer[w].claims /\ r.shows = writer[w].shows
  BY StepIs DEF LibraryInv, Phases
<1>3. writer' = [writer EXCEPT ![w] = r]
  BY <1>1, <1>2, LibraryTypes DEF Goes, LibraryInv
<1>4. PICK h \in Evidence : h = IF writer[w].id[2] = 0 THEN flat ELSE writer[w].shows
  <2>1. flat \in Evidence /\ writer[w].shows \in Evidence
    BY LibraryTypes DEF LibraryInv, LibraryTypeOK, Writings
  <2> QED
    BY <2>1
<1>5. PICK f \in Runs : f = [seal |-> "open", holds |-> h] /\ f.seal = "open" /\ f.holds = h
  <2>1. [seal |-> "open", holds |-> h] \in Runs
    BY DEF Runs
  <2> QED
    BY <2>1
<1>6. frozen' = [frozen EXCEPT ![r.id] = f]
  BY <1>2, <1>4, <1>5, Zenon DEF Freeze
<1>7. r.id \in RunIds /\ w # "acquire" /\ Fits(r.id, h)
  BY <1>1, <1>2, <1>4 DEF Fitting, Fits
<1>8. frozen'[r.id] = f
  BY <1>6, <1>7, LibraryTypes DEF LibraryInv
<1>9. Fitting(w, r)'
  <2>1. /\ r.started \in 1..MaxBegun /\ r.claims.run = r.id[1] /\ r.claims.fusion <= release'.fusion
    BY <1>1, <1>2 DEF Fitting, Holding
  <2> QED
    BY <1>2, <1>5, <1>7, <1>8, <2>1 DEF Fitting, Holding
<1> QED
  BY <1>1, <1>2, <1>3, <1>5, <1>6, <1>7, <1>9, RunsKeep

LEMMA SealRunKeeps == ASSUME LibraryInv, NEW w \in Writers, SealRun(w) PROVE LibraryInv'
<1>1. /\ writer[w].at = "seal_run" /\ Fitting(w, writer[w])
      /\ UNCHANGED <<release, flat, bundles, pointer, analyses, begun>>
  BY DEF SealRun, LibraryInv, WritersFit
<1>2. PICK step \in Phases : step = (IF writer[w].chosen THEN "make" ELSE "publish")
                             /\ step \in {"make", "publish"}
  BY DEF Phases
<1>3. PICK r \in Writings :
          /\ r = [writer[w] EXCEPT !.at = step] /\ r.at = step
          /\ r.id = writer[w].id /\ r.started = writer[w].started
          /\ r.claims = writer[w].claims /\ r.shows = writer[w].shows
  BY StepIs DEF LibraryInv
<1>4. writer' = [writer EXCEPT ![w] = r]
  <2>1. Goes(w, step)
    BY <1>2, Zenon DEF SealRun
  <2> QED
    BY <1>3, <2>1, LibraryTypes DEF Goes, LibraryInv
<1>5. r.id \in RunIds /\ w # "acquire" /\ frozen[r.id].seal = "open"
  BY <1>1, <1>3 DEF Fitting, Holding
<1>6. PICK x \in Runs : x = frozen[r.id]
  BY <1>5, LibraryTypes DEF LibraryInv
<1>7. PICK f \in Runs : f = [x EXCEPT !.seal = "sealed"] /\ f.seal = "sealed" /\ f.holds = x.holds
  <2>1. /\ [x EXCEPT !.seal = "sealed"] \in Runs /\ [x EXCEPT !.seal = "sealed"].seal = "sealed"
        /\ [x EXCEPT !.seal = "sealed"].holds = x.holds
    BY DEF Runs
  <2> QED
    BY <2>1
<1>8. frozen' = [frozen EXCEPT ![r.id] = f]
  BY <1>3, <1>5, <1>6, <1>7, LibraryTypes DEF SealRun, LibraryInv
<1>9. Fits(r.id, f.holds) /\ frozen'[r.id] = f
  BY <1>5, <1>6, <1>7, <1>8, LibraryTypes DEF LibraryInv, FrozenFit
<1>10. Fitting(w, r)'
  <2>1. /\ r.started \in 1..MaxBegun /\ r.claims.run = r.id[1] /\ r.claims.fusion <= release'.fusion
    BY <1>1, <1>3 DEF Fitting, Holding
  <2> QED
    BY <1>2, <1>3, <1>5, <1>7, <1>9, <2>1 DEF Fitting, Holding
<1> QED
  BY <1>1, <1>2, <1>3, <1>4, <1>5, <1>7, <1>8, <1>9, <1>10, RunsKeep

LEMMA BegunIs ==
    \A r : /\ Begun(r).id = r.id /\ Begun(r).started = r.started /\ Begun(r).links = r.links
           /\ Begun(r).claims = r.claims /\ ~Begun(r).sealed /\ Named(Begun(r)) = Named(r)
BY DEF Begun, Drawn, Named

LEMMA DrawnFits ==
    ASSUME LibraryInv, NEW w \in Writers, writer[w].at \in Holding
    PROVE  /\ Drawn(writer[w]) \in Bundles /\ Begun(writer[w]) \in Bundles
           /\ writer[w].claims.run = writer[w].id[1] /\ writer[w].claims.fusion <= release.fusion
           /\ Rendered(w) = Drawn(writer[w])
           /\ [Rendered(w) EXCEPT !.sealed = FALSE] = Begun(writer[w])
<1>1. PICK x \in Writings : x = writer[w] /\ Fitting(w, x) /\ x.at \in Holding
  BY LibraryTypes DEF LibraryInv, WritersFit
<1>2. /\ x.id \in RunIds /\ x.started \in 1..MaxBegun /\ release.page \in 1..MaxRelease
      /\ x.claims.run = x.id[1] /\ x.claims.fusion <= release.fusion
  BY <1>1, LibraryTypes DEF Fitting, Holding, LibraryInv
<1>3. Drawn(x) \in Bundles
  BY <1>2 DEF Drawn, Bundles, Writings
<1>4. Begun(x) \in Bundles
  BY <1>3 DEF Begun, Bundles
<1> QED
  BY <1>1, <1>2, <1>3, <1>4, DrawnIs DEF Begun

\* The writer of a bundle touches no sealed one, and none that another is writing.
LEMMA BundlesKeep ==
    ASSUME LibraryInv, NEW w \in Writers, writer[w].at \in {"make", "seal"},
           NEW r \in Writings, writer' = [writer EXCEPT ![w] = r], r.id = writer[w].id,
           r.started = writer[w].started, r.at \in {"seal", "compare"},
           NEW d \in Bundles, d.id = writer[w].id, d.started = writer[w].started,
           d.links = writer[w].links, d.claims = writer[w].claims,
           \A b \in bundles' : b \in bundles \/ b = d,
           \A b \in bundles : b.sealed => b \in bundles',
           IsFiniteSet(bundles'),
           \A b, c \in bundles' : Named(b) = Named(c) => b = c,
           \A v \in Writers : v # w /\ writer[v].at = "seal" =>
              /\ Begun(writer[v]) \in bundles'
              /\ r.at = "seal" => Named(writer[v]) # Named(r),
           Fitting(w, r)',
           UNCHANGED <<release, flat, frozen, pointer, analyses, begun>>
    PROVE  LibraryInv'
<1>1. /\ writer \in [Writers -> Writings] /\ writer'[w] = r
      /\ \A v \in Writers : v # w => writer'[v] = writer[v]
      /\ writer' \in [Writers -> Writings] /\ bundles \subseteq Bundles
  BY LibraryTypes DEF LibraryInv
<1>2. /\ w = "acquire" => d.links
      /\ d.claims.run = d.id[1] /\ d.claims.fusion <= release.fusion
  <2>1. Fitting(w, writer[w])
    BY DEF LibraryInv, WritersFit
  <2>2. w = "acquire" => writer[w].links
    BY <2>1 DEF Fitting
  <2>3. writer[w].claims.run = writer[w].id[1] /\ writer[w].claims.fusion <= release.fusion
    BY DrawnFits DEF Holding
  <2> QED
    BY <2>2, <2>3
<1>3. LibraryTypeOK'
  <2>1. \A b \in bundles' : b \in Bundles
    BY <1>1
  <2> QED
    BY <1>1, <2>1 DEF LibraryInv, LibraryTypeOK, Writings, Bundles
<1>4. OneHoldsTheLock' /\ StartsAreTold'
  <2>1. \A b \in bundles' :
            b \in bundles \/ (b.id = writer[w].id /\ b.started = writer[w].started)
    OBVIOUS
  <2> QED
    BY <2>1, StillTold
<1>5. BundlesFit'
  <2>1. \A b \in bundles' : b.claims.run = b.id[1] /\ b.claims.fusion <= release'.fusion
    BY <1>2 DEF LibraryInv, BundlesFit
  <2>2. \A b, c \in bundles' : Named(b)' = Named(c)' => b = c
    BY DEF Named
  <2> QED
    BY <2>1, <2>2 DEF LibraryInv, BundlesFit
<1>6. FrozenFit'
  BY DEF LibraryInv, FrozenFit
<1>7. WritersFit'
  <2> SUFFICES ASSUME NEW v \in Writers, v # w PROVE Fitting(v, writer[v])'
    BY <1>1 DEF WritersFit
  <2>1. PICK x \in Writings : x = writer[v] /\ x = writer'[v] /\ Fitting(v, x)
    BY <1>1 DEF LibraryInv, WritersFit
  <2>2. x.at \in {"compare", "point"} => Drawn(x) \in bundles'
    BY <2>1, NamesOf DEF Fitting
  <2>3. x.at = "seal" => Begun(x) \in bundles'
    BY <2>1
  <2>4. x.at = "point" /\ v # "acquire" /\ ~x.links =>
            \A b \in bundles' : Named(b) = pointer /\ ~b.links => NotBefore(x, b)
    <3> SUFFICES ASSUME x.at = "point", v # "acquire", ~x.links,
                        NEW b \in bundles', Named(b) = pointer, ~b.links
                 PROVE  NotBefore(x, b)
      OBVIOUS
    <3>1. w = "acquire"
      BY <2>1 DEF LibraryInv, OneHoldsTheLock, Locked
    <3>2. b \in bundles
      BY <1>2, <3>1
    <3> QED
      BY <2>1, <3>2 DEF Fitting
  <2>5. Fitting(v, x)'
    BY <2>1, <2>2, <2>3, <2>4 DEF Fitting, Fits, Drawn, Begun, Named, NotBefore
  <2> QED
    BY <2>1, <2>5
<1>8. PointerOpens'
  <2> SUFFICES ASSUME pointer # NoPointer PROVE PointerOpens'
    BY DEF PointerOpens
  <2>1. PICK b \in bundles : Named(b) = pointer /\ b.sealed /\ b.complete /\ Opens(b)
    BY DEF LibraryInv, PointerOpens
  <2>2. b \in bundles' /\ Named(b)' = pointer' /\ Opens(b)'
    BY <2>1 DEF Named, Opens
  <2> QED
    BY <2>1, <2>2 DEF PointerOpens
<1>9. SealsApart'
  <2>1. \A v, u \in Writers :
            v # u /\ writer'[v].at = "seal" /\ writer'[u].at = "seal" => Named(writer'[v]) # Named(writer'[u])
    <3> SUFFICES ASSUME NEW v \in Writers, NEW u \in Writers, v # u,
                        writer'[v].at = "seal", writer'[u].at = "seal"
                 PROVE  Named(writer'[v]) # Named(writer'[u])
      OBVIOUS
    <3>1. CASE v = w
      BY <1>1, <3>1
    <3>2. CASE u = w
      BY <1>1, <3>2
    <3>3. CASE v # w /\ u # w
      BY <1>1, <3>3 DEF LibraryInv, SealsApart
    <3> QED
      BY <3>1, <3>2, <3>3
  <2> QED
    BY <2>1 DEF SealsApart, Named
<1> QED
  BY <1>3, <1>4, <1>5, <1>6, <1>7, <1>8, <1>9 DEF LibraryInv

LEMMA MakeBundleKeeps == ASSUME LibraryInv, NEW w \in Writers, MakeBundle(w) PROVE LibraryInv'
<1>1. /\ writer[w].at = "make" /\ Fitting(w, writer[w])
      /\ UNCHANGED <<release, flat, frozen, pointer, analyses, begun>>
  BY DEF MakeBundle, LibraryInv, WritersFit
<1>2. CASE \E b \in bundles : Named(b) = Named(writer[w])
  <2>1. Rests(w) /\ UNCHANGED bundles /\ analyses' \in [Analyses -> Demands]
    BY <1>1, <1>2, LibraryTypes DEF MakeBundle, LibraryInv
  <2> QED
    BY <1>1, <2>1, RestKeeps
<1>3. CASE ~\E b \in bundles : Named(b) = Named(writer[w])
  <2>1. PICK d \in Bundles :
            /\ d = Begun(writer[w]) /\ d.id = writer[w].id /\ d.started = writer[w].started
            /\ d.links = writer[w].links /\ d.claims = writer[w].claims /\ ~d.sealed
            /\ Named(d) = Named(writer[w])
    BY <1>1, DrawnFits, BegunIs DEF Holding
  <2>2. bundles' = bundles \cup {d} /\ Goes(w, "seal")
    BY <1>1, <1>3, <2>1, DrawnFits DEF MakeBundle, Holding
  <2>3. PICK r \in Writings :
            /\ r = [writer[w] EXCEPT !.at = "seal"] /\ r.at = "seal"
            /\ r.id = writer[w].id /\ r.started = writer[w].started
            /\ r.claims = writer[w].claims /\ r.links = writer[w].links
            /\ Drawn(r) = Drawn(writer[w]) /\ Named(r) = Named(writer[w])
    BY StepIs DEF LibraryInv, Phases
  <2>4. writer' = [writer EXCEPT ![w] = r]
    BY <2>2, <2>3, LibraryTypes DEF Goes, LibraryInv
  <2>5. IsFiniteSet(bundles')
    BY <2>2, FS_AddElement DEF LibraryInv, BundlesFit
  <2>6. \A b, c \in bundles' : Named(b) = Named(c) => b = c
    BY <1>3, <2>1, <2>2 DEF LibraryInv, BundlesFit
  <2>7. \A v \in Writers : v # w /\ writer[v].at = "seal" =>
            Begun(writer[v]) \in bundles' /\ Named(writer[v]) # Named(r)
    <3> SUFFICES ASSUME NEW v \in Writers, v # w, writer[v].at = "seal"
                 PROVE  Begun(writer[v]) \in bundles' /\ Named(writer[v]) # Named(r)
      OBVIOUS
    <3>1. Begun(writer[v]) \in bundles
      BY DEF LibraryInv, WritersFit, Fitting
    <3> QED
      BY <1>3, <2>2, <2>3, <3>1, BegunIs
  <2>8. Fitting(w, r)'
    <3>1. Begun(r) = d
      BY <2>1, <2>3 DEF Begun
    <3>2. Begun(r)' \in bundles'
      BY <1>1, <2>2, <3>1 DEF Begun, Drawn
    <3>3. /\ r.id \in RunIds /\ r.started \in 1..MaxBegun /\ r.claims.run = r.id[1]
          /\ r.claims.fusion <= release.fusion /\ frozen[r.id].seal = "sealed"
          /\ w = "acquire" => r.links
      BY <1>1, <2>3 DEF Fitting, Holding
    <3> QED
      BY <1>1, <2>3, <3>2, <3>3 DEF Fitting, Holding
  <2>9. /\ \A b \in bundles' : b \in bundles \/ b = d
        /\ \A b \in bundles : b.sealed => b \in bundles'
    BY <2>2
  <2> QED
    BY <1>1, <2>1, <2>3, <2>4, <2>5, <2>6, <2>7, <2>8, <2>9, BundlesKeep
<1> QED
  BY <1>2, <1>3

LEMMA SealBundleKeeps == ASSUME LibraryInv, NEW w \in Writers, SealBundle(w) PROVE LibraryInv'
<1>1. /\ writer[w].at = "seal" /\ Fitting(w, writer[w]) /\ Goes(w, "compare")
      /\ UNCHANGED <<release, flat, frozen, pointer, analyses, begun>>
  BY DEF SealBundle, LibraryInv, WritersFit
<1>2. PICK d \in Bundles :
          /\ d = Drawn(writer[w]) /\ d.id = writer[w].id /\ d.started = writer[w].started
          /\ d.links = writer[w].links /\ d.claims = writer[w].claims
          /\ Named(d) = Named(writer[w])
  <2>1. Drawn(writer[w]) \in Bundles /\ Drawn(writer[w]).claims = writer[w].claims
    BY <1>1, DrawnFits DEF Holding, Drawn
  <2> QED
    BY <2>1, NamesOf
<1>3. PICK e \in bundles : e = Begun(writer[w]) /\ ~e.sealed /\ Named(e) = Named(writer[w])
  BY <1>1, BegunIs DEF Fitting
<1>4. bundles' = (bundles \ {e}) \cup {d}
  BY <1>1, <1>2, <1>3, DrawnFits DEF SealBundle, Holding
<1>5. PICK r \in Writings :
          /\ r = [writer[w] EXCEPT !.at = "compare"] /\ r.at = "compare"
          /\ r.id = writer[w].id /\ r.started = writer[w].started
          /\ r.claims = writer[w].claims /\ r.links = writer[w].links
          /\ Drawn(r) = Drawn(writer[w])
  BY StepIs DEF LibraryInv, Phases
<1>6. writer' = [writer EXCEPT ![w] = r]
  BY <1>1, <1>5, LibraryTypes DEF Goes, LibraryInv
<1>7. IsFiniteSet(bundles')
  <2>1. IsFiniteSet(bundles \ {e})
    BY FS_Subset DEF LibraryInv, BundlesFit
  <2> QED
    BY <1>4, <2>1, FS_AddElement
<1>8. \A b, c \in bundles' : Named(b) = Named(c) => b = c
  BY <1>2, <1>3, <1>4 DEF LibraryInv, BundlesFit
<1>9. \A v \in Writers : v # w /\ writer[v].at = "seal" => Begun(writer[v]) \in bundles'
  <2> SUFFICES ASSUME NEW v \in Writers, v # w, writer[v].at = "seal"
               PROVE  Begun(writer[v]) \in bundles'
    OBVIOUS
  <2>1. Begun(writer[v]) \in bundles
    BY DEF LibraryInv, WritersFit, Fitting
  <2>2. Named(writer[v]) # Named(writer[w])
    BY <1>1 DEF LibraryInv, SealsApart
  <2>3. Begun(writer[v]) # e
    BY <1>3, <2>2, BegunIs
  <2> QED
    BY <1>4, <2>1, <2>3
<1>10. Fitting(w, r)'
  <2>1. Drawn(r)' \in bundles'
    BY <1>1, <1>2, <1>4, <1>5 DEF Drawn
  <2>2. /\ r.id \in RunIds /\ r.started \in 1..MaxBegun /\ r.claims.run = r.id[1]
        /\ r.claims.fusion <= release.fusion /\ frozen[r.id].seal = "sealed"
        /\ w = "acquire" => r.links
    BY <1>1, <1>5 DEF Fitting, Holding
  <2> QED
    BY <1>1, <1>5, <2>1, <2>2 DEF Fitting, Holding
<1>11. \A b \in bundles : b.sealed => b \in bundles'
  BY <1>3, <1>4
<1>12. \A b \in bundles' : b \in bundles \/ b = d
  BY <1>4
<1> QED
  BY <1>1, <1>2, <1>5, <1>6, <1>7, <1>8, <1>9, <1>10, <1>11, <1>12, BundlesKeep

\* What is pointed at is sealed, complete and opens; whoever else is about to point has links.
LEMMA PointKeeps == ASSUME LibraryInv, NEW w \in Writers, Point(w) PROVE LibraryInv'
<1>1. /\ writer[w].at = "point" /\ Fitting(w, writer[w]) /\ Concludes(w)
      /\ pointer' = Named(writer[w])
      /\ UNCHANGED <<release, flat, frozen, bundles, analyses, begun>>
  BY DEF Point, LibraryInv, WritersFit
<1>2. PICK d \in bundles :
          /\ d = Drawn(writer[w]) /\ d.id = writer[w].id /\ d.sealed /\ d.complete
          /\ d.links = writer[w].links /\ Named(d) = Named(writer[w])
  BY <1>1, NamesOf DEF Fitting
<1>3. /\ w = "acquire" => d.links
      /\ frozen[d.id].seal = "sealed" /\ writer[w].id \in RunIds /\ writer[w].version \in Nat
  BY <1>1, <1>2, LibraryTypes DEF Fitting, LibraryInv, Writings
<1>4. PICK r \in Writings :
          /\ writer' = [writer EXCEPT ![w] = r]
          /\ r.at = "idle" \/ (r.id = writer[w].id /\ r.started = writer[w].started)
          /\ r.at \in {"idle", "settle"} /\ Fitting(w, r)
  <2>1. CASE w \in Analyses
    <3>1. PICK r \in Writings :
              /\ r = [writer[w] EXCEPT !.at = "settle"] /\ r.at = "settle"
              /\ r.id = writer[w].id /\ r.started = writer[w].started
              /\ r.claims = writer[w].claims
      BY StepIs DEF LibraryInv, Phases
    <3>2. writer' = [writer EXCEPT ![w] = r]
      BY <1>1, <2>1, <3>1, LibraryTypes DEF Concludes, Goes, LibraryInv
    <3>3. w # "acquire"
      BY <2>1, AnalysesWrite
    <3>4. Fitting(w, r)
      BY <1>1, <2>1, <3>1, <3>3 DEF Fitting, Holding
    <3> QED
      BY <3>1, <3>2, <3>4
  <2>2. CASE w \notin Analyses
    <3>1. writer' = [writer EXCEPT ![w] = Resting]
      BY <1>1, <2>2 DEF Concludes, Rests
    <3>2. release.fusion \in Nat
      BY LibraryTypes DEF LibraryInv
    <3> QED
      BY <3>1, <3>2, RestingIs
  <2> QED
    BY <2>1, <2>2
<1>5. /\ writer \in [Writers -> Writings] /\ writer'[w] = r
      /\ \A v \in Writers : v # w => writer'[v] = writer[v]
      /\ writer' \in [Writers -> Writings]
  BY <1>4, LibraryTypes DEF LibraryInv
<1>6. LibraryTypeOK'
  <2>1. pointer' \in RunIds \X Nat
    BY <1>1, <1>3 DEF Named
  <2> QED
    BY <1>1, <1>5, <2>1 DEF LibraryInv, LibraryTypeOK, Writings
<1>7. OneHoldsTheLock' /\ StartsAreTold'
  BY <1>1, <1>4, StillTold
<1>8. BundlesFit' /\ FrozenFit'
  BY <1>1 DEF LibraryInv, BundlesFit, FrozenFit, Named
<1>9. \A b \in bundles : Named(b) = pointer' => b = d
  BY <1>1, <1>2 DEF LibraryInv, BundlesFit
<1>10. WritersFit'
  <2>1. Fitting(w, r)'
    BY <1>1, <1>4 DEF Fitting, Holding
  <2> SUFFICES ASSUME NEW v \in Writers, v # w PROVE Fitting(v, writer[v])'
    BY <1>5, <2>1 DEF WritersFit
  <2>2. PICK x \in Writings : x = writer[v] /\ x = writer'[v] /\ Fitting(v, x)
    BY <1>5 DEF LibraryInv, WritersFit
  <2>3. x.at = "point" /\ v # "acquire" => w = "acquire"
    BY <1>1, <2>2 DEF LibraryInv, OneHoldsTheLock, Locked
  <2>4. x.at = "point" /\ v # "acquire" /\ ~x.links =>
            \A b \in bundles : Named(b) = pointer' /\ ~b.links => NotBefore(x, b)
    BY <1>3, <1>9, <2>3
  <2>5. PICK p : p = pointer'
    OBVIOUS
  <2>6. x.at = "point" /\ v # "acquire" /\ ~x.links =>
            \A b \in bundles : Named(b) = p /\ ~b.links => NotBefore(x, b)
    BY <2>4, <2>5
  <2>7. Fitting(v, x)'
    <3>1. UNCHANGED <<release, flat, frozen, bundles>> /\ pointer' = p
      BY <1>1, <2>5
    <3> QED
      BY <2>2, <2>6, <3>1 DEF Fitting, Fits, Drawn, Begun, Named, NotBefore
  <2> QED
    BY <2>2, <2>7
<1>11. SealsApart'
  BY <1>4, <1>5 DEF LibraryInv, SealsApart
<1>12. PointerOpens'
  BY <1>1, <1>2, <1>3 DEF PointerOpens, Opens, Named
<1> QED
  BY <1>6, <1>7, <1>8, <1>10, <1>11, <1>12 DEF LibraryInv

LEMMA UpgradeKeeps == ASSUME LibraryInv, Upgrade PROVE LibraryInv'
<1>1. /\ \A w \in Writers : writer[w].at = "idle"
      /\ UNCHANGED <<flat, frozen, bundles, pointer, analyses, writer, begun>>
  BY DEF Upgrade
<1>2. PICK page \in 2..MaxRelease, fusion \in 0..MaxRelease :
          /\ release' = [page |-> page, fusion |-> fusion]
          /\ release'.page = page /\ release'.fusion = fusion
          /\ release.fusion <= fusion /\ fusion < page
  <2>1. PICK fusion \in {release.fusion, release.fusion + 1} :
            release' = [page |-> release.page + 1, fusion |-> fusion]
    BY DEF Upgrade
  <2>2. /\ release.page \in 1..MaxRelease /\ release.fusion \in 0..MaxRelease
        /\ release.page < MaxRelease /\ release.fusion < release.page /\ MaxRelease \in Nat
    BY LibraryTypes, LibraryBounded DEF Upgrade, LibraryInv, BundlesFit
  <2>3. /\ release.page + 1 \in 2..MaxRelease /\ fusion \in 0..MaxRelease
        /\ release.fusion <= fusion /\ fusion < release.page + 1
    BY <2>2
  <2> QED
    BY <2>1, <2>3
<1>3. MaxRelease \in Nat /\ release.fusion \in Nat
  BY LibraryTypes, LibraryBounded DEF LibraryInv
<1>4. LibraryTypeOK'
  <2>1. release' \in [page : 1..MaxRelease, fusion : 0..MaxRelease]
    <3>1. page \in 1..MaxRelease
      BY <1>3
    <3> QED
      BY <1>2, <3>1
  <2> QED
    BY <1>1, <2>1 DEF LibraryInv, LibraryTypeOK
<1>5. OneHoldsTheLock'
  BY <1>1 DEF OneHoldsTheLock, Locked
<1>6. StartsAreTold'
  BY <1>1 DEF LibraryInv, StartsAreTold, Started
<1>7. BundlesFit'
  <2>1. \A b \in bundles : b.claims.fusion \in Nat /\ b.claims.fusion <= release.fusion
    BY ResultsAre
  <2>2. \A b \in bundles : b.claims.fusion <= fusion
    BY <1>2, <1>3, <2>1
  <2> QED
    BY <1>1, <1>2, <2>2 DEF LibraryInv, BundlesFit, Named
<1>8. FrozenFit' /\ SealsApart' /\ PointerOpens'
  BY <1>1 DEF LibraryInv, FrozenFit, SealsApart, PointerOpens, Opens, Named
<1>9. WritersFit'
  <2> SUFFICES ASSUME NEW v \in Writers PROVE Fitting(v, writer[v])'
    BY DEF WritersFit
  <2>1. PICK x \in Writings : x = writer[v] /\ x = writer'[v] /\ Fitting(v, x) /\ x.at = "idle"
    BY <1>1, LibraryTypes DEF LibraryInv, WritersFit
  <2>2. x.claims.fusion \in Nat /\ x.claims.fusion <= release.fusion
    <3>1. x.claims \in Evidence
      BY DEF Writings
    <3>2. x.claims.fusion \in Nat
      BY <3>1 DEF Evidence, Nothing
    <3> QED
      BY <2>1, <3>2 DEF Fitting
  <2>3. x.claims.fusion <= release'.fusion
    BY <1>2, <1>3, <2>2
  <2>4. Fitting(v, x)'
    BY <2>1, <2>3 DEF Fitting, Holding
  <2> QED
    BY <2>1, <2>4
<1> QED
  BY <1>4, <1>5, <1>6, <1>7, <1>8, <1>9 DEF LibraryInv

LEMMA LibraryStarts == LibraryInit => LibraryInv
<1> SUFFICES ASSUME LibraryInit PROVE LibraryInv
  OBVIOUS
<1>1. /\ release = [page |-> 1, fusion |-> 0] /\ flat = Nothing /\ bundles = {} /\ begun = 0
      /\ frozen = [id \in RunIds |-> [seal |-> "none", holds |-> Nothing]]
      /\ pointer = NoPointer /\ writer = [w \in Writers |-> Resting]
      /\ analyses \in [Analyses -> [state : {"new"}, deep : BOOLEAN, refresh : BOOLEAN,
                                    swept : {FALSE}, answered : {FALSE}]]
  BY DEF LibraryInit
<1>2. MaxBegun \in Nat /\ MaxRelease \in Nat /\ MaxRelease > 0
  BY LibraryBounded
<1>3. Nothing \in Evidence
  BY DEF Evidence
<1>4. /\ \A w \in Writers : writer[w] = Resting
      /\ writer \in [Writers -> Writings]
  BY <1>1, RestingIs
<1>5. analyses \in [Analyses -> Demands]
  <2>1. [state : {"new"}, deep : BOOLEAN, refresh : BOOLEAN, swept : {FALSE}, answered : {FALSE}]
            \subseteq Demands
    BY DEF Demands
  <2> QED
    BY <1>1, <2>1
<1>6. frozen \in [RunIds -> Runs]
  BY <1>1, <1>3 DEF Runs
<1>7. LibraryTypeOK
  <2>1. release \in [page : 1..MaxRelease, fusion : 0..MaxRelease] /\ begun \in 0..MaxBegun
    BY <1>1, <1>2
  <2> QED
    BY <1>1, <1>3, <1>4, <1>5, <1>6, <2>1 DEF LibraryTypeOK, Writings, Demands, Runs
<1>8. OneHoldsTheLock /\ SealsApart
  BY <1>4, RestingIs DEF OneHoldsTheLock, Locked, SealsApart
<1>9. StartsAreTold
  BY <1>1, <1>4, RestingIs DEF StartsAreTold, Started
<1>10. BundlesFit /\ PointerOpens
  BY <1>1, FS_EmptySet DEF BundlesFit, PointerOpens
<1>11. FrozenFit
  BY <1>1 DEF FrozenFit
<1>12. WritersFit
  <2>1. release.fusion \in Nat
    BY <1>1
  <2> QED
    BY <1>4, <2>1, RestingIs DEF WritersFit
<1> QED
  BY <1>7, <1>8, <1>9, <1>10, <1>11, <1>12 DEF LibraryInv

LEMMA LibraryNextKeeps == ASSUME LibraryInv, [LibraryNext]_libraryVars PROVE LibraryInv'
<1>1. CASE \E a \in Analyses :
              \/ Begin(a) \/ Served(a) \/ RefuseStored(a) \/ Sweep(a) \/ Fuse(a)
              \/ PaidAnswers(a) \/ NoPaidAnswers(a) \/ Journalled(a)
  BY <1>1, BeginKeeps, LeavingKeeps, RefuseStoredKeeps, SweepKeeps, FuseKeeps, PaidAnswersKeeps,
     NoPaidAnswersKeeps
<1>2. CASE Upkeep \/ Acquire \/ Upgrade
  BY <1>2, UpkeepKeeps, AcquireKeeps, UpgradeKeeps
<1>3. CASE \E w \in Writers :
              \/ Choose(w) \/ Freeze(w) \/ SealRun(w) \/ MakeBundle(w) \/ SealBundle(w)
              \/ Compare(w) \/ Point(w) \/ Stops(w)
  BY <1>3, ChooseKeeps, FreezeKeeps, SealRunKeeps, MakeBundleKeeps, SealBundleKeeps, CompareKeeps,
     PointKeeps, StopsKeeps
<1>4. CASE UNCHANGED libraryVars
  <2>1. UNCHANGED <<release, flat, frozen, bundles, pointer, analyses, writer, begun>>
    BY <1>4 DEF libraryVars
  <2> QED
    BY <2>1 DEF LibraryInv, LibraryTypeOK, OneHoldsTheLock, Locked, StartsAreTold, Started,
       BundlesFit, FrozenFit, WritersFit, Fitting, Fits, Drawn, Begun, Named, NotBefore,
       SealsApart, PointerOpens, Opens
<1> QED
  BY <1>1, <1>2, <1>3, <1>4 DEF LibraryNext

\* Whoever points without links points at nothing older than what was pointed at.
LEMMA PointsForward ==
    ASSUME LibraryInv, [LibraryNext]_libraryVars
    PROVE  pointer' # pointer /\ pointer # NoPointer =>
              \A b, c \in bundles :
                 (Named(b) = pointer /\ Named(c) = pointer' /\ ~b.links /\ ~c.links) =>
                    NotBefore(c, b)
<1>1. \A w \in Writers : ~Point(w) => UNCHANGED pointer \/ ~(\/ Choose(w) \/ Freeze(w)
          \/ SealRun(w) \/ MakeBundle(w) \/ SealBundle(w) \/ Compare(w) \/ Stops(w))
  BY DEF Choose, Freeze, SealRun, MakeBundle, SealBundle, Compare, Stops
<1>2. \A a \in Analyses :
          (\/ Begin(a) \/ Served(a) \/ RefuseStored(a) \/ Sweep(a) \/ Fuse(a) \/ PaidAnswers(a)
           \/ NoPaidAnswers(a) \/ Journalled(a)) => UNCHANGED pointer
  BY DEF Begin, Served, RefuseStored, Sweep, Fuse, PaidAnswers, NoPaidAnswers, Journalled
<1>3. Upkeep \/ Acquire \/ Upgrade => UNCHANGED pointer
  BY DEF Upkeep, Acquire, Upgrade
<1>4. pointer' # pointer => \E w \in Writers : Point(w)
  BY <1>1, <1>2, <1>3 DEF LibraryNext, libraryVars
<1> SUFFICES ASSUME NEW w \in Writers, Point(w), NEW b \in bundles, NEW c \in bundles,
                    Named(b) = pointer, Named(c) = pointer', ~b.links, ~c.links
             PROVE  NotBefore(c, b)
  BY <1>4
<1>5. /\ writer[w].at = "point" /\ Fitting(w, writer[w]) /\ pointer' = Named(writer[w])
  BY DEF Point, LibraryInv, WritersFit
<1>6. c = Drawn(writer[w])
  BY <1>5, NamesOf DEF Fitting, LibraryInv, BundlesFit
<1>7. ~writer[w].links /\ w # "acquire"
  BY <1>5, <1>6, NamesOf DEF Fitting
<1>8. NotBefore(writer[w], b)
  BY <1>5, <1>7 DEF Fitting
<1> QED
  BY <1>6, <1>8, NamesOf

\* Whoever holds the lock freezes and renders what is its own, and points at what is there.
THEOREM PublishersFit == LibrarySpec => []LibraryInv
BY LibraryStarts, LibraryNextKeeps, PTL DEF LibrarySpec

\* Whoever dies while publishing, the pointer names a sealed complete result whose run is sealed.
THEOREM PointersOpen == LibrarySpec => []PointerOpens
<1>1. LibraryInv => PointerOpens
  BY DEF LibraryInv
<1> QED
  BY <1>1, PublishersFit, PTL

\* A run is frozen from its own evidence, whichever analysis has used fuse/ in between.
THEOREM RunsAreTheirOwn == LibrarySpec => []FrozenIsItsRun
<1>1. LibraryInv => FrozenIsItsRun
  BY DEF LibraryInv, FrozenFit, Fits, FrozenIsItsRun
<1> QED
  BY <1>1, PublishersFit, PTL

\* Analyses that publish in another order than they began never take the pointer back.
THEOREM PointersGoForward == LibrarySpec => PointerGoesForward
<1>1. LibraryInv /\ [LibraryNext]_libraryVars =>
          [pointer' # pointer /\ pointer # NoPointer =>
              \A b, c \in bundles :
                 (Named(b) = pointer /\ Named(c) = pointer' /\ ~b.links /\ ~c.links) =>
                    NotBefore(c, b)]_libraryVars
  BY PointsForward
<1> QED
  BY <1>1, PublishersFit, PTL DEF LibrarySpec, PointerGoesForward
=============================================================================
