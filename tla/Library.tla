------------------------------ MODULE Library ------------------------------
(***************************************************************************)
(* The results of one mix on disk (id_detector/present/bundles.py) and     *)
(* everybody who publishes one: the passes of its analyses (pipeline.py),  *)
(* the upkeep of an upgraded installation (present/refresh.py,             *)
(* refusion.py) and `idea acquire` (cli.py), which alone takes no media    *)
(* lock.  A pass may die between any two steps; its job keeps its run id   *)
(* and the next pass starts from the checkpoints.                          *)
(*                                                                         *)
(* Abstractions.                                                           *)
(*  - What a result shows is the evidence it was fused from: whose, with   *)
(*    the paid answers or without, and under which fusion version.         *)
(*  - A directory is open while it is written and sealed from then on; the *)
(*    disk damages nothing, so what is sealed also verifies.               *)
(*  - One request per analysis, for the same inputs; served are complete   *)
(*    results (no accept_degraded, no serve_free_from_deep).               *)
(*  - The local mode (a hosted worker writes no pointer), without the      *)
(*    results from before there were bundles, and one directory per mix.   *)
(***************************************************************************)
EXTENDS Naturals, FiniteSets, FiniteSetsExt

CONSTANTS
    Analyses,      \* the analyses asked for
    MaxBegun,      \* bound: passes and revisions ever begun
    MaxRelease     \* bound: page and fusion version of the last release

ASSUME LibraryBounded ==
    MaxBegun \in Nat /\ MaxRelease \in Nat \ {0} /\ Analyses \cap {"upkeep", "acquire"} = {}

VARIABLES
    release,    \* the versions of the installed code: page and fusion
    flat,       \* whose evidence the mutable tree fuse/ holds
    frozen,     \* fuse/runs: [seal, holds] of every run id
    bundles,    \* present/bundles
    pointer,    \* present/current
    analyses,   \* the request of each analysis and its checkpoints
    writer,     \* everybody who may publish
    begun       \* passes and revisions so far, which is also the time

libraryVars == <<release, flat, frozen, bundles, pointer, analyses, writer, begun>>

\* A run id: the analysis, and the fusion version it was re-fused under, 0 for its own run.
RunIds == Analyses \X (0..MaxRelease)
Writers == Analyses \cup {"upkeep", "acquire"}
NoOne == "nobody"
Nothing == [run |-> NoOne, paid |-> FALSE, fusion |-> 0]
Evidence == [run : Analyses, paid : BOOLEAN, fusion : 0..MaxRelease] \cup {Nothing}
NoPointer == <<>>

Phases == {"idle", "queued", "fuse", "paid", "publish", "freeze", "seal_run", "make", "seal",
          "compare", "point", "settle"}

LibraryTypeOK ==
    /\ release \in [page : 1..MaxRelease, fusion : 0..MaxRelease]
    /\ flat \in Evidence
    /\ frozen \in [RunIds -> [seal : {"none", "open", "sealed"}, holds : Evidence]]
    /\ \A b \in bundles :
          b \in [id : RunIds, version : Nat, started : 1..MaxBegun, page : 1..MaxRelease,
                 claims : Evidence, shows : Evidence, complete : BOOLEAN, links : BOOLEAN,
                 sealed : BOOLEAN]
    /\ pointer = NoPointer \/ pointer \in RunIds \X Nat
    /\ analyses \in [Analyses -> [state : {"new", "open", "settled"}, deep : BOOLEAN,
                                  refresh : BOOLEAN, swept : BOOLEAN, answered : BOOLEAN]]
    /\ writer \in [Writers -> [at : Phases, id : RunIds \cup {<<NoOne, 0>>}, started : 0..MaxBegun,
                               claims : Evidence, shows : Evidence, complete : BOOLEAN,
                               links : BOOLEAN, version : Nat, chosen : BOOLEAN,
                               borrowed : BOOLEAN]]
    /\ begun \in 0..MaxBegun

Resting == [at |-> "idle", id |-> <<NoOne, 0>>, started |-> 0,
            claims |-> Nothing, shows |-> Nothing, complete |-> FALSE, links |-> FALSE,
            version |-> 0, chosen |-> FALSE, borrowed |-> FALSE]

LibraryInit ==
    /\ release = [page |-> 1, fusion |-> 0]
    /\ flat = Nothing
    /\ frozen = [id \in RunIds |-> [seal |-> "none", holds |-> Nothing]]
    /\ bundles = {}
    /\ pointer = NoPointer
    /\ analyses \in [Analyses -> [state : {"new"}, deep : BOOLEAN, refresh : BOOLEAN,
                                  swept : {FALSE}, answered : {FALSE}]]
    /\ writer = [w \in Writers |-> Resting]
    /\ begun = 0

----------------------------------------------------------------------------
(* Reading the library. *)

Named(b) == <<b.id, b.version>>

\* _order(): by the time of the analysis, then its run id (a re-fused one is the greater), then
\* the revision.  Two results of one time are of one analysis.
NotBefore(b, c) ==
    \/ b.started > c.started
    \/ b.started = c.started /\ b.id[2] > c.id[2]
    \/ b.started = c.started /\ b.id = c.id /\ b.version >= c.version

Newest(candidates) == CHOOSE b \in candidates : \A c \in candidates : NotBefore(b, c)

\* result_dir(): what the pointer names, else the newest complete result, else the newest shown
\* one; a set of at most one bundle.  _publish_current() and every snapshot read it.
ResultDir ==
    LET readable == {b \in bundles : b.sealed}
        complete == {b \in readable : b.complete}
        pointed == {b \in complete : Named(b) = pointer}
    IN  CASE pointed # {} -> pointed
          [] pointed = {} /\ complete # {} -> {Newest(complete)}
          [] complete = {} /\ readable # {} -> {Newest(readable)}
          [] OTHER -> {}

\* load_run_snapshot(): a bundle opens with the run it names, and shows that run's rows.
Opens(b) == frozen[b.id].seal = "sealed"

\* find_result() and find_stale_result(): the newest complete result of the recipe, and whether
\* it is a fusion version behind.
Answering(a) == {b \in bundles : b.sealed /\ b.complete /\ b.claims.paid = analyses[a].deep}
UpToDate(b) == b.claims.fusion = release.fusion

\* ProcessLock(".media.lock"): a pass from when it has ingested to its end, the upkeep
\* throughout; never acquire.
LockFree == \A w \in Writers \ {"acquire"} : writer[w].at \in {"idle", "queued"}

Goes(w, step) == writer' = [writer EXCEPT ![w].at = step]
Rests(w) == writer' = [writer EXCEPT ![w] = Resting]

----------------------------------------------------------------------------
(* A pass of an analysis: run_analysis(). *)

\* The clock of the run starts with the pass, before the source is fetched and the lock taken.
Begin(a) ==
    /\ analyses[a].state # "settled" /\ writer[a].at = "idle"
    /\ begun < MaxBegun
    /\ begun' = begun + 1
    /\ analyses' = [analyses EXCEPT ![a].state = "open"]
    /\ writer' = [writer EXCEPT ![a] = [Resting EXCEPT !.at = "queued", !.id = <<a, 0>>,
                                                       !.started = begun + 1]]
    /\ UNCHANGED <<release, flat, frozen, bundles, pointer>>

Settled(a) ==
    /\ analyses' = [analyses EXCEPT ![a].state = "settled"]
    /\ Rests(a)

\* A stored result answers the request; one that is only a fusion version behind is re-fused
\* first, and if it is a paid one the run stops.
Served(a) ==
    /\ writer[a].at = "queued" /\ LockFree
    /\ ~analyses[a].refresh /\ Answering(a) # {}
    /\ LET b == Newest(Answering(a)) IN
          /\ UpToDate(b) \/ b.claims.paid \/ ~Opens(b)
          /\ Settled(a)
    /\ UNCHANGED <<release, flat, frozen, bundles, pointer, begun>>

\* refuse_snapshot(): the re-fusion of a free result is a run of its own, which takes over
\* everything else of the result.  An earlier attempt's frozen run is taken as it is.
Refusing(w, b) ==
    LET id == <<b.id[1], release.fusion>>
        fused == [b.claims EXCEPT !.fusion = release.fusion]
        kept == frozen[id].seal = "sealed"
    IN  writer' = [writer EXCEPT ![w] =
            [Resting EXCEPT !.at = IF kept THEN "publish" ELSE "freeze",
                            !.id = id, !.started = b.started, !.complete = b.complete,
                            !.links = b.links, !.claims = fused,
                            !.shows = IF kept THEN frozen[id].holds ELSE fused]]

RefuseStored(a) ==
    /\ writer[a].at = "queued" /\ LockFree
    /\ ~analyses[a].refresh /\ Answering(a) # {}
    /\ LET b == Newest(Answering(a)) IN
          ~UpToDate(b) /\ ~b.claims.paid /\ Opens(b) /\ Refusing(a, b)
    /\ UNCHANGED <<release, flat, frozen, bundles, pointer, analyses, begun>>

\* The free sweep, or the proven evidence of a stored free result in its place.
Sweep(a) ==
    /\ writer[a].at = "queued" /\ LockFree
    /\ analyses[a].refresh \/ Answering(a) = {}
    /\ LET borrows == /\ analyses[a].deep /\ ~analyses[a].swept /\ ~analyses[a].refresh
                      /\ \E b \in bundles : b.sealed /\ b.complete /\ ~b.claims.paid /\ Opens(b)
       IN  writer' = [writer EXCEPT ![a].at = "fuse", ![a].borrowed = borrows]
    /\ analyses' = [analyses EXCEPT ![a].swept = TRUE]
    /\ UNCHANGED <<release, flat, frozen, bundles, pointer, begun>>

Own(a, paid) == [run |-> a, paid |-> paid, fusion |-> release.fusion]

Publishes(a, evidence, complete) ==
    writer' = [writer EXCEPT ![a].at = "publish", ![a].claims = evidence,
                             ![a].shows = evidence, ![a].complete = complete]

\* Fusion is never restored: fuse/ is shared by all analyses of the mix, so its checkpoint says
\* nothing of what it holds by now.
Fuse(a) ==
    /\ writer[a].at = "fuse"
    /\ flat' = Own(a, FALSE)
    /\ IF analyses[a].deep
       THEN Goes(a, "paid")
       ELSE \E complete \in BOOLEAN : Publishes(a, Own(a, FALSE), complete)
    /\ UNCHANGED <<release, frozen, bundles, pointer, analyses, begun>>

\* The paid answers, or those of an earlier pass, are fused in.
PaidAnswers(a) ==
    /\ writer[a].at = "paid"
    /\ flat' = Own(a, TRUE)
    /\ analyses' = [analyses EXCEPT ![a].answered = TRUE]
    /\ \E complete \in BOOLEAN : Publishes(a, Own(a, TRUE), complete)
    /\ UNCHANGED <<release, frozen, bundles, pointer, begun>>

\* _publish_free_only(): not confirmed, not affordable or not available, the run keeps the free
\* result it has made, if it has made one, and stops; or it degrades to it (--allow-degrade).
NoPaidAnswers(a) ==
    /\ writer[a].at = "paid" /\ ~analyses[a].answered
    /\ \/ writer[a].borrowed /\ Settled(a)
       \/ /\ ~writer[a].borrowed
          /\ \E complete \in BOOLEAN : Publishes(a, Own(a, FALSE), complete)
          /\ UNCHANGED analyses
       \/ /\ Publishes(a, Own(a, FALSE), FALSE)
          /\ UNCHANGED analyses
    /\ UNCHANGED <<release, flat, frozen, bundles, pointer, begun>>

\* The line of the run, whatever it published.
Journalled(a) ==
    /\ writer[a].at = "settle"
    /\ Settled(a)
    /\ UNCHANGED <<release, flat, frozen, bundles, pointer, begun>>

----------------------------------------------------------------------------
(* Revisions of a stored result. *)

\* regenerate_page() and acquire publish a snapshot under the identity of its own run.
Revises(w, b, links) ==
    writer' = [writer EXCEPT ![w] =
        [Resting EXCEPT !.at = "publish", !.id = b.id, !.started = b.started,
                        !.complete = b.complete, !.links = links, !.version = b.version,
                        !.claims = b.claims, !.shows = frozen[b.id].holds]]

\* bring_up_to_date(): re-fuse a free result of an older fusion, else render an older page anew;
\* a paid one of an older fusion is left alone.
Upkeep ==
    /\ writer["upkeep"].at = "idle" /\ LockFree
    /\ begun < MaxBegun
    /\ \E b \in ResultDir :
          /\ Opens(b)
          /\ \/ ~UpToDate(b) /\ ~b.claims.paid /\ Refusing("upkeep", b)
             \/ UpToDate(b) /\ b.page < release.page /\ Revises("upkeep", b, b.links)
    /\ begun' = begun + 1
    /\ UNCHANGED <<release, flat, frozen, bundles, pointer, analyses>>

\* `idea acquire`: the links are looked up between the snapshot and its publication.
Acquire ==
    /\ writer["acquire"].at = "idle"
    /\ begun < MaxBegun
    /\ \E b \in ResultDir : Opens(b) /\ Revises("acquire", b, TRUE)
    /\ begun' = begun + 1
    /\ UNCHANGED <<release, flat, frozen, bundles, pointer, analyses>>

----------------------------------------------------------------------------
(* publish_result(). *)

Rendered(w) ==
    LET v == writer[w] IN
    [id |-> v.id, version |-> v.version, started |-> v.started, page |-> release.page,
     claims |-> v.claims, shows |-> v.shows, complete |-> v.complete, links |-> v.links,
     sealed |-> TRUE]

\* An identical rendering is published again; else the next revision nobody has begun.
Choose(w) ==
    /\ writer[w].at = "publish"
    /\ LET from == Max({release.page, writer[w].version})
           taken(n) == \E b \in bundles : Named(b) = <<writer[w].id, n>>
           same(n) == [Rendered(w) EXCEPT !.version = n] \in bundles
           n == CHOOSE n \in from..(from + Cardinality(bundles)) :
                   /\ same(n) \/ ~taken(n)
                   /\ \A m \in from..(n - 1) : taken(m) /\ ~same(m)
       IN  /\ ~same(n) \/ Opens(writer[w])
           /\ writer' = [writer EXCEPT ![w].version = n, ![w].chosen = TRUE,
                            ![w].at = CASE same(n) -> "compare"
                                        [] ~same(n) /\ Opens(writer[w]) -> "make"
                                        [] OTHER -> "freeze"]
    /\ UNCHANGED <<release, flat, frozen, bundles, pointer, analyses, begun>>

\* Mutant of Freeze: any run from fuse/.
FreezeFlat(w) ==
    /\ writer[w].at = "freeze"
    /\ frozen' = [frozen EXCEPT ![writer[w].id] = [seal |-> "open", holds |-> flat]]
    /\ Goes(w, "seal_run")
    /\ UNCHANGED <<release, flat, bundles, pointer, analyses, begun>>

\* An unsealed run is written from the start: from fuse/, a re-fused one from its own rows
\* (freeze_refused_run).
Freeze(w) ==
    /\ writer[w].at = "freeze"
    /\ frozen' = [frozen EXCEPT ![writer[w].id] =
          [seal |-> "open", holds |-> IF writer[w].id[2] = 0 THEN flat ELSE writer[w].shows]]
    /\ Goes(w, "seal_run")
    /\ UNCHANGED <<release, flat, bundles, pointer, analyses, begun>>

SealRun(w) ==
    /\ writer[w].at = "seal_run"
    /\ frozen' = [frozen EXCEPT ![writer[w].id].seal = "sealed"]
    /\ Goes(w, IF writer[w].chosen THEN "make" ELSE "publish")
    /\ UNCHANGED <<release, flat, bundles, pointer, analyses, begun>>

\* mkdir(exist_ok=False) refuses a directory another process made since.
MakeBundle(w) ==
    /\ writer[w].at = "make"
    /\ IF \E b \in bundles : Named(b) = Named(writer[w])
       THEN Rests(w) /\ UNCHANGED bundles
       ELSE /\ bundles' = bundles \cup {[Rendered(w) EXCEPT !.sealed = FALSE]}
            /\ Goes(w, "seal")
    /\ UNCHANGED <<release, flat, frozen, pointer, analyses, begun>>

SealBundle(w) ==
    /\ writer[w].at = "seal"
    /\ bundles' = (bundles \ {[Rendered(w) EXCEPT !.sealed = FALSE]}) \cup {Rendered(w)}
    /\ Goes(w, "compare")
    /\ UNCHANGED <<release, flat, frozen, pointer, analyses, begun>>

Concludes(w) == IF w \in Analyses THEN Goes(w, "settle") ELSE Rests(w)

\* Mutant of Compare: whatever is newest is shown.
CompareNewest(w) ==
    /\ writer[w].at = "compare"
    /\ IF \A c \in ResultDir : NotBefore(writer[w], c) THEN Goes(w, "point") ELSE Concludes(w)
    /\ UNCHANGED <<release, flat, frozen, bundles, pointer, analyses, begun>>

\* Mutant of Compare: the last to publish is shown.
CompareLast(w) ==
    /\ writer[w].at = "compare"
    /\ IF writer[w].complete THEN Goes(w, "point") ELSE Concludes(w)
    /\ UNCHANGED <<release, flat, frozen, bundles, pointer, analyses, begun>>

\* _publish_current() up to the decision, and the write of the pointer.
Compare(w) ==
    /\ writer[w].at = "compare"
    /\ IF writer[w].complete /\ \A c \in ResultDir : c.complete => NotBefore(writer[w], c)
       THEN Goes(w, "point")
       ELSE Concludes(w)
    /\ UNCHANGED <<release, flat, frozen, bundles, pointer, analyses, begun>>

Point(w) ==
    /\ writer[w].at = "point"
    /\ pointer' = Named(writer[w])
    /\ Concludes(w)
    /\ UNCHANGED <<release, flat, frozen, bundles, analyses, begun>>

----------------------------------------------------------------------------

\* The process dies, or an exception ends the pass: its lock is released, and a job that has not
\* settled is taken up again with its run id.
Stops(w) ==
    /\ writer[w].at # "idle"
    /\ Rests(w)
    /\ UNCHANGED <<release, flat, frozen, bundles, pointer, analyses, begun>>

\* A new release replaces the code while nothing runs; not every one bumps the fusion.
Upgrade ==
    /\ \A w \in Writers : writer[w].at = "idle"
    /\ release.page < MaxRelease
    /\ \E fusion \in {release.fusion, release.fusion + 1} :
          release' = [page |-> release.page + 1, fusion |-> fusion]
    /\ UNCHANGED <<flat, frozen, bundles, pointer, analyses, writer, begun>>

LibraryNext ==
    \/ \E a \in Analyses :
          \/ Begin(a) \/ Served(a) \/ RefuseStored(a) \/ Sweep(a) \/ Fuse(a) \/ PaidAnswers(a)
          \/ NoPaidAnswers(a) \/ Journalled(a)
    \/ Upkeep \/ Acquire \/ Upgrade
    \/ \E w \in Writers :
          \/ Choose(w) \/ Freeze(w) \/ SealRun(w) \/ MakeBundle(w) \/ SealBundle(w)
          \/ Compare(w) \/ Point(w) \/ Stops(w)

LibrarySpec == LibraryInit /\ [][LibraryNext]_libraryVars

----------------------------------------------------------------------------
(* What the library promises. *)

\* The pointer always names a complete result that opens: sealed, with its run sealed behind it,
\* whoever died while publishing.
PointerOpens ==
    pointer # NoPointer =>
        \E b \in bundles : Named(b) = pointer /\ b.sealed /\ b.complete /\ Opens(b)

\* Analyses that started in one order and publish in the other never take the pointer back to
\* the older result, and neither does the upkeep.  Only acquire, which takes no lock, may: what
\* it has published is told by its links.
PointerGoesForward ==
    [][pointer' # pointer /\ pointer # NoPointer =>
          \A b, c \in bundles :
             (Named(b) = pointer /\ Named(c) = pointer' /\ ~b.links /\ ~c.links) =>
                NotBefore(c, b)]_libraryVars

\* A run freezes its own evidence: never that of another analysis which has used fuse/ since,
\* nor that of the run it was re-fused from.
FrozenIsItsRun ==
    \A id \in RunIds : frozen[id].seal = "sealed" =>
        /\ frozen[id].holds.run = id[1]
        /\ id[2] # 0 => frozen[id].holds.fusion = id[2]

\* load_run_snapshot(): "The selected result *and* the exact inputs that produced it".
ExactInputs ==
    \A b \in bundles : b.sealed => frozen[b.id].holds = b.claims
=============================================================================
