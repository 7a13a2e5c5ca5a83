------------------------------- MODULE Truth -------------------------------
(***************************************************************************)
(* The truth of one test set of a corpus, against which accuracy is        *)
(* measured (id_detector/truth.py, truth_review.py): a seeded draft, a     *)
(* first pass by ear, a blind second pass, a third person where they       *)
(* differ; and what says that somebody had IDea's own answers on the       *)
(* screen.                                                                 *)
(*                                                                         *)
(* Every command holds the corpus lock from its first check to its last    *)
(* write, so one is in the middle of its writes at a time; it may fail or  *)
(* die between any two of them.  A review window holds no lock while it is *)
(* open, and a person may tidy files up at any time.                       *)
(*                                                                         *)
(* Abstractions.                                                           *)
(*  - A tracklist is a value; of a row only who listened to it is kept.    *)
(*    The code records that somebody did (verified_against), and in        *)
(*    annotator_ref a name, which is `heard`.                              *)
(*  - A digest is what it is a digest of.                                  *)
(*  - A command that finds an interrupted write recovers it first; here    *)
(*    another may come between.                                            *)
(*  - Not here: links, several sets, splits that need no second pass, and  *)
(*    guided second passes, which a test set does not take; nor the draft  *)
(*    manifest and the freeze, which this release refuses.                 *)
(***************************************************************************)
EXTENDS Naturals

CONSTANTS
    Windows,      \* review windows; everything else is a command
    Annotators,
    Rows,
    Texts,        \* tracklists
    MaxSaves      \* bound: passes begun

ASSUME NamesAreTheirs == {"nobody", "command"} \cap (Windows \cup Annotators \cup Texts) = {}

VARIABLES
    truth,      \* ground_truth.json
    files,      \* annotation-first.json, -second.json, -resolution.json
    journal,    \* ground_truth.transaction.json
    sidecar,    \* review-exposure.json is there
    ledger,     \* review-exposure-ledger.jsonl has a line of this set
    holder,     \* who holds the corpus lock
    step,       \* what the holder does next
    plan,       \* what the holder is about to write
    window,     \* what each review window holds
    shown,      \* history: somebody saw the predictions
    begun       \* history: passes begun

diskVars == <<truth, files, journal, sidecar, ledger>>
truthVars == <<diskVars, holder, step, plan, window, shown, begun>>

Nobody == "nobody"
Command == "command"
Passes == {"first", "second", "resolution"}
People == Annotators \cup {Nobody}

Content == [text : Texts \cup {Nobody}, listener : [Rows -> People]]
Annotation == [annotator : People, content : Content, exposed : BOOLEAN]
Record == [content : Content, heard : [Rows -> People], second : People,
           outcome : {"absent", "none", "agreed", "unresolved"} \cup Annotators]
Steps == {"free", "journal", "file", "record", "clear", "undoFile", "undoRecord", "undoClear",
          "sidecar", "ledger", "show"}

By(p) == [r \in Rows |-> p]
Unwritten == [text |-> Nobody, listener |-> By(Nobody)]
NoFile == [annotator |-> Nobody, content |-> Unwritten, exposed |-> FALSE]
NoTruth == [content |-> Unwritten, heard |-> By(Nobody), second |-> Nobody,
            outcome |-> "absent"]
NoFiles == [p \in Passes |-> NoFile]
NoPlan == [pass |-> "none", truth |-> NoTruth, file |-> NoFile]
NoJournal == [pass |-> "none", oldTruth |-> NoTruth, oldFile |-> NoFile,
              newTruth |-> NoTruth, newFile |-> NoFile]
Closed == [open |-> "no", annotator |-> Nobody, digest |-> NoTruth, visible |-> FALSE]

TruthTypeOK ==
    /\ truth \in Record
    /\ files \in [Passes -> Annotation]
    /\ journal.pass \in Passes \cup {"none"}
    /\ sidecar \in BOOLEAN /\ ledger \in BOOLEAN /\ shown \in BOOLEAN
    /\ holder \in Windows \cup {Command, Nobody} /\ step \in Steps
    /\ step = "free" <=> holder = Nobody
    /\ \A w \in Windows : window[w].open \in {"no", "opening", "yes"}

TruthInit ==
    /\ truth = NoTruth /\ files = NoFiles /\ journal = NoJournal
    /\ sidecar = FALSE /\ ledger = FALSE
    /\ holder = Nobody /\ step = "free" /\ plan = NoPlan
    /\ window = [w \in Windows |-> Closed] /\ shown = FALSE /\ begun = 0

----------------------------------------------------------------------------
(* What a command reads off the disk. *)

Written(p) == files[p] # NoFile
Draft(t) == \A r \in Rows : t.heard[r] = Nobody
Verified(c) == {r \in Rows : c.listener[r] # Nobody}
Agree(c, d) == c.text = d.text /\ Verified(c) = Verified(d)

\* prediction_exposure: any of the records will do.
Exposed == sidecar \/ ledger \/ \E p \in Passes : files[p].exposed

\* refuse_later_passes.
NoLaterPass(pass) ==
    /\ ~Written("resolution") /\ truth.outcome \notin Annotators
    /\ pass # "resolution" => ~Written("second") /\ truth.second = Nobody

\* refuse_reattribution.
OnlyMine(t, a) == \A r \in Rows : t.heard[r] \in {a, Nobody}

\* The lock is free, and there is a set with no interrupted write.
Ready == step = "free" /\ truth # NoTruth /\ journal = NoJournal

\* What a pass needs besides its annotators: nothing later.
MayPass(pass) == Ready /\ NoLaterPass(pass)

Release == holder' = Nobody /\ step' = "free" /\ plan' = NoPlan

----------------------------------------------------------------------------
(* Annotation. *)

\* seed_truth: only where there is nothing of a set.
Seed ==
    /\ step = "free"
    /\ truth = NoTruth /\ files = NoFiles /\ journal = NoJournal /\ ~sidecar
    /\ \E text \in Texts :
          truth' = [NoTruth EXCEPT !.outcome = "none", !.content.text = text]
    /\ UNCHANGED <<files, journal, sidecar, ledger, holder, step, plan, window,
                   shown, begun>>

\* _commit_annotated_truth, up to its first write: what becomes of the two files is settled.
Commits(who, pass, updated, annotator, content, exposed) ==
    /\ begun < MaxSaves
    /\ begun' = begun + 1
    /\ holder' = who /\ step' = "journal"
    /\ plan' = [pass |-> pass, truth |-> updated,
                file |-> [annotator |-> annotator, content |-> content,
                          exposed |-> exposed \/ Exposed]]

\* A first pass by one person over the whole set, from a file.
FirstPass(a) ==
    /\ MayPass("first") /\ OnlyMine(truth, a)
    /\ \E text \in Texts :
          LET content == [text |-> text, listener |-> By(a)]
          IN Commits(Command, "first", [truth EXCEPT !.content = content, !.heard = By(a)],
                     a, content, FALSE)
    /\ UNCHANGED <<diskVars, window, shown>>

\* A first pass at the prompt: rows already verified are kept, others are accepted or skipped.
FirstPassAtThePrompt(a) ==
    /\ MayPass("first")
    /\ \E accepted \in SUBSET {r \in Rows : truth.heard[r] = Nobody} :
          LET listens(old) == [r \in Rows |-> IF r \in accepted THEN a ELSE old[r]]
              content == [truth.content EXCEPT !.listener = listens(@)]
          IN Commits(Command, "first", [truth EXCEPT !.content = content, !.heard = listens(@)],
                     a, content, FALSE)
    /\ UNCHANGED <<diskVars, window, shown>>

MaySecond(a) == Written("first") /\ a # files["first"].annotator

\* The truth keeps the first pass, under the first annotator's name.
SecondPass(a) ==
    /\ MayPass("second") /\ MaySecond(a)
    /\ \E text \in Texts :
          LET first == files["first"]
              content == [text |-> text, listener |-> By(a)]
              outcome == IF Agree(first.content, content) THEN "agreed" ELSE "unresolved"
          IN Commits(Command, "second",
                     [truth EXCEPT !.content = first.content, !.heard = By(first.annotator),
                                   !.second = a, !.outcome = outcome],
                     a, content, FALSE)
    /\ UNCHANGED <<diskVars, window, shown>>

\* A third person decides where the two differ.
Resolve(a) ==
    LET first == files["first"]
        second == files["second"]
    IN /\ MayPass("resolution") /\ Written("first") /\ Written("second")
       /\ first.annotator # second.annotator
       /\ a \notin {first.annotator, second.annotator}
       /\ ~Agree(first.content, second.content)
       /\ \E text \in Texts :
             LET content == [text |-> text, listener |-> By(a)]
             IN Commits(Command, "resolution",
                        [truth EXCEPT !.content = content, !.heard = By(first.annotator),
                                      !.second = second.annotator, !.outcome = a],
                        a, content, FALSE)
       /\ UNCHANGED <<diskVars, window, shown>>

----------------------------------------------------------------------------
(* The review window: TruthReviewSession. *)

\* Opening takes no lock: the rows are read ...
OpenReview(w, a) ==
    /\ window[w].open = "no" /\ holder # w
    /\ truth # NoTruth /\ journal = NoJournal
    /\ truth.second = Nobody /\ truth.outcome = "none" /\ OnlyMine(truth, a)
    /\ window' = [window EXCEPT ![w] = [Closed EXCEPT !.open = "opening", !.annotator = a,
                                                      !.digest = truth]]
    /\ UNCHANGED <<diskVars, holder, step, plan, shown, begun>>

\* ... and then, from the file, the digest that a save compares with.
ReadDigest(w) ==
    /\ window[w].open = "opening"
    /\ window' = [window EXCEPT ![w].open = "yes", ![w].digest = truth,
                                      ![w].visible = Exposed]
    /\ UNCHANGED <<diskVars, holder, step, plan, shown, begun>>

CloseReview(w) ==
    /\ window[w].open # "no" /\ holder # w
    /\ window' = [window EXCEPT ![w] = Closed]
    /\ UNCHANGED <<diskVars, holder, step, plan, shown, begun>>

\* save: the rows on the screen, all of them confirmed.
Save(w) ==
    LET a == window[w].annotator
    IN /\ window[w].open = "yes"
       /\ MayPass("first") /\ OnlyMine(truth, a)
       /\ truth = window[w].digest
       /\ \E text \in Texts :
             LET content == [text |-> text, listener |-> By(a)]
             IN Commits(w, "first", [truth EXCEPT !.content = content, !.heard = By(a)],
                        a, content, window[w].visible)
       /\ window' = [window EXCEPT ![w].visible = @ \/ Exposed]
       /\ UNCHANGED <<diskVars, shown>>

\* reveal_predictions: the exposure is on the disk, in two places, before they are shown.
Reveal(w) ==
    /\ window[w].open = "yes"
    /\ step = "free" /\ truth # NoTruth
    /\ holder' = w /\ step' = "sidecar"
    /\ UNCHANGED <<diskVars, plan, window, shown, begun>>

WriteSidecar ==
    /\ step = "sidecar"
    /\ sidecar' = TRUE
    /\ step' = "ledger"
    /\ UNCHANGED <<truth, files, journal, ledger, holder, plan, window, shown, begun>>

\* Mutant of InLedger: the sidecar is record enough of a set whose first pass is not saved.
InLedgerLater == ledger \/ Written("first")

\* record_exposure_in_ledger.
InLedger == TRUE

AppendLedger ==
    /\ step = "ledger"
    /\ ledger' = (ledger \/ InLedger)
    /\ step' = "show"
    /\ window' = [window EXCEPT ![holder].visible = TRUE]
    /\ UNCHANGED <<truth, files, journal, sidecar, holder, plan, shown, begun>>

\* The sidecar is written again if somebody has removed it, and held while the answer is given.
ShowPredictions ==
    /\ step = "show"
    /\ \/ sidecar' = TRUE /\ shown' = TRUE
       \/ sidecar' \in {sidecar, TRUE} /\ UNCHANGED shown
    /\ Release
    /\ UNCHANGED <<truth, files, journal, ledger, window, begun>>

----------------------------------------------------------------------------
(* The two files of a pass are replaced as one: _commit_pair, _roll_back, _recover. *)

WriteJournal ==
    /\ step = "journal"
    /\ journal' = [pass |-> plan.pass, oldTruth |-> truth, oldFile |-> files[plan.pass],
                   newTruth |-> plan.truth, newFile |-> plan.file]
    /\ step' = "file"
    /\ UNCHANGED <<truth, files, sidecar, ledger, holder, plan, window, shown, begun>>

WriteFile ==
    /\ step = "file"
    /\ files' = [files EXCEPT ![plan.pass] = plan.file]
    /\ step' = "record"
    /\ UNCHANGED <<truth, journal, sidecar, ledger, holder, plan, window, shown, begun>>

WriteRecord ==
    /\ step = "record"
    /\ truth' = plan.truth
    /\ step' = "clear"
    /\ UNCHANGED <<files, journal, sidecar, ledger, holder, plan, window, shown, begun>>

\* The pass is saved; a window that saved it goes on from there.
ClearJournal ==
    /\ step = "clear"
    /\ journal' = NoJournal
    /\ window' = [w \in Windows |-> IF w # holder THEN window[w]
                      ELSE [window[w] EXCEPT !.digest = truth]]
    /\ Release
    /\ UNCHANGED <<truth, files, sidecar, ledger, shown, begun>>

UndoFile ==
    /\ step = "undoFile"
    /\ files' = [files EXCEPT ![journal.pass] = journal.oldFile]
    /\ step' = "undoRecord"
    /\ UNCHANGED <<truth, journal, sidecar, ledger, holder, plan, window, shown, begun>>

UndoRecord ==
    /\ step = "undoRecord"
    /\ truth' = journal.oldTruth
    /\ step' = "undoClear"
    /\ UNCHANGED <<files, journal, sidecar, ledger, holder, plan, window, shown, begun>>

UndoClear ==
    /\ step = "undoClear"
    /\ journal' = NoJournal
    /\ Release
    /\ UNCHANGED <<truth, files, sidecar, ledger, window, shown, begun>>

\* Mutant of Completed: the truth alone decides.
CompletedTruth == truth = journal.newTruth

\* Both files are the new ones: only the journal was left.
Completed == truth = journal.newTruth /\ files[journal.pass] = journal.newFile

Recover ==
    /\ step = "free" /\ journal # NoJournal
    /\ \/ /\ Completed
          /\ journal' = NoJournal
          /\ UNCHANGED <<holder, step, begun>>
       \/ /\ ~Completed
          /\ holder' = Command /\ step' = "undoFile"
          /\ UNCHANGED journal
    /\ UNCHANGED <<truth, files, sidecar, ledger, plan, window, shown, begun>>

----------------------------------------------------------------------------
(* What may go wrong, and what people do by hand. *)

\* A write fails, before or after it took effect.  Only _commit_pair undoes anything.
StepFails ==
    \/ /\ step \in {"file", "record", "clear"}
       /\ step' = "undoFile"
       /\ UNCHANGED <<diskVars, holder, plan, window, shown, begun>>
    \/ /\ step \notin {"free", "record"}
       /\ Release
       /\ UNCHANGED <<diskVars, window, shown, begun>>

\* The process dies; the lock goes with it.
ToolDies ==
    /\ step # "free"
    /\ Release
    /\ window' = [w \in Windows |-> IF w = holder THEN Closed ELSE window[w]]
    /\ UNCHANGED <<diskVars, shown, begun>>

\* Somebody tidies the sidecar away.
Tidy ==
    /\ sidecar
    /\ sidecar' = FALSE
    /\ UNCHANGED <<truth, files, journal, ledger, holder, step, plan, window,
                   shown, begun>>

\* Somebody removes the set's folder, to start the set again.
StartOver ==
    /\ step = "free"
    /\ truth # NoTruth
    /\ truth' = NoTruth /\ files' = NoFiles /\ journal' = NoJournal /\ sidecar' = FALSE
    /\ UNCHANGED <<ledger, holder, step, plan, window, shown, begun>>

TruthNext ==
    \/ WriteSidecar \/ AppendLedger \/ ShowPredictions
    \/ WriteJournal \/ WriteFile \/ WriteRecord \/ ClearJournal
    \/ UndoFile \/ UndoRecord \/ UndoClear
    \/ StepFails \/ ToolDies \/ Tidy \/ StartOver
    \/ Seed \/ Recover
    \/ \E a \in Annotators :
          FirstPass(a) \/ FirstPassAtThePrompt(a) \/ SecondPass(a) \/ Resolve(a)
    \/ \E w \in Windows :
          \/ ReadDigest(w) \/ CloseReview(w) \/ Save(w) \/ Reveal(w)
          \/ \E a \in Annotators : OpenReview(w, a)

TruthSpec == TruthInit /\ [][TruthNext]_truthVars

----------------------------------------------------------------------------
(* Properties. *)

\* Once the predictions were on a screen the set never counts as independent again: not after
\* the sidecar is tidied away, a save that is rolled back, a crash, or a new start of the set.
ShownIsRecorded == shown => Exposed

\* When no write is pending, the truth is what its newest pass justifies, whatever failed, died
\* and was recovered in between, in whatever order.
PairIsWhole ==
    step = "free" /\ journal = NoJournal /\ truth # NoTruth =>
        CASE Written("resolution") ->
                /\ truth.content = files["resolution"].content
                /\ truth.outcome = files["resolution"].annotator
          [] Written("second") /\ ~Written("resolution") ->
                /\ truth.content = files["first"].content
                /\ truth.second = files["second"].annotator
                /\ truth.outcome = "agreed" <=> Agree(truth.content, files["second"].content)
          [] Written("first") /\ ~Written("second") /\ ~Written("resolution") ->
                truth.content = files["first"].content /\ truth.second = Nobody
          [] OTHER -> Draft(truth)
=============================================================================
