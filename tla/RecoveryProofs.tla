--------------------------- MODULE RecoveryProofs ---------------------------
(***************************************************************************)
(* What is replaced together, and who recovers it: the truth of a set      *)
(* stays what its newest pass justifies and who saw the predictions stays  *)
(* on record, a restore is one recoverable boundary, and a snapshot is of  *)
(* one moment.  For any windows, people, rows, tracklists and versions.    *)
(*                                                                         *)
(* Two components that share no state, the truth of a set and the backup.  *)
(***************************************************************************)
EXTENDS Truth, Backup, FiniteSetTheorems, TLAPS

\* What a tracklist says once there is one, and the records that say it.
Told == [text : Texts, listener : [Rows -> People]]
ToldTruths == {t \in Record : t.content \in Told}
ToldFiles == {f \in Annotation : f.content \in Told}

Views == [open : {"no", "opening", "yes"}, annotator : People, digest : Record,
          visible : BOOLEAN]

\* Every variable has its type; what is on the disk, planned and journalled is a truth and a
\* file that say something, or nothing at all.
PairTypes ==
    /\ truth \in ToldTruths \cup {NoTruth}
    /\ files \in [Passes -> ToldFiles \cup {NoFile}]
    /\ plan = NoPlan \/ /\ plan.pass \in Passes
                        /\ plan.truth \in ToldTruths /\ plan.file \in ToldFiles
    /\ journal = NoJournal \/
          /\ journal.pass \in Passes
          /\ journal.oldTruth \in ToldTruths /\ journal.newTruth \in ToldTruths
          /\ journal.oldFile \in ToldFiles \cup {NoFile} /\ journal.newFile \in ToldFiles
    /\ window \in [Windows -> Views]
    /\ sidecar \in BOOLEAN /\ ledger \in BOOLEAN /\ shown \in BOOLEAN
    /\ holder \in Windows \cup {Command, Nobody} /\ step \in Steps
    /\ step = "free" <=> holder = Nobody

\* The truth is what the newest of these files justifies.
Justified(t, fs) ==
    /\ fs["resolution"] # NoFile =>
          /\ t.content = fs["resolution"].content
          /\ t.outcome = fs["resolution"].annotator
    /\ fs["second"] # NoFile /\ fs["resolution"] = NoFile =>
          /\ t.content = fs["first"].content
          /\ t.second = fs["second"].annotator
          /\ t.outcome = "agreed" <=> Agree(t.content, fs["second"].content)
    /\ fs["first"] # NoFile /\ fs["second"] = NoFile /\ fs["resolution"] = NoFile =>
          t.content = fs["first"].content /\ t.second = Nobody
    /\ (\A p \in Passes : fs[p] = NoFile) => Draft(t)

With(p, f) == [files EXCEPT ![p] = f]

InWrite == {"file", "record", "clear"}
InUndo == {"undoFile", "undoRecord", "undoClear"}

\* With no journal, the pair on the disk is whole, and a set that is not there has no files.
RestIsWhole ==
    journal = NoJournal =>
        /\ truth # NoTruth => Justified(truth, files)
        /\ truth = NoTruth => files = NoFiles

\* What a pass is about to write would be whole.
PlanIsWhole ==
    step = "journal" =>
        /\ journal = NoJournal /\ truth # NoTruth /\ plan # NoPlan
        /\ Justified(plan.truth, With(plan.pass, plan.file))

\* Either end of a pending write is whole, and each file on the disk is at one of them.
JournalIsWhole ==
    journal # NoJournal =>
        /\ Justified(journal.oldTruth, With(journal.pass, journal.oldFile))
        /\ Justified(journal.newTruth, With(journal.pass, journal.newFile))

\* How far the write or its undoing has come.
WriteIsAt ==
    /\ step \in InWrite \cup InUndo => journal # NoJournal
    /\ step \in InWrite => /\ plan # NoPlan /\ plan.pass = journal.pass
                           /\ plan.truth = journal.newTruth /\ plan.file = journal.newFile
    /\ step \in {"record", "clear"} => files[journal.pass] = journal.newFile
    /\ step = "clear" => truth = journal.newTruth
    /\ step \in {"undoRecord", "undoClear"} => files[journal.pass] = journal.oldFile
    /\ step = "undoClear" => truth = journal.oldTruth

PairInv == PairTypes /\ RestIsWhole /\ PlanIsWhole /\ JournalIsWhole /\ WriteIsAt

\* The ledger never forgets, and has the set before the predictions are on a screen.
SeenIsInLedger == shown \in BOOLEAN /\ (shown => ledger) /\ (step = "show" => ledger)

-----------------------------------------------------------------------------
\* Names.

LEMMA NothingSaidIsTold == NoTruth \notin ToldTruths /\ NoFile \notin ToldFiles
<1>1. Nobody \notin Texts
  BY NamesAreTheirs DEF Nobody
<1>2. NoTruth.content.text = Nobody /\ NoFile.content.text = Nobody
  BY DEF NoTruth, NoFile, Unwritten
<1> QED
  BY <1>1, <1>2 DEF ToldTruths, ToldFiles, Told

LEMMA NoJournalHasNoPass == NoJournal.pass \notin Passes
BY DEF NoJournal, Passes

LEMMA NoPlanHasNoPass == NoPlan.pass \notin Passes
BY DEF NoPlan, Passes

LEMMA NothingIsTyped == NoTruth \in Record /\ NoFile \in Annotation
BY DEF NoTruth, NoFile, Record, Annotation, Content, People, By, Unwritten

LEMMA ClosedIsView == Closed \in Views
BY NothingIsTyped DEF Closed, Views, People

\* Replacing a file by what it is already replaces nothing.
LEMMA WithItself ==
    ASSUME files \in [Passes -> ToldFiles \cup {NoFile}], NEW p \in Passes
    PROVE  With(p, files[p]) = files
BY DEF With

-----------------------------------------------------------------------------
\* Types.

\* What a save is about to write.
LEMMA CommitsTypes ==
    ASSUME PairTypes, NEW who \in Windows \cup {Command}, NEW pass \in Passes,
           NEW updated \in ToldTruths, NEW annotator \in People, NEW content \in Told,
           NEW exposed \in BOOLEAN,
           Commits(who, pass, updated, annotator, content, exposed),
           UNCHANGED diskVars, UNCHANGED shown, window' \in [Windows -> Views]
    PROVE  PairTypes' /\ plan' # NoPlan /\ plan'.pass = pass /\ plan'.truth = updated
           /\ plan'.file \in ToldFiles
           /\ plan'.file.content = content /\ plan'.file.annotator = annotator
<1>1. content \in Content
  BY DEF Told, Content
<1>2. Exposed \in BOOLEAN
  BY DEF Exposed, PairTypes, ToldFiles, Annotation
<1> DEFINE file == [annotator |-> annotator, content |-> content,
                    exposed |-> exposed \/ Exposed]
<1>3. plan' = [pass |-> pass, truth |-> updated, file |-> file]
  BY DEF Commits
<1>4. file \in ToldFiles
  BY <1>1, <1>2 DEF ToldFiles, Annotation
<1>5. who # Nobody
  BY NamesAreTheirs DEF Nobody, Command
<1>6. plan' # NoPlan
  BY <1>3, NoPlanHasNoPass
<1>7. holder' = who /\ step' = "journal" /\ step' \in Steps
  BY DEF Commits, Steps
<1>8. PairTypes'
  BY <1>3, <1>4, <1>5, <1>7 DEF PairTypes, diskVars
<1> QED
  BY <1>3, <1>4, <1>6, <1>8

-----------------------------------------------------------------------------
\* A pass begins: its plan is whole beside the files that are there.

LEMMA BeginKeeps ==
    ASSUME PairInv, NEW who \in Windows \cup {Command}, NEW pass \in Passes,
           NEW updated \in ToldTruths, NEW annotator \in People, NEW content \in Told,
           NEW exposed \in BOOLEAN, MayPass(pass),
           Commits(who, pass, updated, annotator, content, exposed),
           \A f \in ToldFiles : f.content = content /\ f.annotator = annotator
                                    => Justified(updated, With(pass, f)),
           UNCHANGED diskVars, UNCHANGED shown, window' \in [Windows -> Views]
    PROVE  PairInv'
<1>1. /\ PairTypes' /\ plan' # NoPlan /\ plan'.pass = pass /\ plan'.truth = updated
      /\ plan'.file \in ToldFiles
      /\ plan'.file.content = content /\ plan'.file.annotator = annotator
  BY CommitsTypes DEF PairInv
<1>2. Justified(updated, With(pass, plan'.file))
  BY <1>1
<1>3. /\ step' = "journal" /\ UNCHANGED <<truth, files, journal>>
      /\ journal = NoJournal /\ truth # NoTruth
  BY DEF Commits, MayPass, Ready, diskVars
<1>4. With(pass, plan'.file) = [files' EXCEPT ![pass] = plan'.file]
  BY <1>3 DEF With
<1>5. PlanIsWhole'
  BY <1>1, <1>2, <1>3, <1>4 DEF PlanIsWhole, With
<1>6. RestIsWhole' /\ JournalIsWhole' /\ WriteIsAt'
  BY <1>3 DEF PairInv, RestIsWhole, JournalIsWhole, WriteIsAt, InWrite, InUndo
<1> QED
  BY <1>1, <1>5, <1>6 DEF PairInv

\* The truth that a first pass leaves, in whatever way its rows were heard.
LEMMA FirstIsJustified ==
    ASSUME PairInv, MayPass("first"), NEW content \in Told, NEW heard \in [Rows -> People],
           NEW updated, updated = [truth EXCEPT !.content = content, !.heard = heard]
    PROVE  /\ updated \in ToldTruths
           /\ \A f \in ToldFiles : f.content = content => Justified(updated, With("first", f))
<1>1. truth \in ToldTruths
  BY DEF PairInv, PairTypes, MayPass, Ready
<1>2. content \in Content
  BY DEF Told, Content
<1>3. updated \in Record /\ updated.content = content /\ updated.second = truth.second
  BY <1>1, <1>2 DEF ToldTruths, Record
<1>4. files["second"] = NoFile /\ files["resolution"] = NoFile /\ truth.second = Nobody
  BY DEF MayPass, NoLaterPass, Written, Passes
<1>5. files \in [Passes -> ToldFiles \cup {NoFile}]
  BY DEF PairInv, PairTypes
<1> SUFFICES ASSUME NEW f \in ToldFiles, f.content = content
             PROVE  Justified(updated, With("first", f))
  BY <1>3 DEF ToldTruths
<1>6. /\ With("first", f)["first"] = f
      /\ With("first", f)["second"] = NoFile /\ With("first", f)["resolution"] = NoFile
  BY <1>4, <1>5 DEF With, Passes
<1>7. f # NoFile
  BY NothingSaidIsTold
<1> QED
  BY <1>3, <1>4, <1>6, <1>7 DEF Justified, Passes

LEMMA FirstPassKeeps ==
    ASSUME PairInv, NEW a \in Annotators, FirstPass(a)
    PROVE  PairInv'
<1>1. PICK text \in Texts :
          LET content == [text |-> text, listener |-> By(a)]
          IN Commits(Command, "first", [truth EXCEPT !.content = content, !.heard = By(a)],
                     a, content, FALSE)
  BY DEF FirstPass
<1> DEFINE content == [text |-> text, listener |-> By(a)]
           updated == [truth EXCEPT !.content = content, !.heard = By(a)]
<1>2. content \in Told /\ By(a) \in [Rows -> People]
  BY DEF Told, By, People
<1>3. MayPass("first") /\ UNCHANGED diskVars /\ UNCHANGED shown /\ window' \in [Windows -> Views]
  BY DEF FirstPass, PairInv, PairTypes
<1>4. /\ updated \in ToldTruths
      /\ \A f \in ToldFiles : f.content = content => Justified(updated, With("first", f))
  BY <1>2, <1>3, FirstIsJustified
<1>5. a \in People /\ Command \in Windows \cup {Command} /\ "first" \in Passes /\ FALSE \in BOOLEAN
  BY DEF People, Passes
<1> HIDE DEF content, updated
<1> QED
  BY <1>1, <1>2, <1>3, <1>4, <1>5, BeginKeeps DEF content, updated

LEMMA PromptKeeps ==
    ASSUME PairInv, NEW a \in Annotators, FirstPassAtThePrompt(a)
    PROVE  PairInv'
<1>1. PICK accepted \in SUBSET {r \in Rows : truth.heard[r] = Nobody} :
          LET listens(old) == [r \in Rows |-> IF r \in accepted THEN a ELSE old[r]]
              content == [truth.content EXCEPT !.listener = listens(@)]
          IN Commits(Command, "first", [truth EXCEPT !.content = content, !.heard = listens(@)],
                     a, content, FALSE)
  BY DEF FirstPassAtThePrompt
<1> DEFINE listens(old) == [r \in Rows |-> IF r \in accepted THEN a ELSE old[r]]
           content == [truth.content EXCEPT !.listener = listens(@)]
           heard == listens(truth.heard)
           updated == [truth EXCEPT !.content = content, !.heard = heard]
<1>2. MayPass("first") /\ UNCHANGED diskVars /\ UNCHANGED shown /\ window' \in [Windows -> Views]
  BY DEF FirstPassAtThePrompt, PairInv, PairTypes
<1>3. truth \in ToldTruths
  BY <1>2 DEF PairInv, PairTypes, MayPass, Ready
<1>4. a \in People /\ Command \in Windows \cup {Command} /\ "first" \in Passes /\ FALSE \in BOOLEAN
  BY DEF People, Passes
<1>5. \A old \in [Rows -> People] : listens(old) \in [Rows -> People]
  BY <1>4
<1>6. heard \in [Rows -> People] /\ content \in Told
  BY <1>3, <1>5 DEF ToldTruths, Told, Record
<1>7. /\ updated \in ToldTruths
      /\ \A f \in ToldFiles : f.content = content => Justified(updated, With("first", f))
  BY <1>2, <1>6, FirstIsJustified
<1>8. Commits(Command, "first", updated, a, content, FALSE)
  BY <1>1
<1> HIDE DEF content, updated
<1> QED
  BY <1>2, <1>4, <1>6, <1>7, <1>8, BeginKeeps

LEMMA SaveKeeps ==
    ASSUME PairInv, NEW w \in Windows, Save(w)
    PROVE  PairInv'
<1> DEFINE a == window[w].annotator
<1>1. PICK text \in Texts :
          LET content == [text |-> text, listener |-> By(a)]
          IN Commits(w, "first", [truth EXCEPT !.content = content, !.heard = By(a)],
                     a, content, window[w].visible)
  BY DEF Save
<1> DEFINE content == [text |-> text, listener |-> By(a)]
           updated == [truth EXCEPT !.content = content, !.heard = By(a)]
<1>2. a \in People /\ window[w].visible \in BOOLEAN /\ "first" \in Passes
  BY DEF PairInv, PairTypes, Views, Passes
<1>3. content \in Told /\ By(a) \in [Rows -> People]
  BY <1>2 DEF Told, By
<1>4. MayPass("first") /\ UNCHANGED diskVars /\ UNCHANGED shown
  BY DEF Save
<1>5. window' \in [Windows -> Views]
  <2>1. window' = [window EXCEPT ![w].visible = @ \/ Exposed]
    BY DEF Save
  <2>2. Exposed \in BOOLEAN
    BY DEF Exposed, PairInv, PairTypes, ToldFiles, Annotation
  <2> QED
    BY <2>1, <2>2 DEF PairInv, PairTypes, Views
<1>6. /\ updated \in ToldTruths
      /\ \A f \in ToldFiles : f.content = content => Justified(updated, With("first", f))
  BY <1>3, <1>4, FirstIsJustified
<1> HIDE DEF content, updated
<1> QED
  BY <1>1, <1>2, <1>3, <1>4, <1>5, <1>6, BeginKeeps DEF content, updated

LEMMA SecondPassKeeps ==
    ASSUME PairInv, NEW a \in Annotators, SecondPass(a)
    PROVE  PairInv'
<1> DEFINE first == files["first"]
           content(text) == [text |-> text, listener |-> By(a)]
           outcome(text) == IF Agree(first.content, content(text)) THEN "agreed"
                            ELSE "unresolved"
           updated(text) == [truth EXCEPT !.content = first.content,
                                          !.heard = By(first.annotator),
                                          !.second = a, !.outcome = outcome(text)]
<1>1. PICK text \in Texts :
          Commits(Command, "second", updated(text), a, content(text), FALSE)
  BY DEF SecondPass
<1>2. /\ MayPass("second") /\ UNCHANGED diskVars /\ UNCHANGED shown
      /\ window' \in [Windows -> Views]
  BY DEF SecondPass, PairInv, PairTypes
<1>3. truth \in ToldTruths /\ files \in [Passes -> ToldFiles \cup {NoFile}] /\ first # NoFile
  BY <1>2 DEF SecondPass, MaySecond, Written, PairInv, PairTypes, MayPass, Ready
<1>4. first \in ToldFiles
  BY <1>3 DEF Passes
<1>5. content(text) \in Told /\ a \in People /\ "second" \in Passes /\ FALSE \in BOOLEAN
      /\ Command \in Windows \cup {Command}
  BY DEF Told, By, People, Passes
<1>6. outcome(text) \in {"agreed", "unresolved"}
      /\ (outcome(text) = "agreed" <=> Agree(first.content, content(text)))
  OBVIOUS
<1> HIDE DEF content, outcome
<1>7. /\ updated(text) \in ToldTruths
      /\ updated(text).content = first.content /\ updated(text).second = a
      /\ updated(text).outcome = outcome(text)
  <2>1. By(first.annotator) \in [Rows -> People]
    BY <1>4 DEF By, ToldFiles, Annotation
  <2>2. first.content \in Told /\ first.content \in Content
    BY <1>4 DEF ToldFiles, Annotation
  <2> QED
    BY <1>3, <1>5, <1>6, <2>1, <2>2 DEF ToldTruths, Record
<1> HIDE DEF updated
<1>8. \A f \in ToldFiles : f.content = content(text) /\ f.annotator = a
                               => Justified(updated(text), With("second", f))
  <2> SUFFICES ASSUME NEW f \in ToldFiles, f.content = content(text), f.annotator = a
               PROVE  Justified(updated(text), With("second", f))
    OBVIOUS
  <2>1. files["resolution"] = NoFile
    BY <1>2 DEF MayPass, NoLaterPass, Written
  <2>2. /\ With("second", f)["second"] = f /\ With("second", f)["first"] = first
        /\ With("second", f)["resolution"] = NoFile
    BY <1>3, <2>1 DEF With, Passes
  <2>3. f # NoFile
    BY NothingSaidIsTold
  <2> QED
    BY <1>6, <1>7, <2>2, <2>3 DEF Justified, Passes
<1>9. PICK u \in ToldTruths, c \in Told : u = updated(text) /\ c = content(text)
  BY <1>5, <1>7
<1>10. /\ Commits(Command, "second", u, a, c, FALSE)
       /\ \A f \in ToldFiles : f.content = c /\ f.annotator = a => Justified(u, With("second", f))
  BY <1>1, <1>8, <1>9
<1> QED
  BY <1>2, <1>5, <1>10, BeginKeeps

LEMMA ResolveKeeps ==
    ASSUME PairInv, NEW a \in Annotators, Resolve(a)
    PROVE  PairInv'
<1> DEFINE first == files["first"]
           second == files["second"]
           content(text) == [text |-> text, listener |-> By(a)]
           updated(text) == [truth EXCEPT !.content = content(text),
                                          !.heard = By(first.annotator),
                                          !.second = second.annotator, !.outcome = a]
<1>1. PICK text \in Texts :
          Commits(Command, "resolution", updated(text), a, content(text), FALSE)
  BY DEF Resolve
<1>2. /\ MayPass("resolution") /\ UNCHANGED diskVars /\ UNCHANGED shown
      /\ window' \in [Windows -> Views]
  BY DEF Resolve, PairInv, PairTypes
<1>3. /\ truth \in ToldTruths /\ files \in [Passes -> ToldFiles \cup {NoFile}]
      /\ first # NoFile /\ second # NoFile
  BY <1>2 DEF Resolve, Written, PairInv, PairTypes, MayPass, Ready
<1>4. first \in ToldFiles /\ second \in ToldFiles
  BY <1>3 DEF Passes
<1>5. content(text) \in Told /\ a \in People /\ "resolution" \in Passes /\ FALSE \in BOOLEAN
      /\ Command \in Windows \cup {Command}
  BY DEF Told, By, People, Passes
<1> HIDE DEF content
<1>6. /\ updated(text) \in ToldTruths
      /\ updated(text).content = content(text) /\ updated(text).outcome = a
  <2>1. By(first.annotator) \in [Rows -> People] /\ second.annotator \in People
    BY <1>4 DEF By, ToldFiles, Annotation
  <2>2. content(text) \in Content
    BY <1>5 DEF Told, Content
  <2> QED
    BY <1>3, <1>5, <2>1, <2>2 DEF ToldTruths, Record
<1> HIDE DEF updated
<1>7. \A f \in ToldFiles : f.content = content(text) /\ f.annotator = a
                               => Justified(updated(text), With("resolution", f))
  <2> SUFFICES ASSUME NEW f \in ToldFiles, f.content = content(text), f.annotator = a
               PROVE  Justified(updated(text), With("resolution", f))
    OBVIOUS
  <2>1. With("resolution", f)["resolution"] = f
    BY <1>3 DEF With, Passes
  <2>2. f # NoFile
    BY NothingSaidIsTold
  <2> QED
    BY <1>6, <2>1, <2>2 DEF Justified, Passes
<1> QED
  BY <1>1, <1>2, <1>5, <1>6, <1>7, BeginKeeps

-----------------------------------------------------------------------------
\* The steps of a write, of its undoing, and of a recovery.

LEMMA WriteJournalKeeps == ASSUME PairInv, WriteJournal PROVE PairInv'
<1> DEFINE p == plan.pass
<1>1. /\ step = "journal" /\ step' = "file"
      /\ UNCHANGED <<truth, files, sidecar, ledger, holder, plan, window, shown>>
      /\ journal' = [pass |-> p, oldTruth |-> truth, oldFile |-> files[p],
                     newTruth |-> plan.truth, newFile |-> plan.file]
  BY DEF WriteJournal
<1>2. /\ journal = NoJournal /\ truth # NoTruth /\ plan # NoPlan
      /\ Justified(plan.truth, With(p, plan.file)) /\ Justified(truth, files)
  BY <1>1 DEF PairInv, PlanIsWhole, RestIsWhole
<1>3. /\ p \in Passes /\ plan.truth \in ToldTruths /\ plan.file \in ToldFiles
      /\ truth \in ToldTruths /\ files \in [Passes -> ToldFiles \cup {NoFile}]
  BY <1>2 DEF PairInv, PairTypes
<1>4. files[p] \in ToldFiles \cup {NoFile} /\ With(p, files[p]) = files
  BY <1>3, WithItself
<1>5. /\ journal'.pass = p /\ journal'.oldTruth = truth /\ journal'.oldFile = files[p]
      /\ journal'.newTruth = plan.truth /\ journal'.newFile = plan.file
  BY <1>1
<1>6. journal' # NoJournal
  BY <1>3, <1>5, NoJournalHasNoPass
<1>7. PairTypes'
  BY <1>1, <1>3, <1>4, <1>5 DEF PairInv, PairTypes, Steps
<1>8. JournalIsWhole'
  BY <1>1, <1>2, <1>4, <1>5 DEF JournalIsWhole, With
<1>9. RestIsWhole' /\ PlanIsWhole' /\ WriteIsAt'
  BY <1>1, <1>2, <1>5, <1>6 DEF RestIsWhole, PlanIsWhole, WriteIsAt, InWrite, InUndo
<1> QED
  BY <1>7, <1>8, <1>9 DEF PairInv

\* A file of the journal's pass is replaced, by either end.
LEMMA WithOver ==
    ASSUME files \in [Passes -> ToldFiles \cup {NoFile}], NEW p \in Passes,
           NEW f, NEW g, files' = [files EXCEPT ![p] = f]
    PROVE  With(p, g)' = With(p, g) /\ files'[p] = f
BY DEF With

LEMMA WriteFileKeeps == ASSUME PairInv, WriteFile PROVE PairInv'
<1>1. /\ step = "file" /\ step' = "record" /\ files' = [files EXCEPT ![plan.pass] = plan.file]
      /\ UNCHANGED <<truth, journal, sidecar, ledger, holder, plan, window, shown>>
  BY DEF WriteFile
<1>2. /\ journal # NoJournal /\ plan.pass = journal.pass /\ plan # NoPlan
      /\ plan.truth = journal.newTruth /\ plan.file = journal.newFile
  BY <1>1 DEF PairInv, WriteIsAt, InWrite
<1>3. /\ journal.pass \in Passes /\ journal.newFile \in ToldFiles
      /\ files \in [Passes -> ToldFiles \cup {NoFile}]
  BY <1>2 DEF PairInv, PairTypes
<1>4. files' \in [Passes -> ToldFiles \cup {NoFile}] /\ files'[journal.pass] = journal.newFile
  BY <1>1, <1>2, <1>3
<1>5. PairTypes'
  BY <1>1, <1>4 DEF PairInv, PairTypes, Steps
<1>6. \A g : With(journal.pass, g)' = With(journal.pass, g)
  BY <1>1, <1>2, <1>3, WithOver
<1>7. JournalIsWhole'
  BY <1>1, <1>2, <1>6 DEF PairInv, JournalIsWhole
<1>8. RestIsWhole' /\ PlanIsWhole' /\ WriteIsAt'
  BY <1>1, <1>2, <1>4 DEF RestIsWhole, PlanIsWhole, WriteIsAt, InWrite, InUndo
<1> QED
  BY <1>5, <1>7, <1>8 DEF PairInv

LEMMA UndoFileKeeps == ASSUME PairInv, UndoFile PROVE PairInv'
<1>1. /\ step = "undoFile" /\ step' = "undoRecord"
      /\ files' = [files EXCEPT ![journal.pass] = journal.oldFile]
      /\ UNCHANGED <<truth, journal, sidecar, ledger, holder, plan, window, shown>>
  BY DEF UndoFile
<1>2. journal # NoJournal
  BY <1>1 DEF PairInv, WriteIsAt, InUndo
<1>3. /\ journal.pass \in Passes /\ journal.oldFile \in ToldFiles \cup {NoFile}
      /\ files \in [Passes -> ToldFiles \cup {NoFile}]
  BY <1>2 DEF PairInv, PairTypes
<1>4. files' \in [Passes -> ToldFiles \cup {NoFile}] /\ files'[journal.pass] = journal.oldFile
  BY <1>1, <1>3
<1>5. PairTypes'
  BY <1>1, <1>4 DEF PairInv, PairTypes, Steps
<1>6. \A g : With(journal.pass, g)' = With(journal.pass, g)
  BY <1>1, <1>3, WithOver
<1>7. JournalIsWhole'
  BY <1>1, <1>2, <1>6 DEF PairInv, JournalIsWhole
<1>8. RestIsWhole' /\ PlanIsWhole' /\ WriteIsAt'
  BY <1>1, <1>2, <1>4 DEF RestIsWhole, PlanIsWhole, WriteIsAt, InWrite, InUndo
<1> QED
  BY <1>5, <1>7, <1>8 DEF PairInv

LEMMA WriteRecordKeeps == ASSUME PairInv, WriteRecord PROVE PairInv'
<1>1. /\ step = "record" /\ step' = "clear" /\ truth' = plan.truth
      /\ UNCHANGED <<files, journal, sidecar, ledger, holder, plan, window, shown>>
  BY DEF WriteRecord
<1>2. /\ journal # NoJournal /\ plan # NoPlan /\ plan.pass = journal.pass
      /\ plan.truth = journal.newTruth /\ plan.file = journal.newFile
      /\ files[journal.pass] = journal.newFile
  BY <1>1 DEF PairInv, WriteIsAt, InWrite
<1>3. PairTypes'
  BY <1>1, <1>2 DEF PairInv, PairTypes, Steps
<1>4. JournalIsWhole'
  BY <1>1, <1>2 DEF PairInv, JournalIsWhole, With
<1>5. RestIsWhole' /\ PlanIsWhole' /\ WriteIsAt'
  BY <1>1, <1>2 DEF RestIsWhole, PlanIsWhole, WriteIsAt, InWrite, InUndo
<1> QED
  BY <1>3, <1>4, <1>5 DEF PairInv

LEMMA UndoRecordKeeps == ASSUME PairInv, UndoRecord PROVE PairInv'
<1>1. /\ step = "undoRecord" /\ step' = "undoClear" /\ truth' = journal.oldTruth
      /\ UNCHANGED <<files, journal, sidecar, ledger, holder, plan, window, shown>>
  BY DEF UndoRecord
<1>2. journal # NoJournal /\ files[journal.pass] = journal.oldFile
  BY <1>1 DEF PairInv, WriteIsAt, InUndo
<1>3. PairTypes'
  BY <1>1, <1>2 DEF PairInv, PairTypes, Steps
<1>4. JournalIsWhole'
  BY <1>1, <1>2 DEF PairInv, JournalIsWhole, With
<1>5. RestIsWhole' /\ PlanIsWhole' /\ WriteIsAt'
  BY <1>1, <1>2 DEF RestIsWhole, PlanIsWhole, WriteIsAt, InWrite, InUndo
<1> QED
  BY <1>3, <1>4, <1>5 DEF PairInv

\* The journal goes: the pair on the disk is one end of it.
LEMMA ClearingKeeps ==
    ASSUME PairInv, journal # NoJournal, journal' = NoJournal,
           \/ truth = journal.newTruth /\ files[journal.pass] = journal.newFile
           \/ truth = journal.oldTruth /\ files[journal.pass] = journal.oldFile,
           UNCHANGED <<truth, files>>, step' = "free", PairTypes'
    PROVE  PairInv'
<1>1. /\ journal.pass \in Passes /\ truth \in ToldTruths
      /\ files \in [Passes -> ToldFiles \cup {NoFile}]
  BY DEF PairInv, PairTypes
<1>2. With(journal.pass, files[journal.pass]) = files
  BY <1>1, WithItself
<1>3. Justified(truth, files)
  BY <1>2 DEF PairInv, JournalIsWhole
<1>4. truth # NoTruth
  BY <1>1, NothingSaidIsTold
<1> QED
  BY <1>3, <1>4 DEF PairInv, RestIsWhole, PlanIsWhole, JournalIsWhole, WriteIsAt, InWrite, InUndo

LEMMA ClearJournalKeeps == ASSUME PairInv, ClearJournal PROVE PairInv'
<1>1. /\ step = "clear" /\ step' = "free" /\ journal' = NoJournal /\ holder' = Nobody
      /\ plan' = NoPlan /\ UNCHANGED <<truth, files, sidecar, ledger, shown>>
      /\ window' = [w \in Windows |-> IF w # holder THEN window[w]
                        ELSE [window[w] EXCEPT !.digest = truth]]
  BY DEF ClearJournal, Release
<1>2. /\ journal # NoJournal /\ truth = journal.newTruth
      /\ files[journal.pass] = journal.newFile
  BY <1>1 DEF PairInv, WriteIsAt, InWrite
<1>3. truth \in Record
  BY NothingIsTyped DEF PairInv, PairTypes, ToldTruths
<1>4. window' \in [Windows -> Views]
  BY <1>1, <1>3 DEF PairInv, PairTypes, Views
<1>5. PairTypes'
  BY <1>1, <1>4 DEF PairInv, PairTypes, Steps
<1> QED
  BY <1>1, <1>2, <1>5, ClearingKeeps

LEMMA UndoClearKeeps == ASSUME PairInv, UndoClear PROVE PairInv'
<1>1. /\ step = "undoClear" /\ step' = "free" /\ journal' = NoJournal /\ holder' = Nobody
      /\ plan' = NoPlan /\ UNCHANGED <<truth, files, sidecar, ledger, window, shown>>
  BY DEF UndoClear, Release
<1>2. /\ journal # NoJournal /\ truth = journal.oldTruth
      /\ files[journal.pass] = journal.oldFile
  BY <1>1 DEF PairInv, WriteIsAt, InUndo
<1>3. PairTypes'
  BY <1>1 DEF PairInv, PairTypes, Steps
<1> QED
  BY <1>1, <1>2, <1>3, ClearingKeeps

-----------------------------------------------------------------------------
\* Steps that touch none of the files of the pair.

LEMMA QuietKeeps ==
    ASSUME PairInv, PairTypes', UNCHANGED <<truth, files, journal>>,
           \/ UNCHANGED <<step, plan>>
           \/ step' = "undoFile" /\ journal # NoJournal
           \/ step' \in {"free", "sidecar", "ledger", "show"}
    PROVE  PairInv'
<1>1. RestIsWhole' /\ JournalIsWhole'
  BY DEF PairInv, RestIsWhole, JournalIsWhole, With
<1>2. PlanIsWhole'
  BY DEF PairInv, PlanIsWhole, With
<1>3. WriteIsAt'
  BY DEF PairInv, WriteIsAt, InWrite, InUndo
<1> QED
  BY <1>1, <1>2, <1>3 DEF PairInv

LEMMA RecoverKeeps == ASSUME PairInv, Recover PROVE PairInv'
<1>1. /\ step = "free" /\ journal # NoJournal
      /\ UNCHANGED <<truth, files, sidecar, ledger, plan, window, shown>>
  BY DEF Recover
<1>2. CASE Completed /\ journal' = NoJournal /\ UNCHANGED <<holder, step>>
  <2>1. PairTypes'
    BY <1>1, <1>2 DEF PairInv, PairTypes
  <2> QED
    BY <1>1, <1>2, <2>1, ClearingKeeps DEF Completed
<1>3. CASE holder' = Command /\ step' = "undoFile" /\ UNCHANGED journal
  <2>1. Command # Nobody
    BY NamesAreTheirs DEF Command, Nobody
  <2>2. PairTypes'
    BY <1>1, <1>3, <2>1 DEF PairInv, PairTypes, Steps
  <2> QED
    BY <1>1, <1>3, <2>2, QuietKeeps
<1> QED
  BY <1>2, <1>3 DEF Recover

LEMMA ExposureKeeps ==
    ASSUME PairInv,
           WriteSidecar \/ AppendLedger \/ ShowPredictions \/ Tidy
               \/ \E w \in Windows : Reveal(w)
    PROVE  PairInv'
<1>1. Nobody \notin Windows
  BY NamesAreTheirs DEF Nobody
<1>2. CASE WriteSidecar
  BY <1>2, QuietKeeps DEF WriteSidecar, PairInv, PairTypes, Steps
<1>3. CASE AppendLedger
  <2>1. window' \in [Windows -> Views] /\ ledger' \in BOOLEAN
    BY <1>3 DEF AppendLedger, PairInv, PairTypes, Views
  <2> QED
    BY <1>3, <2>1, QuietKeeps DEF AppendLedger, PairInv, PairTypes, Steps
<1>4. CASE ShowPredictions
  <2>1. sidecar' \in BOOLEAN /\ shown' \in BOOLEAN
    BY <1>4 DEF ShowPredictions, PairInv, PairTypes
  <2>2. /\ holder' = Nobody /\ step' = "free" /\ plan' = NoPlan
        /\ UNCHANGED <<truth, files, journal, ledger, window>>
    BY <1>4 DEF ShowPredictions, Release
  <2>3. PairTypes'
    BY <2>1, <2>2 DEF PairInv, PairTypes, Steps
  <2> QED
    BY <2>2, <2>3, QuietKeeps
<1>5. CASE Tidy
  BY <1>5, QuietKeeps DEF Tidy, PairInv, PairTypes
<1>6. CASE \E w \in Windows : Reveal(w)
  <2>1. /\ holder' \in Windows /\ step' = "sidecar"
        /\ UNCHANGED <<truth, files, journal, sidecar, ledger, plan, window, shown>>
    BY <1>6 DEF Reveal, diskVars
  <2>2. PairTypes'
    BY <1>1, <2>1 DEF PairInv, PairTypes, Steps
  <2> QED
    BY <2>1, <2>2, QuietKeeps
<1> QED
  BY <1>2, <1>3, <1>4, <1>5, <1>6

LEMMA FaultKeeps == ASSUME PairInv, StepFails \/ ToolDies PROVE PairInv'
<1>1. CASE /\ step \in {"file", "record", "clear"} /\ step' = "undoFile"
           /\ UNCHANGED <<diskVars, holder, plan, window, shown>>
  <2>1. journal # NoJournal
    BY <1>1 DEF PairInv, WriteIsAt, InWrite
  <2>2. PairTypes'
    BY <1>1 DEF PairInv, PairTypes, Steps, diskVars
  <2> QED
    BY <1>1, <2>1, <2>2, QuietKeeps DEF diskVars
<1>2. CASE Release /\ UNCHANGED <<diskVars, shown>> /\ window' \in [Windows -> Views]
  <2>1. PairTypes'
    BY <1>2 DEF PairInv, PairTypes, Steps, diskVars, Release
  <2> QED
    BY <1>2, <2>1, QuietKeeps DEF diskVars, Release
<1>3. CASE StepFails
  BY <1>1, <1>2, <1>3 DEF StepFails, PairInv, PairTypes
<1>4. CASE ToolDies
  <2>1. window' \in [Windows -> Views]
    BY <1>4, ClosedIsView DEF ToolDies, PairInv, PairTypes
  <2> QED
    BY <1>2, <1>4, <2>1 DEF ToolDies
<1> QED
  BY <1>3, <1>4

LEMMA WindowKeeps ==
    ASSUME PairInv, NEW w \in Windows,
           \/ ReadDigest(w) \/ CloseReview(w)
           \/ \E a \in Annotators : OpenReview(w, a)
    PROVE  PairInv'
<1>1. UNCHANGED <<truth, files, journal, sidecar, ledger, holder, step, plan, shown>>
  BY DEF ReadDigest, CloseReview, OpenReview, diskVars
<1>2. truth \in Record /\ window \in [Windows -> Views] /\ Exposed \in BOOLEAN
  BY NothingIsTyped
  DEF PairInv, PairTypes, ToldTruths, Exposed, ToldFiles, Annotation
<1>3. window' \in [Windows -> Views]
  <2>1. CASE ReadDigest(w)
    BY <1>2, <2>1 DEF ReadDigest, Views
  <2>2. CASE CloseReview(w)
    BY <1>2, <2>2, ClosedIsView DEF CloseReview
  <2>3. CASE \E a \in Annotators : OpenReview(w, a)
    <3>1. PICK a \in Annotators :
              window' = [window EXCEPT ![w] = [Closed EXCEPT !.open = "opening",
                                                  !.annotator = a, !.digest = truth]]
      BY <2>3 DEF OpenReview
    <3>2. a \in People
      BY DEF People
    <3>3. [Closed EXCEPT !.open = "opening", !.annotator = a, !.digest = truth] \in Views
      BY <1>2, <3>2 DEF Closed, Views
    <3> QED
      BY <1>2, <3>1, <3>3
  <2> QED
    BY <2>1, <2>2, <2>3
<1>4. PairTypes'
  BY <1>1, <1>3 DEF PairInv, PairTypes
<1> QED
  BY <1>1, <1>4, QuietKeeps

-----------------------------------------------------------------------------
\* A set begins, and begins again.

LEMMA BareIsWhole == ASSUME NEW text, NEW t,
                            t = [NoTruth EXCEPT !.outcome = "none", !.content.text = text]
                     PROVE  Draft(t) /\ Justified(t, NoFiles)
<1>1. t.heard = By(Nobody)
  BY DEF NoTruth
<1>2. Draft(t)
  BY <1>1 DEF Draft, By
<1>3. \A p \in Passes : NoFiles[p] = NoFile
  BY DEF NoFiles
<1>4. {"first", "second", "resolution"} \subseteq Passes
  BY DEF Passes
<1> QED
  BY <1>2, <1>3, <1>4 DEF Justified

LEMMA SeedKeeps == ASSUME PairInv, Seed PROVE PairInv'
<1>1. PICK text \in Texts :
          truth' = [NoTruth EXCEPT !.outcome = "none", !.content.text = text]
  BY DEF Seed
<1>2. /\ step = "free" /\ files = NoFiles /\ journal = NoJournal
      /\ UNCHANGED <<files, journal, sidecar, ledger, holder, step, plan, window, shown>>
  BY DEF Seed
<1>3. Draft(truth') /\ Justified(truth', files)
  BY <1>1, <1>2, BareIsWhole
<1>4. truth' \in ToldTruths
  <2>1. [NoTruth.content EXCEPT !.text = text] \in Told /\ NoTruth.content \in Content
    BY DEF NoTruth, Unwritten, Told, By, People, Content
  <2>2. [NoTruth.content EXCEPT !.text = text] \in Content
    BY <2>1 DEF Content
  <2>3. /\ truth'.content = [NoTruth.content EXCEPT !.text = text]
        /\ truth' \in Record
    BY <1>1, <2>2, NothingIsTyped DEF Record
  <2> QED
    BY <2>1, <2>3 DEF ToldTruths
<1>5. PairTypes' /\ truth' # NoTruth
  BY <1>2, <1>4, NothingSaidIsTold DEF PairInv, PairTypes
<1> QED
  BY <1>2, <1>3, <1>5
  DEF PairInv, RestIsWhole, PlanIsWhole, JournalIsWhole, WriteIsAt, InWrite, InUndo

LEMMA StartOverKeeps == ASSUME PairInv, StartOver PROVE PairInv'
<1>1. /\ step = "free" /\ truth' = NoTruth /\ files' = NoFiles /\ journal' = NoJournal
      /\ sidecar' = FALSE /\ UNCHANGED <<ledger, holder, step, plan, window, shown>>
  BY DEF StartOver
<1>2. NoFiles \in [Passes -> ToldFiles \cup {NoFile}]
  BY DEF NoFiles
<1>3. PairTypes'
  BY <1>1, <1>2 DEF PairInv, PairTypes
<1> QED
  BY <1>1, <1>3
  DEF PairInv, RestIsWhole, PlanIsWhole, JournalIsWhole, WriteIsAt, InWrite, InUndo

-----------------------------------------------------------------------------
LEMMA InitPair == TruthInit => PairInv
<1> SUFFICES ASSUME TruthInit PROVE PairInv
  OBVIOUS
<1>1. /\ truth = NoTruth /\ files = NoFiles /\ journal = NoJournal /\ plan = NoPlan
      /\ step = "free" /\ holder = Nobody
      /\ window = [w \in Windows |-> Closed]
      /\ sidecar = FALSE /\ ledger = FALSE /\ shown = FALSE
  BY DEF TruthInit
<1>2. NoFiles \in [Passes -> ToldFiles \cup {NoFile}]
  BY DEF NoFiles
<1>3. PairTypes
  BY <1>1, <1>2, ClosedIsView DEF PairTypes, Steps
<1> QED
  BY <1>1, <1>3
  DEF PairInv, RestIsWhole, PlanIsWhole, JournalIsWhole, WriteIsAt, InWrite, InUndo

LEMMA StepPair == PairInv /\ [TruthNext]_truthVars => PairInv'
<1> SUFFICES ASSUME PairInv, [TruthNext]_truthVars PROVE PairInv'
  OBVIOUS
<1>1. CASE UNCHANGED truthVars
  <2>1. PairTypes' /\ UNCHANGED <<truth, files, journal, step, plan>>
    BY <1>1 DEF PairInv, PairTypes, truthVars, diskVars
  <2> QED
    BY <2>1, QuietKeeps
<1>2. CASE WriteJournal \/ WriteFile \/ WriteRecord \/ ClearJournal
  BY <1>2, WriteJournalKeeps, WriteFileKeeps, WriteRecordKeeps, ClearJournalKeeps
<1>3. CASE UndoFile \/ UndoRecord \/ UndoClear \/ Recover
  BY <1>3, UndoFileKeeps, UndoRecordKeeps, UndoClearKeeps, RecoverKeeps
<1>4. CASE WriteSidecar \/ AppendLedger \/ ShowPredictions \/ Tidy
               \/ \E w \in Windows : Reveal(w)
  BY <1>4, ExposureKeeps
<1>5. CASE StepFails \/ ToolDies \/ StartOver \/ Seed
  BY <1>5, FaultKeeps, StartOverKeeps, SeedKeeps
<1>6. CASE \E a \in Annotators :
              FirstPass(a) \/ FirstPassAtThePrompt(a) \/ SecondPass(a) \/ Resolve(a)
  BY <1>6, FirstPassKeeps, PromptKeeps, SecondPassKeeps, ResolveKeeps
<1>7. CASE \E w \in Windows :
              ReadDigest(w) \/ CloseReview(w) \/ \E a \in Annotators : OpenReview(w, a)
  BY <1>7, WindowKeeps
<1>8. CASE \E w \in Windows : Save(w)
  BY <1>8, SaveKeeps
<1> QED
  BY <1>1, <1>2, <1>3, <1>4, <1>5, <1>6, <1>7, <1>8 DEF TruthNext

\* The strengthened invariant: either end of a write in progress is whole, and how far it or
\* its undoing has come says which file is at which end.
THEOREM EitherEndIsWhole == TruthSpec => []PairInv
BY InitPair, StepPair, PTL DEF TruthSpec

\* Every variable of a set has its type.
THEOREM TruthTypes == TruthSpec => []TruthTypeOK
<1>1. PairInv => TruthTypeOK
  <2> SUFFICES ASSUME PairInv PROVE TruthTypeOK
    OBVIOUS
  <2>1. truth \in Record /\ files \in [Passes -> Annotation]
    BY NothingIsTyped DEF PairInv, PairTypes, ToldTruths, ToldFiles
  <2>2. journal.pass \in Passes \cup {"none"}
    BY DEF PairInv, PairTypes, NoJournal
  <2>3. \A w \in Windows : window[w].open \in {"no", "opening", "yes"}
    BY DEF PairInv, PairTypes, Views
  <2> QED
    BY <2>1, <2>2, <2>3 DEF PairInv, PairTypes, TruthTypeOK
<1> QED
  BY <1>1, EitherEndIsWhole, PTL

\* When no write is pending, the truth is what its newest pass justifies, whatever failed, died
\* and was recovered in between.
THEOREM TruthIsItsPass == TruthSpec => []PairIsWhole
<1>1. PairInv => PairIsWhole
  <2> SUFFICES ASSUME PairInv, journal = NoJournal, truth # NoTruth PROVE PairIsWhole
    BY DEF PairIsWhole
  <2>1. Justified(truth, files)
    BY DEF PairInv, RestIsWhole
  <2> QED
    BY <2>1 DEF Justified, PairIsWhole, Written, Passes
<1> QED
  BY <1>1, EitherEndIsWhole, PTL

-----------------------------------------------------------------------------
\* What the ledger knows.

LEMMA StepSeen == SeenIsInLedger /\ [TruthNext]_truthVars => SeenIsInLedger'
<1> SUFFICES ASSUME SeenIsInLedger, [TruthNext]_truthVars PROVE SeenIsInLedger'
  OBVIOUS
<1>1. CASE AppendLedger
  BY <1>1 DEF SeenIsInLedger, AppendLedger, InLedger
<1>2. CASE ShowPredictions
  BY <1>2 DEF SeenIsInLedger, ShowPredictions, Release
<1>3. CASE UNCHANGED <<shown, ledger>> /\ (step' = step \/ step' # "show")
  BY <1>3 DEF SeenIsInLedger
<1>4. CASE ~AppendLedger /\ ~ShowPredictions
  <2>1. CASE UNCHANGED truthVars
    BY <1>3, <2>1 DEF truthVars, diskVars
  <2>2. CASE WriteSidecar \/ WriteJournal \/ WriteFile \/ WriteRecord \/ ClearJournal
    BY <1>3, <2>2 DEF WriteSidecar, WriteJournal, WriteFile, WriteRecord, ClearJournal, Release
  <2>3. CASE UndoFile \/ UndoRecord \/ UndoClear \/ StepFails \/ ToolDies \/ Tidy
    BY <1>3, <2>3
    DEF UndoFile, UndoRecord, UndoClear, StepFails, ToolDies, Tidy, Release, diskVars
  <2>4. CASE StartOver \/ Seed \/ Recover
    BY <1>3, <2>4 DEF StartOver, Seed, Recover
  <2>5. CASE \E a \in Annotators :
                FirstPass(a) \/ FirstPassAtThePrompt(a) \/ SecondPass(a) \/ Resolve(a)
    BY <1>3, <2>5
    DEF FirstPass, FirstPassAtThePrompt, SecondPass, Resolve, Commits, diskVars
  <2>6. CASE \E w \in Windows :
                \/ ReadDigest(w) \/ CloseReview(w) \/ Save(w) \/ Reveal(w)
                \/ \E a \in Annotators : OpenReview(w, a)
    BY <1>3, <2>6
    DEF ReadDigest, CloseReview, Save, Reveal, OpenReview, Commits, diskVars
  <2> QED
    BY <1>4, <2>1, <2>2, <2>3, <2>4, <2>5, <2>6 DEF TruthNext
<1> QED
  BY <1>1, <1>2, <1>4

\* Once the predictions were on a screen the set never counts as independent again.
THEOREM SeenIsSeen == TruthSpec => []ShownIsRecorded
<1>1. TruthInit => SeenIsInLedger
  BY DEF TruthInit, SeenIsInLedger
<1>2. SeenIsInLedger => ShownIsRecorded
  BY DEF SeenIsInLedger, ShownIsRecorded, Exposed
<1> QED
  BY <1>1, <1>2, StepSeen, PTL DEF TruthSpec

-----------------------------------------------------------------------------
(* Backup: what every process leaves behind when it dies. *)

USE DEF measures

Stagings == [journal : {"none", "staged", "publishing", "committed", "rolled-back"},
             contents : [Tree -> Version], skipped : SUBSET Files, fresh : SUBSET Tree,
             waiting : SUBSET Tree, kept : [Tree -> Version]]
Restores == [at : {"idle", "recovering", "staged", "publishing", "undoing", "leaving"},
             published : SUBSET Tree, replaced : SUBSET Tree, incomplete : BOOLEAN]
Captures == [at : {"idle", "view", "copy", "seal"}, attempt : 1..2, database : Version,
             skipped : SUBSET Files, view : [Files -> Version], copied : SUBSET Files]
Snapshots == [files : [Files -> Version], skipped : SUBSET Files, database : Version]

\* A restore, a server, a pass and a backup that is followed keep out of each other's way.
TheyExclude ==
    /\ Restoring => server \in {"off", "opened"} /\ ~Followed
    /\ Followed => ~Publishing
    /\ writing # "nothing" => server = "serving"
    /\ server = "serving" => staging.journal = "none"

\* What a backup goes by was seen while nobody wrote.
ViewsAreMoments ==
    /\ Followed /\ writing = "nothing" => OfMix(disk) \in moments
    /\ capture.at = "copy" => capture.view \in moments
    /\ capture.at = "seal" => capture.skipped # {}

SnapshotInv == BackupTypeOK /\ TheyExclude /\ ViewsAreMoments

LEMMA EmptyTreesAre ==
    /\ NoStaging \in Stagings /\ NoRestore \in Restores /\ NoCapture \in Captures
    /\ NoStaging.journal = "none" /\ NoRestore.at = "idle" /\ NoCapture.at = "idle"
    /\ NoSnapshot \in Snapshots /\ NoSnapshot.database = 0
    /\ 0 \in Version /\ 1 \in Version /\ Version \subseteq Nat /\ Files \subseteq Tree
<1>1. 0 \in Version /\ 1 \in Version /\ Version \subseteq Nat /\ Files \subseteq Tree
  BY BackupBounded DEF Version, Tree
<1>2. /\ [x \in Tree |-> 0] \in [Tree -> Version] /\ [x \in Files |-> 0] \in [Files -> Version]
  BY <1>1
<1>3. NoStaging \in Stagings /\ NoStaging.journal = "none"
  BY <1>2 DEF NoStaging, Stagings
<1>4. NoRestore \in Restores /\ NoRestore.at = "idle"
  BY DEF NoRestore, Restores
<1>5. NoCapture \in Captures /\ NoCapture.at = "idle"
  BY <1>1, <1>2 DEF NoCapture, Captures
<1>6. NoSnapshot \in Snapshots /\ NoSnapshot.database = 0
  BY <1>1, <1>2 DEF NoSnapshot, Snapshots
<1> QED
  BY <1>1, <1>3, <1>4, <1>5, <1>6

LEMMA MixOfIs == ASSUME NEW tree \in [Tree -> Version] PROVE OfMix(tree) \in [Files -> Version]
BY EmptyTreesAre DEF OfMix

\* The steps of the restore, field by field.

LEMMA UndoIs ==
    ASSUME BackupTypeOK, Undo
    PROVE  /\ Recovers /\ Publishing
           /\ UNCHANGED <<restorer, server, writing, versions, capture, snapshot, before, goal>>
           /\ disk' \in [Tree -> Version] /\ staging' \in Stagings
           /\ UNCHANGED <<staging.contents, staging.skipped, staging.fresh, staging.waiting>>
           /\ \/ /\ UNCHANGED staging
                 /\ \E x \in staging.fresh : disk' = [disk EXCEPT ![x] = 0]
              \/ /\ ToRemove = {} /\ UNCHANGED staging.journal
                 /\ \E x \in Tree : /\ staging.kept[x] # 0
                                    /\ disk' = [disk EXCEPT ![x] = staging.kept[x]]
                                    /\ staging'.kept = [staging.kept EXCEPT ![x] = 0]
              \/ /\ ToRemove = {} /\ There(staging.kept) = {}
                 /\ staging'.journal = "rolled-back" /\ UNCHANGED <<disk, staging.kept>>
                 /\ astray' = {}
           /\ astray' \in {astray, {}} /\ (Publishing' => UNCHANGED astray)
<1>1. Recovers /\ Publishing
      /\ UNCHANGED <<restorer, server, writing, versions, capture, snapshot, before, goal>>
  BY DEF Undo
<1>2. staging \in Stagings /\ disk \in [Tree -> Version] /\ 0 \in Version
  BY EmptyTreesAre DEF BackupTypeOK, Stagings
<1>3. CASE \E x \in ToRemove : disk' = [disk EXCEPT ![x] = 0] /\ UNCHANGED <<staging, astray>>
  <2>1. PICK x \in ToRemove : disk' = [disk EXCEPT ![x] = 0] /\ UNCHANGED <<staging, astray>>
    BY <1>3
  <2>2. x \in staging.fresh
    BY <2>1 DEF ToRemove
  <2> QED
    BY <1>1, <1>2, <2>1, <2>2
<1>4. CASE /\ ToRemove = {}
           /\ \E x \in There(staging.kept) :
                 /\ disk' = [disk EXCEPT ![x] = staging.kept[x]]
                 /\ staging' = [staging EXCEPT !.kept[x] = 0]
           /\ UNCHANGED astray
  <2>1. PICK x \in There(staging.kept) : /\ disk' = [disk EXCEPT ![x] = staging.kept[x]]
                                         /\ staging' = [staging EXCEPT !.kept[x] = 0]
    BY <1>4
  <2>2. x \in Tree /\ staging.kept[x] # 0 /\ staging.kept[x] \in Version
    BY <1>2, <2>1 DEF There, Stagings
  <2>3. /\ staging' \in Stagings /\ staging'.kept = [staging.kept EXCEPT ![x] = 0]
        /\ UNCHANGED <<staging.journal, staging.contents, staging.skipped, staging.fresh,
                       staging.waiting>>
    BY <1>2, <2>1, <2>2 DEF Stagings
  <2>4. disk' \in [Tree -> Version]
    BY <1>2, <2>1, <2>2
  <2> QED
    BY <1>1, <1>4, <2>1, <2>2, <2>3, <2>4
<1>5. CASE /\ ToRemove = {} /\ There(staging.kept) = {}
           /\ staging' = [staging EXCEPT !.journal = "rolled-back"] /\ UNCHANGED disk
           /\ astray' = {}
  BY <1>1, <1>2, <1>5 DEF Stagings, Publishing
<1> QED
  BY <1>3, <1>4, <1>5 DEF Undo

\* A move is recorded, or it is astray and the restore gives up.
LEMMA RecordsIs ==
    ASSUME BackupTypeOK, NEW r \in Restores, NEW lost \in SUBSET Tree, Records(r, lost)
    PROVE  /\ restorer' \in Restores /\ astray' \in SUBSET Tree
           /\ \/ restorer' = r /\ UNCHANGED astray
              \/ /\ restorer'.at = "undoing" /\ astray' = astray \cup lost
                 /\ UNCHANGED <<restorer.published, restorer.replaced, restorer.incomplete>>
<1>1. restorer \in Restores /\ astray \in SUBSET Tree
  BY DEF BackupTypeOK, Restores
<1>2. CASE restorer' = r /\ UNCHANGED astray
  BY <1>1, <1>2
<1>3. CASE restorer' = [restorer EXCEPT !.at = "undoing"] /\ astray' = astray \cup lost
  <2>1. restorer' \in Restores
    BY <1>1, <1>3 DEF Restores
  <2> QED
    BY <1>1, <1>3, <2>1 DEF Restores
<1> QED
  BY <1>2, <1>3 DEF Records

LEMMA DisplaceIs ==
    ASSUME BackupTypeOK, NEW x \in Tree, Displace(x)
    PROVE  /\ restorer.at = "publishing" /\ x \in NextUp /\ disk[x] # 0
           /\ UNCHANGED <<server, writing, versions, capture, snapshot, before, goal>>
           /\ disk' = [disk EXCEPT ![x] = 0] /\ disk' \in [Tree -> Version]
           /\ staging' \in Stagings /\ staging'.kept = [staging.kept EXCEPT ![x] = disk[x]]
           /\ UNCHANGED <<staging.journal, staging.contents, staging.skipped, staging.fresh,
                          staging.waiting>>
           /\ restorer' \in Restores /\ restorer'.at \in {"publishing", "undoing"}
           /\ UNCHANGED <<restorer.published, restorer.incomplete>> /\ astray' \in SUBSET Tree
           /\ \/ /\ restorer'.at = "publishing" /\ UNCHANGED astray
                 /\ restorer'.replaced = restorer.replaced \cup {x}
              \/ /\ restorer'.at = "undoing" /\ astray' = astray \cup {x}
                 /\ UNCHANGED restorer.replaced
<1>1. /\ restorer.at = "publishing" /\ x \in NextUp /\ disk[x] # 0
      /\ UNCHANGED <<server, writing, versions, capture, snapshot, before, goal>>
      /\ disk' = [disk EXCEPT ![x] = 0] /\ staging' = [staging EXCEPT !.kept[x] = disk[x]]
      /\ Records([restorer EXCEPT !.replaced = @ \cup {x}], {x})
  BY DEF Displace
<1>2. staging \in Stagings /\ disk \in [Tree -> Version] /\ restorer \in Restores /\ 0 \in Version
      /\ disk[x] \in Version
  BY EmptyTreesAre DEF BackupTypeOK, Stagings, Restores
<1>3. PICK r \in Restores : /\ r = [restorer EXCEPT !.replaced = @ \cup {x}]
                            /\ r.at = restorer.at /\ r.published = restorer.published
                            /\ r.incomplete = restorer.incomplete
                            /\ r.replaced = restorer.replaced \cup {x}
  <2>1. [restorer EXCEPT !.replaced = @ \cup {x}] \in Restores
    BY <1>2 DEF Restores
  <2> QED
    BY <1>2, <2>1 DEF Restores
<1>4. /\ restorer' \in Restores /\ astray' \in SUBSET Tree
      /\ \/ restorer' = r /\ UNCHANGED astray
         \/ /\ restorer'.at = "undoing" /\ astray' = astray \cup {x}
            /\ UNCHANGED <<restorer.published, restorer.replaced, restorer.incomplete>>
  BY <1>1, <1>3, RecordsIs
<1>5. /\ staging' \in Stagings /\ staging'.kept = [staging.kept EXCEPT ![x] = disk[x]]
      /\ UNCHANGED <<staging.journal, staging.contents, staging.skipped, staging.fresh,
                     staging.waiting>>
  BY <1>1, <1>2 DEF Stagings
<1>6. disk' \in [Tree -> Version]
  BY <1>1, <1>2
<1> QED
  BY <1>1, <1>3, <1>4, <1>5, <1>6

LEMMA PutInPlaceIs ==
    ASSUME BackupTypeOK, NEW x \in Tree, PutInPlace(x)
    PROVE  /\ restorer.at = "publishing" /\ x \in staging.waiting /\ disk[x] = 0
           /\ UNCHANGED <<server, writing, versions, capture, snapshot, before, goal>>
           /\ disk' = [disk EXCEPT ![x] = staging.contents[x]] /\ disk' \in [Tree -> Version]
           /\ staging' \in Stagings /\ staging'.waiting = staging.waiting \ {x}
           /\ UNCHANGED <<staging.journal, staging.contents, staging.skipped, staging.fresh,
                          staging.kept>>
           /\ restorer' \in Restores /\ restorer'.at \in {"publishing", "undoing"}
           /\ UNCHANGED <<restorer.replaced, restorer.incomplete>> /\ astray' \in SUBSET Tree
           /\ \/ /\ restorer'.at = "publishing" /\ UNCHANGED astray
                 /\ restorer'.published = restorer.published \cup {x}
              \/ /\ restorer'.at = "undoing" /\ astray' = astray \cup {x}
                 /\ UNCHANGED restorer.published
<1>1. /\ restorer.at = "publishing" /\ x \in staging.waiting /\ disk[x] = 0
      /\ UNCHANGED <<server, writing, versions, capture, snapshot, before, goal>>
      /\ disk' = [disk EXCEPT ![x] = staging.contents[x]]
      /\ staging' = [staging EXCEPT !.waiting = @ \ {x}]
      /\ Records([restorer EXCEPT !.published = @ \cup {x}], {x})
  BY DEF PutInPlace
<1>2. staging \in Stagings /\ disk \in [Tree -> Version] /\ restorer \in Restores
      /\ staging.contents[x] \in Version
  BY DEF BackupTypeOK, Stagings, Restores
<1>3. PICK r \in Restores : /\ r = [restorer EXCEPT !.published = @ \cup {x}]
                            /\ r.at = restorer.at /\ r.replaced = restorer.replaced
                            /\ r.incomplete = restorer.incomplete
                            /\ r.published = restorer.published \cup {x}
  <2>1. [restorer EXCEPT !.published = @ \cup {x}] \in Restores
    BY <1>2 DEF Restores
  <2> QED
    BY <1>2, <2>1 DEF Restores
<1>4. /\ restorer' \in Restores /\ astray' \in SUBSET Tree
      /\ \/ restorer' = r /\ UNCHANGED astray
         \/ /\ restorer'.at = "undoing" /\ astray' = astray \cup {x}
            /\ UNCHANGED <<restorer.published, restorer.replaced, restorer.incomplete>>
  BY <1>1, <1>3, RecordsIs
<1>5. /\ staging' \in Stagings /\ staging'.waiting = staging.waiting \ {x}
      /\ UNCHANGED <<staging.journal, staging.contents, staging.skipped, staging.fresh,
                     staging.kept>>
  BY <1>1, <1>2 DEF Stagings
<1>6. disk' \in [Tree -> Version]
  BY <1>1, <1>2
<1> QED
  BY <1>1, <1>3, <1>4, <1>5, <1>6

LEMMA CommitIs ==
    ASSUME BackupTypeOK, Commit
    PROVE  /\ restorer.at = "publishing" /\ NextUp = {}
           /\ UNCHANGED <<disk, server, writing, versions, capture, snapshot, before, goal>>
           /\ staging' \in Stagings /\ staging'.journal = "committed"
           /\ restorer' \in Restores /\ restorer'.at \in {"leaving", "undoing"}
           /\ UNCHANGED <<restorer.published, restorer.replaced, restorer.incomplete>>
           /\ astray' \in SUBSET Tree
           /\ astray' = IF restorer'.at = "leaving" THEN astray ELSE astray \cup Moved
<1>1. /\ restorer.at = "publishing" /\ NextUp = {}
      /\ UNCHANGED <<disk, server, writing, versions, capture, snapshot, before, goal>>
      /\ staging' = [staging EXCEPT !.journal = "committed"]
      /\ Records([restorer EXCEPT !.at = "leaving"], Moved)
  BY DEF Commit
<1>2. staging \in Stagings /\ restorer \in Restores
  BY DEF BackupTypeOK, Stagings, Restores
<1>3. PICK r \in Restores :
          /\ r = [restorer EXCEPT !.at = "leaving"] /\ r.at = "leaving"
          /\ r.published = restorer.published /\ r.replaced = restorer.replaced
          /\ r.incomplete = restorer.incomplete
  <2>1. [restorer EXCEPT !.at = "leaving"] \in Restores
    BY <1>2 DEF Restores
  <2> QED
    BY <1>2, <2>1 DEF Restores
<1>4. Moved \in SUBSET Tree
  BY <1>2 DEF Moved, Restores
<1>5. /\ restorer' \in Restores /\ astray' \in SUBSET Tree
      /\ \/ restorer' = r /\ UNCHANGED astray
         \/ /\ restorer'.at = "undoing" /\ astray' = astray \cup Moved
            /\ UNCHANGED <<restorer.published, restorer.replaced, restorer.incomplete>>
  BY <1>1, <1>3, <1>4, RecordsIs
<1>6. staging' \in Stagings /\ staging'.journal = "committed"
  BY <1>1, <1>2 DEF Stagings
<1> QED
  BY <1>1, <1>3, <1>5, <1>6

LEMMA StageIs ==
    ASSUME BackupTypeOK, Stage
    PROVE  /\ restorer.at = "recovering" /\ staging.journal = "none"
           /\ UNCHANGED <<disk, server, writing, versions, capture, snapshot, measures>>
           /\ staging' \in Stagings /\ staging'.journal = "staged"
           /\ staging'.kept = [x \in Tree |-> 0]
           /\ staging'.contents["database"] = snapshot.database /\ staging'.contents["wal"] = 0
           /\ restorer' \in Restores /\ restorer'.at = "staged"
           /\ UNCHANGED <<restorer.published, restorer.replaced, restorer.incomplete>>
<1>1. /\ restorer.at = "recovering" /\ staging.journal = "none"
      /\ UNCHANGED <<disk, server, writing, versions, capture, snapshot, measures>>
      /\ restorer' = [restorer EXCEPT !.at = "staged"]
  BY DEF Stage
<1>2. restorer \in Restores /\ snapshot \in Snapshots
  BY DEF BackupTypeOK, Restores, Snapshots
<1>3. PICK contents \in [Tree -> Version] :
          /\ contents = [x \in Tree |-> CASE x \in Files -> snapshot.files[x]
                                          [] x = "database" -> snapshot.database
                                          [] OTHER -> 0]
          /\ contents["database"] = snapshot.database /\ contents["wal"] = 0
  <2> DEFINE contents == [x \in Tree |-> CASE x \in Files -> snapshot.files[x]
                                           [] x = "database" -> snapshot.database
                                           [] OTHER -> 0]
  <2>1. contents \in [Tree -> Version]
    BY <1>2, EmptyTreesAre DEF Snapshots
  <2>2. contents["database"] = snapshot.database /\ contents["wal"] = 0
    BY DEF Tree, Files
  <2> QED
    BY <2>1, <2>2
<1>4. staging' = [NoStaging EXCEPT !.journal = "staged", !.skipped = snapshot.skipped,
                                   !.contents = contents]
  BY <1>3 DEF Stage
<1>5. staging' = [journal |-> "staged", contents |-> contents, skipped |-> snapshot.skipped,
                  fresh |-> {}, waiting |-> {}, kept |-> [x \in Tree |-> 0]]
  BY <1>4 DEF NoStaging
<1>6. [x \in Tree |-> 0] \in [Tree -> Version]
  BY EmptyTreesAre
<1>7. staging' \in Stagings
  BY <1>2, <1>3, <1>5, <1>6 DEF Stagings, Snapshots
<1>8. /\ restorer' \in Restores /\ restorer'.at = "staged"
      /\ UNCHANGED <<restorer.published, restorer.replaced, restorer.incomplete>>
  BY <1>1, <1>2 DEF Restores
<1> QED
  BY <1>1, <1>3, <1>5, <1>7, <1>8

LEMMA OpenJournalIs ==
    ASSUME BackupTypeOK, OpenJournal
    PROVE  /\ restorer.at = "staged"
           /\ UNCHANGED <<disk, server, writing, versions, capture, snapshot>>
           /\ staging' \in Stagings /\ staging'.journal = "publishing"
           /\ UNCHANGED <<staging.contents, staging.skipped, staging.kept>>
           /\ staging'.waiting = There(staging.contents)
           /\ staging'.fresh = There(staging.contents) \ There(disk)
           /\ restorer' \in Restores /\ restorer'.at = "publishing"
           /\ UNCHANGED <<restorer.published, restorer.replaced, restorer.incomplete>>
           /\ before' = disk /\ astray' = {}
           /\ goal' = [x \in Tree |-> IF x \in Preserved THEN disk[x] ELSE staging.contents[x]]
           /\ goal' \in [Tree -> Version]
<1>1. staging \in Stagings /\ restorer \in Restores /\ disk \in [Tree -> Version]
  BY DEF BackupTypeOK, Stagings, Restores
<1>2. There(staging.contents) \in SUBSET Tree
  BY <1>1 DEF There, Stagings
<1>3. PICK targets \in SUBSET Tree : targets = There(staging.contents)
  BY <1>2
<1>4. PICK none \in SUBSET Tree : none = targets \ There(disk)
  OBVIOUS
<1>5. staging' = [staging EXCEPT !.journal = "publishing", !.waiting = targets, !.fresh = none]
  BY <1>3, <1>4 DEF OpenJournal
<1>6. /\ staging' \in Stagings /\ staging'.journal = "publishing"
      /\ UNCHANGED <<staging.contents, staging.skipped, staging.kept>>
      /\ staging'.waiting = targets /\ staging'.fresh = none
  BY <1>1, <1>5 DEF Stagings
<1>7. /\ restorer.at = "staged" /\ restorer' = [restorer EXCEPT !.at = "publishing"]
      /\ UNCHANGED <<disk, server, writing, versions, capture, snapshot>>
      /\ before' = disk /\ astray' = {}
      /\ goal' = [x \in Tree |-> IF x \in Preserved THEN disk[x] ELSE staging.contents[x]]
  BY DEF OpenJournal
<1>8. /\ restorer' \in Restores /\ restorer'.at = "publishing"
      /\ UNCHANGED <<restorer.published, restorer.replaced, restorer.incomplete>>
  BY <1>1, <1>7 DEF Restores
<1>9. goal' \in [Tree -> Version]
  BY <1>1, <1>7 DEF Stagings
<1> QED
  BY <1>3, <1>4, <1>6, <1>7, <1>8, <1>9

LEMMA LastOfIs == ASSUME NEW moved PROVE LastOf(moved) \subseteq moved
BY DEF LastOf

LEMMA RollBackIs ==
    ASSUME BackupTypeOK, RollBack
    PROVE  /\ restorer.at = "undoing"
           /\ UNCHANGED <<server, writing, versions, capture, snapshot, before, goal>>
           /\ disk' \in [Tree -> Version] /\ staging' \in Stagings /\ restorer' \in Restores
           /\ restorer'.at \in {"undoing", "leaving"} /\ astray' \in SUBSET Tree
           /\ UNCHANGED <<staging.journal, staging.contents, staging.skipped, staging.fresh,
                          staging.waiting>>
           /\ \/ \E x \in restorer.published :
                    /\ disk' = [disk EXCEPT ![x] = 0] \/ (disk' = disk /\ restorer'.incomplete)
                    /\ restorer.incomplete => restorer'.incomplete
                    /\ restorer'.at = "undoing" /\ restorer'.published = restorer.published \ {x}
                    /\ UNCHANGED <<staging, restorer.replaced, astray>>
              \/ /\ restorer.published = {} /\ restorer'.published = {}
                 /\ \E x \in restorer.replaced :
                    /\ \/ /\ disk' = [disk EXCEPT ![x] = staging.kept[x]]
                          /\ staging'.kept = [staging.kept EXCEPT ![x] = 0]
                       \/ UNCHANGED <<disk, staging>> /\ restorer'.incomplete
                    /\ restorer.incomplete => restorer'.incomplete
                    /\ restorer'.at = "undoing" /\ restorer'.replaced = restorer.replaced \ {x}
                    /\ UNCHANGED astray
              \/ /\ astray' = astray \cup Moved
                 /\ restorer'.at = "leaving" /\ UNCHANGED <<disk, staging>>
                 /\ UNCHANGED <<restorer.published, restorer.replaced, restorer.incomplete>>
<1>1. restorer.at = "undoing"
      /\ UNCHANGED <<server, writing, versions, capture, snapshot, before, goal>>
  BY DEF RollBack
<1>2. /\ staging \in Stagings /\ restorer \in Restores /\ disk \in [Tree -> Version]
      /\ 0 \in Version /\ astray \in SUBSET Tree /\ Moved \in SUBSET Tree
  BY EmptyTreesAre DEF BackupTypeOK, Stagings, Restores, Moved
<1>3. ASSUME NEW x \in restorer.published, NEW refused \in BOOLEAN,
             disk' = [disk EXCEPT ![x] = 0] \/ (refused /\ UNCHANGED disk),
             restorer' = [restorer EXCEPT !.published = @ \ {x}, !.incomplete = @ \/ refused],
             UNCHANGED <<staging, astray>>
      PROVE  /\ disk' \in [Tree -> Version] /\ restorer' \in Restores
             /\ disk' = [disk EXCEPT ![x] = 0] \/ (disk' = disk /\ restorer'.incomplete)
             /\ restorer.incomplete => restorer'.incomplete
             /\ restorer'.at = "undoing" /\ restorer'.published = restorer.published \ {x}
             /\ UNCHANGED restorer.replaced
  <2>1. disk' \in [Tree -> Version]
    BY <1>2, <1>3
  <2>2. restorer' \in Restores
    BY <1>2, <1>3 DEF Restores
  <2>3. /\ restorer'.incomplete = (restorer.incomplete \/ refused) /\ restorer'.at = "undoing"
        /\ restorer'.published = restorer.published \ {x} /\ UNCHANGED restorer.replaced
    BY <1>1, <1>2, <1>3 DEF Restores
  <2> QED
    BY <1>3, <2>1, <2>2, <2>3
<1>4. ASSUME NEW x \in restorer.replaced, NEW refused \in BOOLEAN,
             \/ /\ disk' = [disk EXCEPT ![x] = staging.kept[x]]
                /\ staging' = [staging EXCEPT !.kept[x] = 0]
             \/ refused /\ UNCHANGED <<disk, staging>>,
             restorer' = [restorer EXCEPT !.replaced = @ \ {x}, !.incomplete = @ \/ refused]
      PROVE  /\ disk' \in [Tree -> Version] /\ restorer' \in Restores /\ staging' \in Stagings
             /\ UNCHANGED <<staging.journal, staging.contents, staging.skipped, staging.fresh,
                            staging.waiting>>
             /\ \/ /\ disk' = [disk EXCEPT ![x] = staging.kept[x]]
                   /\ staging'.kept = [staging.kept EXCEPT ![x] = 0]
                \/ UNCHANGED <<disk, staging>> /\ restorer'.incomplete
             /\ restorer.incomplete => restorer'.incomplete
             /\ restorer'.at = "undoing" /\ restorer'.replaced = restorer.replaced \ {x}
             /\ UNCHANGED restorer.published
  <2>1. restorer' \in Restores
    BY <1>2, <1>4 DEF Restores
  <2>2. /\ restorer'.incomplete = (restorer.incomplete \/ refused) /\ restorer'.at = "undoing"
        /\ restorer'.replaced = restorer.replaced \ {x} /\ UNCHANGED restorer.published
    BY <1>1, <1>2, <1>4 DEF Restores
  <2>3. CASE /\ disk' = [disk EXCEPT ![x] = staging.kept[x]]
             /\ staging' = [staging EXCEPT !.kept[x] = 0]
    <3>1. staging.kept[x] \in Version
      BY <1>2 DEF Stagings, Restores
    <3>2. disk' \in [Tree -> Version]
      BY <1>2, <2>3, <3>1
    <3>3. /\ staging' \in Stagings /\ staging'.kept = [staging.kept EXCEPT ![x] = 0]
          /\ UNCHANGED <<staging.journal, staging.contents, staging.skipped, staging.fresh,
                         staging.waiting>>
      BY <1>2, <2>3 DEF Stagings
    <3> QED
      BY <2>1, <2>2, <2>3, <3>2, <3>3
  <2>4. CASE refused /\ UNCHANGED <<disk, staging>>
    BY <1>2, <2>1, <2>2, <2>4
  <2> QED
    BY <1>4, <2>3, <2>4
<1>5. CASE \E x \in LastOf(restorer.published), refused \in BOOLEAN :
             /\ disk' = [disk EXCEPT ![x] = 0] \/ (refused /\ UNCHANGED disk)
             /\ restorer' = [restorer EXCEPT !.published = @ \ {x},
                                             !.incomplete = @ \/ refused]
             /\ UNCHANGED <<staging, astray>>
  <2>1. LastOf(restorer.published) \subseteq restorer.published
    BY LastOfIs
  <2> QED
    BY <1>1, <1>2, <1>3, <1>5, <2>1
<1>6. CASE \E x \in LastOf(restorer.replaced), refused \in BOOLEAN :
             /\ restorer.published = {}
             /\ \/ /\ disk' = [disk EXCEPT ![x] = staging.kept[x]]
                   /\ staging' = [staging EXCEPT !.kept[x] = 0]
                \/ refused /\ UNCHANGED <<disk, staging>>
             /\ restorer' = [restorer EXCEPT !.replaced = @ \ {x},
                                             !.incomplete = @ \/ refused]
             /\ UNCHANGED astray
  <2>1. LastOf(restorer.replaced) \subseteq restorer.replaced
    BY LastOfIs
  <2> QED
    BY <1>1, <1>2, <1>4, <1>6, <2>1
<1>7. CASE /\ restorer' = [restorer EXCEPT !.at = "leaving"]
           /\ astray' = astray \cup Moved
           /\ UNCHANGED <<disk, staging>>
  <2>1. restorer' \in Restores
    BY <1>2, <1>7 DEF Restores
  <2>2. restorer'.at = "leaving"
        /\ UNCHANGED <<restorer.published, restorer.replaced, restorer.incomplete>>
    BY <1>2, <1>7 DEF Restores
  <2> QED
    BY <1>1, <1>2, <1>7, <2>1, <2>2
<1> QED
  BY <1>5, <1>6, <1>7 DEF RollBack

\* A restore that begins has moved nothing; one that leaves or dies takes at most its tree along.
LEMMA RestoreBeginsIs ==
    ASSUME BackupTypeOK, RestoreBegins
    PROVE  /\ ~Restoring /\ ~Opening /\ ~Supervising
           /\ capture' \in Captures /\ capture'.at = "idle"
           /\ UNCHANGED <<disk, staging, server, writing, versions, snapshot>>
           /\ IF staging.journal = "none" THEN before' = disk /\ goal' = disk /\ astray' = {}
                                          ELSE UNCHANGED measures
           /\ snapshot.database # 0
           /\ restorer' \in Restores /\ restorer'.at = "recovering" /\ ~restorer'.incomplete
           /\ restorer'.published = {} /\ restorer'.replaced = {}
<1>1. restorer' = [at |-> "recovering", published |-> {}, replaced |-> {}, incomplete |-> FALSE]
  BY DEF RestoreBegins, NoRestore
<1>2. /\ restorer' \in Restores /\ restorer'.at = "recovering" /\ ~restorer'.incomplete
      /\ restorer'.published = {} /\ restorer'.replaced = {}
  BY <1>1 DEF Restores
<1>3. capture' \in Captures /\ capture'.at = "idle"
  BY EmptyTreesAre DEF RestoreBegins
<1> QED
  BY <1>2, <1>3 DEF RestoreBegins, Remember

LEMMA RaisesIs ==
    ASSUME BackupTypeOK, Raises
    PROVE  /\ UNCHANGED <<disk, staging, server, writing, versions, capture, snapshot, measures>>
           /\ restorer' \in Restores
           /\ \/ restorer.at = "recovering" /\ restorer'.at = "idle"
              \/ /\ restorer.at \in {"staged", "publishing"} /\ restorer'.at = "undoing"
                 /\ UNCHANGED <<restorer.published, restorer.replaced, restorer.incomplete>>
<1>1. restorer \in Restores
  BY DEF BackupTypeOK, Restores
<1>2. CASE restorer.at = "recovering" /\ restorer' = NoRestore
  BY <1>2, EmptyTreesAre DEF Raises
<1>3. CASE restorer.at \in {"staged", "publishing"} /\ restorer' = [restorer EXCEPT !.at = "undoing"]
  <2>1. restorer' \in Restores
    BY <1>1, <1>3 DEF Restores
  <2> QED
    BY <1>1, <1>3, <2>1 DEF Restores, Raises
<1> QED
  BY <1>2, <1>3 DEF Raises

LEMMA RestoreEndsIs ==
    ASSUME BackupTypeOK, RestoreLeaves \/ RestoreDies
    PROVE  /\ Restoring /\ restorer' = NoRestore /\ staging' \in Stagings
           /\ UNCHANGED <<disk, server, writing, versions, capture, snapshot, measures>>
           /\ \/ UNCHANGED staging
              \/ staging' = NoStaging /\ restorer.at = "leaving" /\ ~restorer.incomplete
BY EmptyTreesAre DEF RestoreLeaves, RestoreDies, Restoring, BackupTypeOK, Stagings

LEMMA ServerMoves ==
    ASSUME BackupTypeOK, ServerOpens \/ ServerStarts \/ ServerDies \/ PassBegins
    PROVE  /\ UNCHANGED <<disk, staging, restorer, capture, snapshot>>
           /\ \/ UNCHANGED measures
              \/ /\ staging.journal = "none" /\ (~Restoring \/ server = "opening")
                 /\ before' = disk /\ goal' = disk /\ astray' = {}
           /\ server' \in {"off", "opening", "opened", "starting", "serving"}
           /\ writing' \in {"nothing", "run", "pointer", "settling"} /\ versions' \in Version
<1>1. versions' \in Version
  BY BackupBounded DEF BackupTypeOK, ServerOpens, ServerStarts, ServerDies, PassBegins, Version
<1> QED
  BY <1>1 DEF BackupTypeOK, ServerOpens, ServerStarts, ServerDies, PassBegins, Remember

LEMMA TreeIsWritten ==
    ASSUME BackupTypeOK, ServerStops \/ PassWrites
    PROVE  /\ UNCHANGED <<staging, restorer, versions, capture, snapshot>>
           /\ (server = "serving" /\ writing = "nothing") \/ writing # "nothing"
           /\ disk' \in [Tree -> Version] /\ before' = disk' /\ goal' = disk' /\ astray' = {}
           /\ server' \in {"off", server} /\ writing' \in {"nothing", "pointer", "settling"}
           /\ writing' # "nothing" => server' = server
           /\ server' # server => server' = "off" /\ writing' = "nothing"
<1>1. disk \in [Tree -> Version] /\ versions \in Version /\ 0 \in Version
  BY EmptyTreesAre DEF BackupTypeOK
<1>2. CASE ServerStops
  <2>1. PICK database \in Version : database = IF disk["wal"] = 0 THEN disk["database"] ELSE disk["wal"]
    BY <1>1 DEF Tree
  <2>2. disk' = [disk EXCEPT !["database"] = database, !["wal"] = 0]
    BY <1>1, <1>2, <2>1 DEF ServerStops, Tree
  <2>3. disk' \in [Tree -> Version]
    BY <1>1, <2>2
  <2> QED
    BY <1>2, <2>3 DEF ServerStops
<1>3. CASE PassWrites
  <2>1. disk' \in [Tree -> Version]
    BY <1>1, <1>3 DEF PassWrites
  <2> QED
    BY <1>3, <2>1 DEF PassWrites
<1> QED
  BY <1>2, <1>3

LEMMA BackupBeginsIs ==
    ASSUME BackupTypeOK, BackupBegins
    PROVE  /\ capture' \in Captures /\ capture.at = "idle"
           /\ \/ (Restoring \/ Publishing) /\ capture'.at = "idle"
              \/ ~Restoring /\ ~Publishing /\ capture'.at \in {"view", "seal"}
           /\ capture'.at = "seal" => capture'.skipped # {}
           /\ UNCHANGED <<disk, staging, restorer, server, writing, versions, snapshot, measures>>
<1>1. PICK at \in {"view", "seal"} : at = IF There(OfMix(disk)) # {} THEN "view" ELSE "seal"
  OBVIOUS
<1>2. PICK skipped \in SUBSET Files : skipped = IF There(OfMix(disk)) # {} THEN {} ELSE Files
  OBVIOUS
<1>3. PICK database \in Version : database = IF disk["wal"] = 0 THEN disk["database"] ELSE disk["wal"]
  BY DEF BackupTypeOK, Tree
<1>4. at = "seal" => skipped # {}
  BY <1>1, <1>2 DEF Files
<1>5. /\ capture.at = "idle"
      /\ UNCHANGED <<disk, staging, restorer, server, writing, versions, snapshot, measures>>
  BY DEF BackupBegins
<1>6. CASE Restoring \/ Publishing
  <2>1. capture' = NoCapture
    BY <1>6 DEF BackupBegins
  <2> QED
    BY <1>5, <1>6, <2>1, EmptyTreesAre
<1>7. CASE ~(Restoring \/ Publishing)
  <2>1. capture' = [NoCapture EXCEPT !.at = at, !.skipped = skipped, !.database = database]
    BY <1>1, <1>2, <1>3, <1>7 DEF BackupBegins
  <2>2. capture' = [at |-> at, attempt |-> 1, database |-> database, skipped |-> skipped,
                    view |-> [f \in Files |-> 0], copied |-> {}]
    BY <2>1 DEF NoCapture
  <2>3. [f \in Files |-> 0] \in [Files -> Version]
    BY EmptyTreesAre
  <2>4. capture' \in Captures
    BY <2>2, <2>3 DEF Captures
  <2>5. capture'.at = at /\ capture'.skipped = skipped
    BY <2>2
  <2> QED
    BY <1>4, <1>5, <1>7, <2>4, <2>5
<1> QED
  BY <1>6, <1>7

LEMMA ViewMixIs ==
    ASSUME BackupTypeOK, ViewMix
    PROVE  /\ capture' \in Captures /\ capture.at = "view" /\ capture'.at \in {"seal", "copy"}
           /\ capture'.at = "seal" => capture'.skipped # {}
           /\ capture'.at = "copy" => writing = "nothing" /\ capture'.view = OfMix(disk)
           /\ UNCHANGED <<disk, staging, restorer, server, writing, versions, snapshot, measures>>
<1>1. capture \in Captures /\ OfMix(disk) \in [Files -> Version]
  BY MixOfIs DEF BackupTypeOK, Captures
<1>2. CASE writing # "nothing"
  <2>1. capture' = [capture EXCEPT !.at = "seal", !.skipped = Files]
    BY <1>2 DEF ViewMix
  <2> QED
    BY <1>1, <2>1 DEF ViewMix, Captures, Files
<1>3. CASE writing = "nothing"
  <2>1. PICK view \in [Files -> Version] : view = OfMix(disk)
    BY <1>1
  <2>2. capture' = [capture EXCEPT !.at = "copy", !.view = view]
    BY <1>3, <2>1 DEF ViewMix
  <2>3. capture' \in Captures /\ capture'.at = "copy" /\ capture'.view = view
    BY <1>1, <2>2 DEF Captures
  <2> QED
    BY <1>3, <2>1, <2>3 DEF ViewMix
<1> QED
  BY <1>2, <1>3

LEMMA CopyOneIs ==
    ASSUME BackupTypeOK, CopyOne
    PROVE  /\ capture' \in Captures /\ capture.at = "copy" /\ capture'.at # "seal"
           /\ capture'.at = "copy" => capture'.view = capture.view
           /\ UNCHANGED <<disk, staging, restorer, server, writing, versions, snapshot, measures>>
<1>1. capture \in Captures
  BY DEF BackupTypeOK, Captures
<1>2. PICK f \in Files :
          capture' = CASE disk[f] = capture.view[f] -> [capture EXCEPT !.copied = @ \cup {f}]
                       [] disk[f] # capture.view[f] /\ capture.attempt = 1 ->
                             [capture EXCEPT !.at = "view", !.attempt = 2, !.copied = {}]
                       [] OTHER -> NoCapture
  BY <1>1 DEF CopyOne, There, Captures
<1>3. capture.at = "copy"
      /\ UNCHANGED <<disk, staging, restorer, server, writing, versions, snapshot, measures>>
  BY DEF CopyOne
<1>4. \/ capture' = [capture EXCEPT !.copied = @ \cup {f}]
      \/ capture' = [capture EXCEPT !.at = "view", !.attempt = 2, !.copied = {}]
      \/ capture' = NoCapture
  BY <1>2
<1>5. CASE capture' = [capture EXCEPT !.copied = @ \cup {f}]
  <2>1. capture' \in Captures
    BY <1>1, <1>5 DEF Captures
  <2> QED
    BY <1>1, <1>3, <1>5, <2>1 DEF Captures
<1>6. CASE capture' = [capture EXCEPT !.at = "view", !.attempt = 2, !.copied = {}]
  <2>1. PICK two \in 1..2 : two = 2
    OBVIOUS
  <2>2. capture' = [at |-> "view", attempt |-> two, database |-> capture.database,
                    skipped |-> capture.skipped, view |-> capture.view, copied |-> {}]
    BY <1>1, <1>6, <2>1 DEF Captures
  <2>3. capture' \in Captures
    BY <1>1, <2>2 DEF Captures
  <2> QED
    BY <1>3, <2>2, <2>3
<1>7. CASE capture' = NoCapture
  BY <1>3, <1>7, EmptyTreesAre
<1> QED
  BY <1>4, <1>5, <1>6, <1>7

\* A sealed snapshot without gaps is the view it was copied from.
LEMMA SealIs ==
    ASSUME BackupTypeOK, Seal, capture.at = "seal" => capture.skipped # {}
    PROVE  /\ capture' = NoCapture /\ snapshot' \in Snapshots
           /\ \/ snapshot' = snapshot
              \/ snapshot'.skipped # {}
              \/ capture.at = "copy" /\ snapshot'.files = capture.view
           /\ UNCHANGED <<disk, staging, restorer, server, writing, versions, measures>>
<1>1. capture \in Captures /\ snapshot \in Snapshots
  BY DEF BackupTypeOK, Captures, Snapshots
<1>2. PICK copy \in [Files -> Version] :
          copy = [f \in Files |-> IF f \in capture.copied THEN capture.view[f] ELSE 0]
  <2>1. [f \in Files |-> IF f \in capture.copied THEN capture.view[f] ELSE 0] \in [Files -> Version]
    BY <1>1, EmptyTreesAre DEF Captures
  <2> QED
    BY <2>1, Zenon
<1>3. PICK skipped \in SUBSET Files :
          skipped = IF copy["run"] = 0 THEN capture.skipped \cup {"run"} ELSE capture.skipped
  BY <1>1 DEF Captures, Files
<1>4. capture' = NoCapture
      /\ UNCHANGED <<disk, staging, restorer, server, writing, versions, measures>>
      /\ (capture.at = "seal" \/ (capture.at = "copy" /\ There(capture.view) = capture.copied))
  BY DEF Seal
<1>5. \/ snapshot' = snapshot
      \/ snapshot' = [files |-> copy, database |-> capture.database, skipped |-> skipped]
  BY <1>2, <1>3 DEF Seal
<1>6. [files |-> copy, database |-> capture.database, skipped |-> skipped] \in Snapshots
  BY <1>1 DEF Captures, Snapshots
<1>7. CASE capture.at = "seal"
  BY <1>1, <1>3, <1>4, <1>5, <1>6, <1>7
<1>8. CASE capture.at = "copy" /\ There(capture.view) = capture.copied
  <2>1. \A f \in Files : copy[f] = capture.view[f]
    BY <1>1, <1>2, <1>8 DEF There, Captures
  <2>2. copy = capture.view
    BY <1>1, <2>1 DEF Captures
  <2> QED
    BY <1>1, <1>4, <1>5, <1>6, <1>8, <2>2
<1> QED
  BY <1>4, <1>7, <1>8

\* Who moves, what may be seen afterwards.
Restorers ==
    \/ Undo \/ Discard \/ RestoreBegins \/ Stage \/ OpenJournal \/ Commit \/ Raises \/ RollBack
    \/ RestoreLeaves \/ RestoreDies \/ \E x \in Tree : Displace(x) \/ PutInPlace(x)
Servers == ServerOpens \/ ServerStarts \/ ServerStops \/ ServerDies \/ PassBegins \/ PassWrites
Backups == BackupBegins \/ ViewMix \/ CopyOne \/ Seal \/ BackupDies

LEMMA DiscardIs ==
    ASSUME Discard
    PROVE  /\ Recovers /\ ~Publishing /\ staging' = NoStaging
           /\ UNCHANGED <<disk, restorer, server, writing, versions, capture, snapshot, measures>>
BY DEF Discard, Publishing

LEMMA RestorersTypes ==
    ASSUME BackupTypeOK, Restorers
    PROVE  /\ disk' \in [Tree -> Version] /\ staging' \in Stagings /\ restorer' \in Restores
           /\ goal' \in [Tree -> Version] /\ before' \in [Tree -> Version]
           /\ astray' \in SUBSET Tree /\ capture' \in Captures
           /\ UNCHANGED capture \/ (RestoreBegins /\ ~Followed')
           /\ UNCHANGED <<server, writing, versions, snapshot>>
<1>1. /\ disk \in [Tree -> Version] /\ staging \in Stagings /\ restorer \in Restores
      /\ goal \in [Tree -> Version] /\ before \in [Tree -> Version]
      /\ astray \in SUBSET Tree /\ capture \in Captures
  BY DEF BackupTypeOK, Stagings, Restores, Captures
<1>2. CASE Undo \/ Discard
  BY <1>1, <1>2, UndoIs, DiscardIs, EmptyTreesAre
<1>3. CASE RestoreBegins \/ Stage \/ OpenJournal
  BY <1>1, <1>3, RestoreBeginsIs, StageIs, OpenJournalIs DEF Followed
<1>4. CASE Commit \/ Raises
  BY <1>1, <1>4, CommitIs, RaisesIs
<1>5. CASE RollBack
  BY <1>1, <1>5, RollBackIs
<1>6. CASE RestoreLeaves \/ RestoreDies
  BY <1>1, <1>6, RestoreEndsIs, EmptyTreesAre
<1>7. ASSUME NEW x \in Tree, Displace(x) \/ PutInPlace(x)
      PROVE  /\ disk' \in [Tree -> Version] /\ staging' \in Stagings /\ restorer' \in Restores
             /\ goal' \in [Tree -> Version] /\ before' \in [Tree -> Version]
             /\ astray' \in SUBSET Tree
             /\ UNCHANGED <<server, writing, versions, capture, snapshot>>
  BY <1>1, <1>7, DisplaceIs, PutInPlaceIs
<1> QED
  BY <1>1, <1>2, <1>3, <1>4, <1>5, <1>6, <1>7 DEF Restorers

LEMMA BackupsTypes ==
    ASSUME BackupTypeOK, ViewsAreMoments, Backups
    PROVE  /\ UNCHANGED <<disk, staging, restorer, server, writing, versions, measures>>
           /\ capture' \in Captures /\ snapshot' \in Snapshots
<1>1. capture \in Captures /\ snapshot \in Snapshots
  BY DEF BackupTypeOK, Captures, Snapshots
<1> QED
  BY <1>1, BackupBeginsIs, ViewMixIs, CopyOneIs, SealIs, EmptyTreesAre
     DEF Backups, BackupDies, ViewsAreMoments

LEMMA BackupTypesKept ==
    ASSUME BackupTypeOK, ViewsAreMoments, BackupNext PROVE BackupTypeOK'
<1>1. /\ disk' \in [Tree -> Version] /\ staging' \in Stagings /\ restorer' \in Restores
      /\ goal' \in [Tree -> Version] /\ before' \in [Tree -> Version] /\ astray' \in SUBSET Tree
      /\ server' \in {"off", "opening", "opened", "starting", "serving"}
      /\ writing' \in {"nothing", "run", "pointer", "settling"} /\ versions' \in Version
      /\ capture' \in Captures /\ snapshot' \in Snapshots
  <2>1. /\ disk \in [Tree -> Version] /\ staging \in Stagings /\ restorer \in Restores
        /\ goal \in [Tree -> Version] /\ before \in [Tree -> Version] /\ astray \in SUBSET Tree
        /\ server \in {"off", "opening", "opened", "starting", "serving"}
        /\ writing \in {"nothing", "run", "pointer", "settling"} /\ versions \in Version
        /\ capture \in Captures /\ snapshot \in Snapshots
    BY DEF BackupTypeOK, Stagings, Restores, Captures, Snapshots
  <2>2. CASE Restorers
    BY <2>1, <2>2, RestorersTypes
  <2>3. CASE ServerOpens \/ ServerStarts \/ ServerDies \/ PassBegins
    BY <2>1, <2>3, ServerMoves
  <2>4. CASE ServerStops \/ PassWrites
    BY <2>1, <2>4, TreeIsWritten
  <2>5. CASE Backups
    BY <2>1, <2>5, BackupsTypes
  <2> QED
    BY <2>2, <2>3, <2>4, <2>5 DEF BackupNext, Restorers, Backups
<1>2. moments' \subseteq [Files -> Version]
  <2>1. OfMix(disk') \in [Files -> Version]
    BY <1>1, MixOfIs
  <2> QED
    BY <2>1 DEF BackupTypeOK, BackupNext, Observe
<1>3. late' \in 0..MaxLate
  BY BackupBounded DEF BackupTypeOK, BackupNext, CountLate
<1> QED
  BY <1>1, <1>2, <1>3 DEF BackupTypeOK, Stagings, Restores, Captures, Snapshots

LEMMA ExclusionKept ==
    ASSUME BackupTypeOK, TheyExclude, BackupNext PROVE TheyExclude'
<1> USE DEF TheyExclude, Restoring, Publishing, Recovers, Followed
<1>1. CASE Undo \/ Discard
  BY <1>1, UndoIs, DiscardIs, EmptyTreesAre
<1>2. CASE RestoreBegins \/ Stage \/ OpenJournal
  <2>1. CASE RestoreBegins
    BY <2>1, RestoreBeginsIs DEF Opening, Supervising, BackupTypeOK
  <2>2. CASE Stage \/ OpenJournal
    BY <2>2, StageIs, OpenJournalIs
  <2> QED
    BY <1>2, <2>1, <2>2
<1>3. CASE Commit \/ Raises
  BY <1>3, CommitIs, RaisesIs
<1>4. CASE RollBack
  BY <1>4, RollBackIs
<1>5. CASE RestoreLeaves \/ RestoreDies
  BY <1>5, RestoreEndsIs, EmptyTreesAre
<1>6. ASSUME NEW x \in Tree, Displace(x) \/ PutInPlace(x) PROVE TheyExclude'
  BY <1>6, DisplaceIs, PutInPlaceIs
<1>7. CASE ServerOpens \/ ServerStarts \/ ServerDies \/ PassBegins
  BY <1>7 DEF ServerOpens, ServerStarts, ServerDies, PassBegins, BackupTypeOK
<1>8. CASE ServerStops \/ PassWrites
  BY <1>8, TreeIsWritten DEF BackupTypeOK
<1>9. CASE BackupBegins \/ ViewMix \/ CopyOne
  BY <1>9, BackupBeginsIs, ViewMixIs, CopyOneIs
<1>10. CASE Seal \/ BackupDies
  BY <1>10, EmptyTreesAre DEF Seal, BackupDies
<1> QED
  BY <1>1, <1>2, <1>3, <1>4, <1>5, <1>6, <1>7, <1>8, <1>9, <1>10 DEF BackupNext

LEMMA ViewsKept ==
    ASSUME SnapshotInv, BackupNext PROVE ViewsAreMoments'
<1>1. Followed' => /\ moments \subseteq moments'
                   /\ writing' = "nothing" => OfMix(disk') \in moments'
  BY DEF BackupNext, Observe
<1>2. CASE UNCHANGED <<capture, snapshot>>
  BY <1>1, <1>2 DEF SnapshotInv, ViewsAreMoments, OfMix, Followed
<1>3. CASE Backups
  <2>1. CASE BackupBegins
    BY <1>1, <2>1, BackupBeginsIs DEF SnapshotInv, ViewsAreMoments, OfMix, Followed
  <2>2. CASE ViewMix
    BY <1>1, <2>2, ViewMixIs DEF SnapshotInv, TheyExclude, ViewsAreMoments, OfMix, Followed
  <2>3. CASE CopyOne
    BY <1>1, <2>3, CopyOneIs DEF SnapshotInv, ViewsAreMoments, OfMix, Followed
  <2>4. CASE Seal \/ BackupDies
    BY <2>4, EmptyTreesAre DEF ViewsAreMoments, Followed, Seal, BackupDies
  <2> QED
    BY <1>3, <2>1, <2>2, <2>3, <2>4 DEF Backups
<1>4. CASE ~Followed'
  BY <1>4 DEF ViewsAreMoments, Followed
<1>5. Backups \/ UNCHANGED <<capture, snapshot>> \/ ~Followed'
  <2>1. CASE Restorers
    BY <2>1, RestorersTypes DEF SnapshotInv
  <2>2. CASE Servers
    BY <2>2, ServerMoves, TreeIsWritten DEF SnapshotInv, Servers
  <2> QED
    BY <2>1, <2>2 DEF BackupNext, Restorers, Servers, Backups
<1> QED
  BY <1>2, <1>3, <1>4, <1>5

LEMMA InitSnapshot == BackupInit => SnapshotInv
<1> SUFFICES ASSUME BackupInit PROVE SnapshotInv
  OBVIOUS
<1>1. PICK n \in {0, 1} : disk = [x \in Tree |-> IF x = "wal" THEN 0 ELSE n]
  BY DEF BackupInit
<1>2. disk \in [Tree -> Version]
  BY <1>1, EmptyTreesAre
<1>3. [f \in Files |-> 0] \in [Files -> Version] /\ [f \in Files |-> 1] \in [Files -> Version]
  BY EmptyTreesAre
<1>4. snapshot \in Snapshots
  <2>1. CASE snapshot = NoSnapshot
    BY <2>1, EmptyTreesAre
  <2>2. CASE \E skipped \in {{}, {"run"}, Files} :
               snapshot = [files |-> [f \in Files |-> 0], skipped |-> skipped, database |-> 1]
    BY <1>3, <2>2, EmptyTreesAre DEF Snapshots, Files
  <2>3. CASE snapshot = [NoSnapshot EXCEPT !.files = [f \in Files |-> 1], !.database = 1]
    <3>1. snapshot = [files |-> [f \in Files |-> 1], skipped |-> {}, database |-> 1]
      BY <2>3 DEF NoSnapshot
    <3> QED
      BY <1>3, <3>1, EmptyTreesAre DEF Snapshots
  <2> QED
    BY <2>1, <2>2, <2>3 DEF BackupInit
<1>5. /\ staging \in Stagings /\ staging.journal = "none" /\ restorer \in Restores
      /\ restorer.at = "idle" /\ capture \in Captures /\ capture.at = "idle"
      /\ server = "off" /\ writing = "nothing" /\ versions \in Version
      /\ before = disk /\ goal = disk /\ astray = {} /\ moments = {} /\ late \in 0..MaxLate
  BY EmptyTreesAre, BackupBounded DEF BackupInit
<1>6. BackupTypeOK
  BY <1>2, <1>4, <1>5 DEF BackupTypeOK, Stagings, Restores, Captures, Snapshots
<1> QED
  BY <1>5, <1>6 DEF SnapshotInv, TheyExclude, Restoring, ViewsAreMoments, Followed

LEMMA StepSnapshot == SnapshotInv /\ [BackupNext]_backupVars => SnapshotInv'
<1> SUFFICES ASSUME SnapshotInv, [BackupNext]_backupVars PROVE SnapshotInv'
  OBVIOUS
<1>1. CASE BackupNext
  BY <1>1, BackupTypesKept, ExclusionKept, ViewsKept DEF SnapshotInv
<1>2. CASE UNCHANGED backupVars
  BY <1>2 DEF backupVars, SnapshotInv, BackupTypeOK, TheyExclude, Restoring, Publishing,
              ViewsAreMoments, OfMix, Followed
<1> QED
  BY <1>1, <1>2

\* A backup goes by what it saw while nobody wrote, in every reachable state.
THEOREM ViewsAreTaken == BackupSpec => []SnapshotInv
BY InitSnapshot, StepSnapshot, PTL DEF BackupSpec

\* What a backup seals of a mix was there together at a moment since it began when nobody wrote
\* it.
THEOREM SnapshotsAreWhole == BackupSpec => SnapshotIsWhole
<1>1. ASSUME SnapshotInv, BackupNext, snapshot' # snapshot, snapshot'.skipped = {}
      PROVE  snapshot'.files \in moments
  <2>1. Seal
    <3>1. ~Restorers
      BY <1>1, RestorersTypes DEF SnapshotInv
    <3>2. ~Servers
      BY <1>1, ServerMoves, TreeIsWritten DEF SnapshotInv, Servers
    <3> QED
      BY <1>1, <3>1, <3>2 DEF BackupNext, Restorers, Servers, BackupBegins, ViewMix, CopyOne,
                              BackupDies
  <2> QED
    BY <1>1, <2>1, SealIs DEF SnapshotInv, ViewsAreMoments
<1>2. SnapshotInv /\ [BackupNext]_backupVars =>
          [snapshot' # snapshot /\ snapshot'.skipped = {}
              => snapshot'.files \in moments]_backupVars
  BY <1>1
<1> QED
  BY <1>2, ViewsAreTaken, PTL DEF BackupSpec, SnapshotIsWhole

-----------------------------------------------------------------------------
(* One recoverable boundary. *)

\* Whoever died: of each file, the original is kept, or still in its place, or there was none.
OriginalsAreKept ==
    Publishing => \A x \in Tree :
        /\ staging.kept[x] # 0 => staging.kept[x] = before[x] /\ x \notin staging.fresh
        /\ staging.kept[x] = 0 => disk[x] = before[x] \/ x \in staging.fresh
        /\ x \in staging.fresh => before[x] = 0

Placed(x) == staging.contents[x] # 0 /\ x \notin staging.waiting

\* A restore that publishes is on its way to its goal.
FollowsItsJournal ==
    restorer.at = "publishing" =>
        /\ Publishing /\ ~restorer.incomplete
        /\ staging.contents["database"] # 0 /\ staging.contents["wal"] = 0
        /\ goal = [x \in Tree |-> IF x \in Preserved THEN before[x] ELSE staging.contents[x]]
        /\ \A x \in Tree :
              /\ x \in staging.waiting => staging.contents[x] # 0
              /\ staging.contents[x] # 0 /\ before[x] = 0 => x \in staging.fresh
              /\ Placed(x) => disk[x] = staging.contents[x]
              /\ ~Placed(x) => /\ x \notin restorer.published
                               /\ staging.kept[x] # 0 \/ x \in staging.fresh => disk[x] = 0
              /\ x \in Preserved => staging.kept[x] = 0 /\ x \notin staging.fresh

\* It remembers what it has moved and so may undo it, but for what is astray.
RemembersItsMoves ==
    restorer.at \in {"publishing", "undoing"} =>
        IF Publishing
        THEN \A x \in Tree :
                /\ ~restorer.incomplete /\ x \notin astray =>
                      /\ staging.kept[x] # 0 => x \in restorer.replaced
                      /\ x \in staging.fresh /\ disk[x] # 0 => x \in restorer.published
                /\ x \in restorer.replaced => staging.kept[x] # 0
                /\ x \in restorer.published => x \in staging.fresh \/ staging.kept[x] # 0
        ELSE /\ Moved \subseteq astray
             /\ Moved # {} => \A x \in Tree \ astray : disk[x] = before[x]

\* Before its journal is written it has moved nothing; when it leaves, its journal is closed,
\* all is undone, or the tree stays.
BeginsAndEnds ==
    /\ restorer.at \in {"recovering", "staged"} =>
          restorer.published = {} /\ restorer.replaced = {} /\ ~restorer.incomplete
    /\ restorer.at = "recovering" => snapshot.database # 0
    /\ restorer.at = "staged" =>
          /\ staging.journal = "staged" /\ staging.kept = [x \in Tree |-> 0]
          /\ staging.contents["database"] # 0 /\ staging.contents["wal"] = 0
    /\ restorer.at = "leaving" /\ Publishing /\ ~restorer.incomplete =>
          \A x \in Tree \ astray : disk[x] = before[x]

RestoreInv ==
    /\ OriginalsAreKept /\ FollowsItsJournal /\ RemembersItsMoves /\ BeginsAndEnds
    /\ AllOrNothing

LEMMA UndoKeeps == ASSUME SnapshotInv, RestoreInv, Undo PROVE RestoreInv'
<1>1. BackupTypeOK /\ Publishing /\ restorer.at \in {"idle", "recovering"}
  BY UndoIs DEF SnapshotInv, TheyExclude, Restoring, Recovers
<1>2. /\ disk \in [Tree -> Version] /\ staging \in Stagings /\ before \in [Tree -> Version]
      /\ UNCHANGED <<restorer, snapshot, before, goal>> /\ (Publishing' => UNCHANGED astray)
  BY <1>1, UndoIs DEF BackupTypeOK, Stagings
<1>3. FollowsItsJournal' /\ RemembersItsMoves' /\ BeginsAndEnds'
  BY <1>1, <1>2 DEF RestoreInv, FollowsItsJournal, RemembersItsMoves, BeginsAndEnds
<1>4. CASE UNCHANGED staging /\ \E x \in staging.fresh : disk' = [disk EXCEPT ![x] = 0]
  <2>1. PICK x \in staging.fresh : disk' = [disk EXCEPT ![x] = 0]
    BY <1>4
  <2>2. \A y \in Tree : disk'[y] = disk[y] \/ (y \in staging.fresh /\ disk'[y] = 0)
    BY <1>2, <2>1 DEF Stagings
  <2> QED
    BY <1>1, <1>2, <1>3, <1>4, <2>2 DEF RestoreInv, OriginalsAreKept, AllOrNothing, Publishing
<1>5. CASE /\ ToRemove = {} /\ UNCHANGED <<staging.journal, staging.fresh>>
           /\ \E x \in Tree : /\ staging.kept[x] # 0
                              /\ disk' = [disk EXCEPT ![x] = staging.kept[x]]
                              /\ staging'.kept = [staging.kept EXCEPT ![x] = 0]
  <2>1. PICK x \in Tree : /\ staging.kept[x] # 0
                          /\ disk' = [disk EXCEPT ![x] = staging.kept[x]]
                          /\ staging'.kept = [staging.kept EXCEPT ![x] = 0]
    BY <1>5
  <2>2. /\ disk'[x] = staging.kept[x] /\ staging'.kept[x] = 0
        /\ \A y \in Tree : y # x => disk'[y] = disk[y] /\ staging'.kept[y] = staging.kept[y]
    BY <1>2, <2>1 DEF Stagings
  <2> QED
    BY <1>1, <1>2, <1>3, <1>5, <2>1, <2>2 DEF RestoreInv, OriginalsAreKept, AllOrNothing, Publishing
<1>6. CASE /\ ToRemove = {} /\ There(staging.kept) = {}
           /\ staging'.journal = "rolled-back" /\ UNCHANGED disk /\ astray' = {}
  <2>1. \A x \in Tree : staging.kept[x] = 0 /\ (x \in staging.fresh => disk[x] = 0)
    BY <1>2, <1>6 DEF There, ToRemove, Stagings
  <2>2. \A x \in Tree : disk[x] = before[x]
    BY <1>1, <2>1 DEF RestoreInv, OriginalsAreKept
  <2>3. disk = before
    BY <1>2, <2>2
  <2> QED
    BY <1>2, <1>3, <1>6, <2>3 DEF RestoreInv, OriginalsAreKept, AllOrNothing, Publishing
<1> QED
  BY <1>1, <1>4, <1>5, <1>6, UndoIs

LEMMA DiscardKeeps == ASSUME SnapshotInv, RestoreInv, Discard PROVE RestoreInv'
<1>1. /\ ~Publishing /\ ~Publishing' /\ UNCHANGED <<disk, restorer, snapshot, measures>>
      /\ restorer.at \in {"idle", "recovering"}
  BY DiscardIs, EmptyTreesAre DEF SnapshotInv, TheyExclude, Restoring, Recovers, Publishing, BackupTypeOK
<1> QED
  BY <1>1 DEF RestoreInv, OriginalsAreKept, FollowsItsJournal, RemembersItsMoves, BeginsAndEnds,
              AllOrNothing

LEMMA RestoreBeginsKeeps == ASSUME SnapshotInv, RestoreInv, RestoreBegins PROVE RestoreInv'
<1>1. BackupTypeOK
  BY DEF SnapshotInv
<1>2. CASE UNCHANGED measures
  BY <1>1, <1>2, RestoreBeginsIs DEF RestoreInv, OriginalsAreKept, FollowsItsJournal,
     RemembersItsMoves, BeginsAndEnds, AllOrNothing, Publishing
<1>3. CASE staging.journal = "none" /\ before' = disk /\ goal' = disk /\ astray' = {}
  BY <1>1, <1>3, RestoreBeginsIs DEF RestoreInv, OriginalsAreKept, FollowsItsJournal,
     RemembersItsMoves, BeginsAndEnds, AllOrNothing, Publishing
<1> QED
  BY <1>1, <1>2, <1>3, RestoreBeginsIs

LEMMA StageKeeps == ASSUME SnapshotInv, RestoreInv, Stage PROVE RestoreInv'
BY StageIs DEF SnapshotInv, RestoreInv, OriginalsAreKept, FollowsItsJournal, RemembersItsMoves,
   BeginsAndEnds, AllOrNothing, Publishing

LEMMA OpenJournalKeeps == ASSUME SnapshotInv, RestoreInv, OpenJournal PROVE RestoreInv'
<1>1. BackupTypeOK /\ disk \in [Tree -> Version] /\ staging \in Stagings /\ restorer \in Restores
  BY DEF SnapshotInv, BackupTypeOK, Stagings, Restores
<1>2. /\ UNCHANGED <<disk, snapshot>> /\ Publishing' /\ restorer.at = "staged"
      /\ restorer'.at = "publishing" /\ before' = disk
      /\ UNCHANGED <<staging.contents, staging.kept, staging.skipped>>
      /\ UNCHANGED <<restorer.published, restorer.replaced, restorer.incomplete>>
      /\ goal' = [x \in Tree |-> IF x \in Preserved THEN disk[x] ELSE staging.contents[x]]
      /\ Preserved' = Preserved
  BY <1>1, OpenJournalIs DEF Publishing, Preserved
<1>3. /\ restorer'.published = {} /\ restorer'.replaced = {} /\ ~restorer'.incomplete
      /\ staging'.kept = [x \in Tree |-> 0]
      /\ staging'.contents["database"] # 0 /\ staging'.contents["wal"] = 0
  BY <1>2 DEF RestoreInv, BeginsAndEnds
<1>4. \A x \in Tree : /\ x \in staging'.waiting <=> staging'.contents[x] # 0
                      /\ x \in staging'.fresh <=> staging'.contents[x] # 0 /\ disk[x] = 0
  BY <1>1, <1>2, OpenJournalIs DEF There, Stagings
<1>5. OriginalsAreKept'
  BY <1>2, <1>3, <1>4 DEF OriginalsAreKept
<1>6. FollowsItsJournal'
  <2>1. \A x \in Preserved : staging'.contents[x] = 0
    BY <1>2 DEF Preserved
  <2> QED
    BY <1>2, <1>3, <1>4, <2>1 DEF FollowsItsJournal, Placed
<1>7. RemembersItsMoves'
  BY <1>2, <1>3, <1>4 DEF RemembersItsMoves
<1> QED
  BY <1>2, <1>5, <1>6, <1>7 DEF RestoreInv, BeginsAndEnds, AllOrNothing

LEMMA NextUpIs ==
    /\ \A x \in NextUp : x \in staging.waiting \/ x \in Stale \/ x = "wal"
    /\ NextUp = {} => staging.waiting = {} /\ Stale = {} /\ disk["wal"] = 0
<1>1. /\ FirstOf(staging.waiting) \subseteq staging.waiting
      /\ FirstOf(staging.waiting) = {} => staging.waiting = {}
  BY DEF FirstOf
<1> QED
  BY <1>1 DEF NextUp

LEMMA DisplaceKeeps ==
    ASSUME SnapshotInv, RestoreInv, NEW x \in Tree, Displace(x) PROVE RestoreInv'
<1>1. BackupTypeOK /\ disk \in [Tree -> Version] /\ staging \in Stagings /\ restorer \in Restores
  BY DEF SnapshotInv, BackupTypeOK, Stagings, Restores
<1>2. /\ UNCHANGED <<snapshot, before, goal>> /\ Publishing /\ Publishing'
      /\ restorer.at = "publishing"
      /\ UNCHANGED <<staging.contents, staging.skipped, staging.fresh, staging.waiting>>
      /\ UNCHANGED <<restorer.published, restorer.incomplete>>
      /\ Preserved' = Preserved
      /\ \/ /\ restorer'.at = "publishing" /\ UNCHANGED astray
            /\ restorer'.replaced = restorer.replaced \cup {x}
         \/ /\ restorer'.at = "undoing" /\ astray' = astray \cup {x}
            /\ UNCHANGED restorer.replaced
  <2>1. restorer.at = "publishing" /\ staging'.journal = staging.journal
    BY <1>1, DisplaceIs
  <2>2. Publishing
    BY <2>1 DEF RestoreInv, FollowsItsJournal
  <2>3. staging'.contents = staging.contents /\ staging'.skipped = staging.skipped
    BY <1>1, DisplaceIs
  <2>4. Preserved' = Preserved /\ Publishing'
    BY <2>1, <2>2, <2>3 DEF Publishing, Preserved
  <2> QED
    BY <1>1, <2>2, <2>4, DisplaceIs
<1>3. /\ disk'[x] = 0 /\ staging'.kept[x] = disk[x] /\ disk[x] # 0
      /\ \A y \in Tree : y # x => disk'[y] = disk[y] /\ staging'.kept[y] = staging.kept[y]
  <2>1. /\ disk' = [disk EXCEPT ![x] = 0] /\ disk[x] # 0
        /\ staging'.kept = [staging.kept EXCEPT ![x] = disk[x]]
    BY <1>1, DisplaceIs
  <2>2. staging.kept \in [Tree -> Version]
    BY <1>1 DEF Stagings
  <2> QED
    BY <1>1, <2>1, <2>2
<1>4. ~Placed(x) /\ x \notin Preserved
  <2>1. x \in staging.waiting \/ x \in Stale \/ x = "wal"
    BY <1>1, DisplaceIs, NextUpIs
  <2>2. staging.contents["wal"] = 0 /\ "wal" \notin Files
        /\ (x \in staging.waiting => staging.contents[x] # 0)
    BY <1>2 DEF RestoreInv, FollowsItsJournal, Files
  <2>3. x \in Stale => x \in Files \ Preserved /\ staging.contents[x] = 0
    BY DEF Stale
  <2>4. x \in Preserved => x \in Files /\ staging.contents[x] = 0
    BY <1>1 DEF Preserved, Stagings
  <2> QED
    BY <2>1, <2>2, <2>3, <2>4 DEF Placed
<1>5. staging.kept[x] = 0 /\ x \notin staging.fresh /\ disk[x] = before[x]
  BY <1>2, <1>3, <1>4 DEF RestoreInv, FollowsItsJournal, OriginalsAreKept
<1>6. OriginalsAreKept'
  BY <1>2, <1>3, <1>5 DEF RestoreInv, OriginalsAreKept
<1>7. FollowsItsJournal'
  <2>1. \A y \in Tree : Placed(y)' <=> Placed(y)
    BY <1>2 DEF Placed
  <2> QED
    BY <1>2, <1>3, <1>4, <2>1 DEF RestoreInv, FollowsItsJournal
<1>8. RemembersItsMoves'
  BY <1>2, <1>3, <1>5 DEF RestoreInv, RemembersItsMoves, FollowsItsJournal
<1> QED
  BY <1>2, <1>6, <1>7, <1>8 DEF RestoreInv, BeginsAndEnds, AllOrNothing

LEMMA PutInPlaceKeeps ==
    ASSUME SnapshotInv, RestoreInv, NEW x \in Tree, PutInPlace(x) PROVE RestoreInv'
<1>1. BackupTypeOK /\ disk \in [Tree -> Version] /\ staging \in Stagings /\ restorer \in Restores
  BY DEF SnapshotInv, BackupTypeOK, Stagings, Restores
<1>2. /\ UNCHANGED <<snapshot, before, goal>> /\ Publishing /\ Publishing'
      /\ restorer.at = "publishing"
      /\ UNCHANGED <<staging.contents, staging.skipped, staging.fresh, staging.kept>>
      /\ UNCHANGED <<restorer.replaced, restorer.incomplete>>
      /\ Preserved' = Preserved
      /\ \/ /\ restorer'.at = "publishing" /\ UNCHANGED astray
            /\ restorer'.published = restorer.published \cup {x}
         \/ /\ restorer'.at = "undoing" /\ astray' = astray \cup {x}
            /\ UNCHANGED restorer.published
      /\ staging'.waiting = staging.waiting \ {x} /\ x \in staging.waiting /\ disk[x] = 0
  BY <1>1, PutInPlaceIs DEF RestoreInv, FollowsItsJournal, Publishing, Preserved
<1>3. /\ disk'[x] = staging.contents[x]
      /\ \A y \in Tree : y # x => disk'[y] = disk[y]
  BY <1>1, PutInPlaceIs DEF Stagings
<1>4. x \in staging.fresh \/ staging.kept[x] # 0
  <2>1. staging.contents[x] # 0 /\ (before[x] = 0 => x \in staging.fresh)
    BY <1>2 DEF RestoreInv, FollowsItsJournal
  <2> QED
    BY <1>2, <2>1 DEF RestoreInv, OriginalsAreKept
<1>5. OriginalsAreKept'
  BY <1>2, <1>3, <1>4 DEF RestoreInv, OriginalsAreKept
<1>6. FollowsItsJournal'
  <2>1. Placed(x)' /\ \A y \in Tree : y # x => (Placed(y)' <=> Placed(y))
    BY <1>2 DEF Placed, RestoreInv, FollowsItsJournal
  <2> QED
    BY <1>2, <1>3, <2>1 DEF RestoreInv, FollowsItsJournal
<1>7. RemembersItsMoves'
  BY <1>2, <1>3, <1>4 DEF RestoreInv, RemembersItsMoves, FollowsItsJournal
<1> QED
  BY <1>2, <1>5, <1>6, <1>7 DEF RestoreInv, BeginsAndEnds, AllOrNothing

\* A restore that has nothing left to move has reached its goal.
LEMMA CommitKeeps == ASSUME SnapshotInv, RestoreInv, Commit PROVE RestoreInv'
<1>1. BackupTypeOK /\ disk \in [Tree -> Version] /\ staging \in Stagings /\ goal \in [Tree -> Version]
  BY DEF SnapshotInv, BackupTypeOK, Stagings
<1>2. /\ UNCHANGED <<disk, snapshot, before, goal>> /\ ~Publishing'
      /\ restorer.at = "publishing" /\ restorer'.at \in {"leaving", "undoing"} /\ NextUp = {}
      /\ UNCHANGED <<restorer.published, restorer.replaced, restorer.incomplete>>
      /\ astray' = IF restorer'.at = "leaving" THEN astray ELSE astray \cup Moved
  BY <1>1, CommitIs DEF Publishing
<1>3. staging.waiting = {} /\ Stale = {} /\ disk["wal"] = 0
  BY <1>2, NextUpIs
<1>4. \A x \in Tree : disk[x] = goal[x]
  <2> SUFFICES ASSUME NEW x \in Tree PROVE disk[x] = goal[x]
    OBVIOUS
  <2>1. /\ goal[x] = IF x \in Preserved THEN before[x] ELSE staging.contents[x]
        /\ staging.contents["database"] # 0 /\ staging.contents["wal"] = 0
        /\ Placed(x) => disk[x] = staging.contents[x]
        /\ x \in Preserved => staging.kept[x] = 0 /\ x \notin staging.fresh
        /\ Publishing
    BY <1>2 DEF RestoreInv, FollowsItsJournal
  <2>2. CASE x \in Preserved
    BY <2>1, <2>2 DEF RestoreInv, OriginalsAreKept
  <2>3. CASE x \notin Preserved /\ staging.contents[x] # 0
    BY <1>3, <2>1, <2>3 DEF Placed
  <2>4. CASE x \notin Preserved /\ staging.contents[x] = 0
    <3>1. x \in Files \/ x = "wal"
      BY <2>1, <2>4 DEF Tree
    <3>2. x \in Files => disk[x] = 0
      BY <1>1, <1>3, <2>4 DEF Stale, There
    <3> QED
      BY <1>3, <2>1, <2>4, <3>1, <3>2
  <2> QED
    BY <2>2, <2>3, <2>4
<1>5. disk = goal
  BY <1>1, <1>4
<1>6. ASSUME NEW x \in Tree, x \notin astray, x \notin Moved PROVE disk[x] = before[x]
  <2>1. Publishing /\ ~restorer.incomplete
    BY <1>2 DEF RestoreInv, FollowsItsJournal
  <2>2. staging.kept[x] = 0 /\ (x \in staging.fresh => disk[x] = 0)
    BY <1>2, <1>6, <2>1 DEF RestoreInv, RemembersItsMoves, Moved
  <2> QED
    BY <2>1, <2>2 DEF RestoreInv, OriginalsAreKept
<1>7. RemembersItsMoves'
  BY <1>2, <1>6 DEF RemembersItsMoves, Moved
<1> QED
  BY <1>2, <1>5, <1>7 DEF RestoreInv, OriginalsAreKept, FollowsItsJournal, BeginsAndEnds,
                          AllOrNothing

LEMMA RaisesKeeps == ASSUME SnapshotInv, RestoreInv, Raises PROVE RestoreInv'
<1>1. BackupTypeOK
  BY DEF SnapshotInv
<1>2. UNCHANGED <<disk, staging, snapshot, measures>> /\ Publishing' = Publishing
  BY <1>1, RaisesIs DEF Publishing
<1>3. CASE restorer.at = "recovering" /\ restorer'.at = "idle"
  BY <1>2, <1>3 DEF RestoreInv, OriginalsAreKept, FollowsItsJournal, RemembersItsMoves,
                    BeginsAndEnds, AllOrNothing
<1>4. CASE /\ restorer.at \in {"staged", "publishing"} /\ restorer'.at = "undoing"
           /\ UNCHANGED <<restorer.published, restorer.replaced, restorer.incomplete>>
  <2>1. RemembersItsMoves'
    <3>1. CASE restorer.at = "publishing"
      BY <1>2, <1>4, <3>1 DEF RestoreInv, FollowsItsJournal, RemembersItsMoves, Moved
    <3>2. CASE restorer.at = "staged"
      <4>1. ~Publishing /\ restorer.published = {} /\ restorer.replaced = {} /\ ~restorer.incomplete
        BY <3>2 DEF RestoreInv, BeginsAndEnds, Publishing
      <4> QED
        BY <1>2, <1>4, <4>1 DEF RemembersItsMoves, Moved
    <3> QED
      BY <1>4, <3>1, <3>2
  <2> QED
    BY <1>2, <1>4, <2>1 DEF RestoreInv, OriginalsAreKept, FollowsItsJournal, BeginsAndEnds,
                            AllOrNothing
<1> QED
  BY <1>1, <1>3, <1>4, RaisesIs

LEMMA RollBackKeeps == ASSUME SnapshotInv, RestoreInv, RollBack PROVE RestoreInv'
<1>1. /\ BackupTypeOK /\ disk \in [Tree -> Version] /\ staging \in Stagings /\ restorer \in Restores
      /\ before \in [Tree -> Version]
  BY DEF SnapshotInv, BackupTypeOK, Stagings, Restores
<1>2. /\ restorer.at = "undoing" /\ restorer'.at \in {"undoing", "leaving"}
      /\ UNCHANGED <<snapshot, before, goal, staging.journal, staging.fresh>>
  BY <1>1, RollBackIs
<1>3. Publishing' = Publishing
  BY <1>2 DEF Publishing
\* After the mark of the commit, what it takes back is astray.
<1>4. ASSUME NEW x \in Moved, ~Publishing, UNCHANGED astray,
             \A y \in Tree : y # x => disk'[y] = disk[y], Moved' = Moved \ {x},
             restorer'.at = "undoing"
      PROVE  RestoreInv'
  <2>1. /\ Moved \subseteq astray /\ x \in astray
        /\ \A y \in Tree \ astray : disk[y] = before[y]
    BY <1>2, <1>4 DEF RestoreInv, RemembersItsMoves
  <2>2. \A y \in Tree \ astray : disk'[y] = before[y]
    BY <1>4, <2>1
  <2> QED
    BY <1>2, <1>3, <1>4, <2>1, <2>2
       DEF RestoreInv, OriginalsAreKept, FollowsItsJournal, RemembersItsMoves, BeginsAndEnds,
           AllOrNothing
<1>5. ASSUME NEW x \in restorer.published,
             disk' = [disk EXCEPT ![x] = 0] \/ (disk' = disk /\ restorer'.incomplete),
             restorer.incomplete => restorer'.incomplete,
             restorer'.at = "undoing", restorer'.published = restorer.published \ {x},
             UNCHANGED <<staging, restorer.replaced, astray>>
      PROVE  RestoreInv'
  <2>1. x \in Tree
    BY <1>1, <1>5 DEF Restores
  <2>2. /\ disk'[x] = 0 \/ (disk'[x] = disk[x] /\ restorer'.incomplete)
        /\ \A y \in Tree : y # x => disk'[y] = disk[y]
    BY <1>1, <1>5, <2>1
  <2>3. CASE Publishing
    <3>1. x \in staging.fresh \/ staging.kept[x] # 0
      BY <1>2, <1>5, <2>1, <2>3 DEF RestoreInv, RemembersItsMoves
    <3>2. OriginalsAreKept'
      BY <1>2, <1>5, <2>1, <2>2, <3>1 DEF RestoreInv, OriginalsAreKept, Publishing
    <3>3. RemembersItsMoves'
      BY <1>2, <1>3, <1>5, <2>1, <2>2, <2>3 DEF RestoreInv, RemembersItsMoves
    <3> QED
      BY <1>2, <1>3, <1>5, <2>3, <3>2, <3>3
         DEF RestoreInv, FollowsItsJournal, BeginsAndEnds, AllOrNothing
  <2>4. CASE ~Publishing /\ x \in restorer.replaced
    <3>1. /\ Moved \subseteq astray /\ x \in astray
          /\ \A y \in Tree \ astray : disk[y] = before[y]
      BY <1>2, <2>4 DEF RestoreInv, RemembersItsMoves, Moved
    <3>2. \A y \in Tree \ astray : disk'[y] = before[y]
      BY <2>2, <3>1
    <3>3. Moved' \subseteq astray' /\ UNCHANGED astray
      BY <1>5, <3>1 DEF Moved
    <3> QED
      BY <1>2, <1>3, <1>5, <2>4, <3>2, <3>3
         DEF RestoreInv, OriginalsAreKept, FollowsItsJournal, RemembersItsMoves, BeginsAndEnds,
             AllOrNothing
  <2>5. CASE ~Publishing /\ x \notin restorer.replaced
    <3>1. x \in Moved /\ Moved' = Moved \ {x}
      BY <1>5, <2>5 DEF Moved
    <3> QED
      BY <1>4, <1>5, <2>2, <2>5, <3>1
  <2> QED
    BY <2>3, <2>4, <2>5
<1>6. ASSUME NEW x \in restorer.replaced, restorer.published = {}, restorer'.published = {},
             \/ /\ disk' = [disk EXCEPT ![x] = staging.kept[x]]
                /\ staging'.kept = [staging.kept EXCEPT ![x] = 0]
             \/ UNCHANGED <<disk, staging>> /\ restorer'.incomplete,
             restorer.incomplete => restorer'.incomplete, UNCHANGED astray,
             restorer'.at = "undoing", restorer'.replaced = restorer.replaced \ {x}
      PROVE  RestoreInv'
  <2>1. x \in Tree
    BY <1>1, <1>6 DEF Restores
  <2>2. /\ \/ disk'[x] = staging.kept[x] /\ staging'.kept[x] = 0
           \/ disk'[x] = disk[x] /\ staging'.kept[x] = staging.kept[x] /\ restorer'.incomplete
        /\ \A y \in Tree : y # x => disk'[y] = disk[y] /\ staging'.kept[y] = staging.kept[y]
    BY <1>1, <1>6, <2>1 DEF Stagings
  <2>3. CASE Publishing
    <3>1. staging.kept[x] # 0
      BY <1>2, <1>6, <2>1, <2>3 DEF RestoreInv, RemembersItsMoves
    <3>2. OriginalsAreKept'
      BY <1>2, <2>1, <2>2, <2>3, <3>1 DEF RestoreInv, OriginalsAreKept, Publishing
    <3>3. RemembersItsMoves'
      BY <1>2, <1>3, <1>6, <2>1, <2>2, <2>3, <3>1
         DEF RestoreInv, RemembersItsMoves, OriginalsAreKept
    <3> QED
      BY <1>2, <1>3, <1>6, <2>3, <3>2, <3>3
         DEF RestoreInv, FollowsItsJournal, BeginsAndEnds, AllOrNothing
  <2>4. CASE ~Publishing
    <3>1. x \in Moved /\ Moved' = Moved \ {x}
      BY <1>6 DEF Moved
    <3> QED
      BY <1>4, <1>6, <2>2, <2>4, <3>1
  <2> QED
    BY <2>3, <2>4
<1>7. ASSUME astray' = astray \cup Moved, restorer'.at = "leaving",
             UNCHANGED <<disk, staging, restorer.published, restorer.replaced, restorer.incomplete>>
      PROVE  RestoreInv'
  <2>1. ASSUME Publishing, ~restorer.incomplete, NEW x \in Tree \ astray'
        PROVE  disk[x] = before[x]
    <3>1. staging.kept[x] = 0 /\ (x \in staging.fresh => disk[x] = 0)
      BY <1>2, <1>7, <2>1 DEF RestoreInv, RemembersItsMoves, Moved
    <3> QED
      BY <2>1, <3>1 DEF RestoreInv, OriginalsAreKept
  <2>2. AllOrNothing'
    BY <1>2, <1>3, <1>7 DEF RestoreInv, AllOrNothing
  <2> QED
    BY <1>2, <1>3, <1>7, <2>1, <2>2
       DEF RestoreInv, OriginalsAreKept, FollowsItsJournal, RemembersItsMoves, BeginsAndEnds
<1> QED
  BY <1>1, <1>5, <1>6, <1>7, RollBackIs

LEMMA RestoreEndsKeeps == ASSUME SnapshotInv, RestoreInv, RestoreLeaves \/ RestoreDies PROVE RestoreInv'
<1>1. /\ restorer'.at = "idle" /\ UNCHANGED <<disk, snapshot, measures>>
      /\ \/ UNCHANGED staging
         \/ ~Publishing' /\ restorer.at = "leaving" /\ ~restorer.incomplete
  BY RestoreEndsIs, EmptyTreesAre DEF SnapshotInv, Publishing
<1> QED
  BY <1>1 DEF RestoreInv, OriginalsAreKept, FollowsItsJournal, RemembersItsMoves, BeginsAndEnds,
              AllOrNothing, Publishing

\* The tree is only written by a server that serves, and then no restore has a journal.
LEMMA TreeIsWrittenKeeps == ASSUME SnapshotInv, RestoreInv, ServerStops \/ PassWrites PROVE RestoreInv'
<1>1. /\ server = "serving" /\ UNCHANGED <<staging, restorer, snapshot>>
      /\ before' = disk' /\ goal' = disk' /\ astray' = {}
  BY TreeIsWritten DEF SnapshotInv, TheyExclude
<1>2. staging.journal = "none" /\ ~Restoring
  BY <1>1 DEF SnapshotInv, TheyExclude
<1> QED
  BY <1>1, <1>2 DEF RestoreInv, OriginalsAreKept, FollowsItsJournal, RemembersItsMoves,
                    BeginsAndEnds, AllOrNothing, Publishing, Restoring

\* What neither moves a file nor a restore keeps its promise.
LEMMA OthersKeep ==
    ASSUME SnapshotInv, RestoreInv, UNCHANGED <<disk, staging, restorer, measures>>,
           snapshot' = snapshot \/ ~Restoring
    PROVE  RestoreInv'
BY DEF RestoreInv, OriginalsAreKept, FollowsItsJournal, RemembersItsMoves, BeginsAndEnds,
       AllOrNothing, Publishing, Placed, Preserved, Restoring, Moved

LEMMA ServerMovesKeeps ==
    ASSUME SnapshotInv, RestoreInv, ServerOpens \/ ServerStarts \/ ServerDies \/ PassBegins
    PROVE  RestoreInv'
<1>1. UNCHANGED <<disk, staging, restorer, snapshot>>
  BY ServerMoves DEF SnapshotInv
<1>2. CASE UNCHANGED measures
  BY <1>1, <1>2, OthersKeep
<1>3. CASE /\ staging.journal = "none" /\ (~Restoring \/ server = "opening")
           /\ before' = disk /\ goal' = disk /\ astray' = {}
  <2>1. ~Restoring
    BY <1>3 DEF SnapshotInv, TheyExclude
  <2> QED
    BY <1>1, <1>3, <2>1 DEF RestoreInv, OriginalsAreKept, FollowsItsJournal, RemembersItsMoves,
                            BeginsAndEnds, AllOrNothing, Publishing, Restoring
<1> QED
  BY <1>2, <1>3, ServerMoves DEF SnapshotInv

LEMMA InitRestore == BackupInit => RestoreInv
<1> SUFFICES ASSUME BackupInit PROVE RestoreInv
  OBVIOUS
<1>1. restorer.at = "idle" /\ staging.journal = "none" /\ before = disk
  BY EmptyTreesAre DEF BackupInit
<1> QED
  BY <1>1 DEF RestoreInv, OriginalsAreKept, FollowsItsJournal, RemembersItsMoves, BeginsAndEnds,
              AllOrNothing, Publishing

LEMMA StepRestore ==
    SnapshotInv /\ RestoreInv /\ [BackupNext]_backupVars => RestoreInv'
<1> SUFFICES ASSUME SnapshotInv, RestoreInv, [BackupNext]_backupVars PROVE RestoreInv'
  OBVIOUS
<1>1. CASE Undo \/ Discard \/ RestoreBegins \/ Stage \/ OpenJournal
  BY <1>1, UndoKeeps, DiscardKeeps, RestoreBeginsKeeps, StageKeeps, OpenJournalKeeps
<1>2. CASE \E x \in Tree : Displace(x) \/ PutInPlace(x)
  BY <1>2, DisplaceKeeps, PutInPlaceKeeps
<1>3. CASE Commit \/ Raises \/ RollBack \/ RestoreLeaves \/ RestoreDies
  BY <1>3, CommitKeeps, RaisesKeeps, RollBackKeeps, RestoreEndsKeeps
<1>4. CASE ServerStops \/ PassWrites
  BY <1>4, TreeIsWrittenKeeps
<1>5. CASE ServerOpens \/ ServerStarts \/ ServerDies \/ PassBegins
  BY <1>5, ServerMovesKeeps
<1>6. CASE Backups
  <2>1. snapshot' = snapshot \/ ~Restoring
    <3>1. CASE Seal
      BY <3>1 DEF Seal, SnapshotInv, TheyExclude, Followed
    <3> QED
      BY <1>6, <3>1 DEF Backups, BackupBegins, ViewMix, CopyOne, BackupDies
  <2> QED
    BY <1>6, <2>1, BackupsTypes, OthersKeep DEF SnapshotInv
<1>7. CASE UNCHANGED backupVars
  BY <1>7, OthersKeep DEF backupVars
<1> QED
  BY <1>1, <1>2, <1>3, <1>4, <1>5, <1>6, <1>7 DEF BackupNext, Backups

\* "Restore is one recoverable boundary": unless a journal says that a restore is publishing,
\* the installation is what the last restore was to make of it, or every file is what it was
\* before, whoever died or failed and however often, but for what an exception after its step
\* left astray.
THEOREM RestoreIsOneStep == BackupSpec => []AllOrNothing
<1>1. RestoreInv => AllOrNothing
  BY DEF RestoreInv
<1> QED
  BY <1>1, InitRestore, StepRestore, ViewsAreTaken, PTL DEF BackupSpec
=============================================================================
