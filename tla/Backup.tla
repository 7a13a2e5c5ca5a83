------------------------------- MODULE Backup -------------------------------
(***************************************************************************)
(* Snapshots of an installation and their restore (idea_web/backup.py),    *)
(* beside the server that opens, recovers and serves the same work folder  *)
(* (jobs/local.py) and the passes of its analyses.                         *)
(*                                                                         *)
(* A restore moves files one at a time, under a journal that names them;   *)
(* any process may die between two moves, and whoever takes the locks next *)
(* undoes what it finds.                                                   *)
(*                                                                         *)
(* Abstractions.                                                           *)
(*  - A file is the number of the pass that wrote it, 0 if it is not       *)
(*    there: two files of one mix, the database and its write-ahead log,   *)
(*    which belongs to the database it was opened with.                    *)
(*  - A snapshot is sealed or not there; what it holds verifies.           *)
(*  - Every pass is one of the server: an analysis from the command line,  *)
(*    a worker that outlives its window and a second window take no part.  *)
(*  - A file that a restore put back may be the same and yet another to a  *)
(*    backup, which knows it by its identity on the disk.                  *)
(*  - A backup that a restore overlaps, or what a dead one left, is not    *)
(*    followed: the code keeps them apart by no lock, so nothing is claimed *)
(*    of it, and it changes nothing but its own copy.  Snapshots with what *)
(*    it may have missed are among the first.                              *)
(*  - Nothing of a mix is collected; what a backup creates by opening a    *)
(*    database that is not there is left out, and so are corpora, links,   *)
(*    tampering and hint evidence.                                         *)
(***************************************************************************)
EXTENDS Naturals, FiniteSets

CONSTANTS
    MaxVersion,   \* bound: passes ever begun, the first before the start
    MaxLate       \* bound: exceptions of a restore after a step took effect

ASSUME BackupBounded == MaxVersion \in Nat \ {0} /\ MaxLate \in Nat

VARIABLES
    disk,       \* the version of each file
    staging,    \* the staging tree of a restore, with its journal
    restorer,   \* the restore that runs: where it is, and what it remembers having moved
    server,     \* where the server is
    writing,    \* the pass that holds the media lock: where it is
    versions,   \* passes so far
    capture,    \* the backup that runs: where it is, and what it has seen
    snapshot,   \* the snapshot sealed last
    late,       \* such exceptions so far
    before, goal,   \* history: the tree before the last restore, and what it is to make of it
    astray,         \* history: what a restore that failed may have left in neither place
    moments         \* history: what the mix was whenever nobody wrote it, since a backup began

measures == <<before, goal, astray>>
backupVars == <<disk, staging, restorer, server, writing, versions, capture, snapshot, measures,
                late, moments>>

Files == {"run", "pointer"}
Tree == Files \cup {"database", "wal"}
Version == 0..MaxVersion
There(files) == {x \in DOMAIN files : files[x] # 0}
OfMix(tree) == [f \in Files |-> tree[f]]

\* journal: "none" without a tree, "staged" before the journal is written.
\* fresh: the targets where nothing stood; waiting: what is still to be published.
NoStaging == [journal |-> "none", contents |-> [x \in Tree |-> 0], skipped |-> {},
              fresh |-> {}, waiting |-> {}, kept |-> [x \in Tree |-> 0]]
NoRestore == [at |-> "idle", published |-> {}, replaced |-> {}, incomplete |-> FALSE]
NoCapture == [at |-> "idle", attempt |-> 1, database |-> 0, skipped |-> {},
              view |-> [f \in Files |-> 0], copied |-> {}]
NoSnapshot == [files |-> [f \in Files |-> 0], skipped |-> {}, database |-> 0]

BackupTypeOK ==
    /\ disk \in [Tree -> Version]
    /\ staging \in [journal : {"none", "staged", "publishing", "committed", "rolled-back"},
                    contents : [Tree -> Version], skipped : SUBSET Files, fresh : SUBSET Tree,
                    waiting : SUBSET Tree, kept : [Tree -> Version]]
    /\ restorer \in [at : {"idle", "recovering", "staged", "publishing", "undoing", "leaving"},
                     published : SUBSET Tree, replaced : SUBSET Tree, incomplete : BOOLEAN]
    /\ server \in {"off", "opening", "opened", "starting", "serving"}
    /\ writing \in {"nothing", "run", "pointer", "settling"}
    /\ versions \in Version /\ late \in 0..MaxLate
    /\ capture \in [at : {"idle", "view", "copy", "seal"}, attempt : 1..2, database : Version,
                    skipped : SUBSET Files, view : [Files -> Version], copied : SUBSET Files]
    /\ snapshot \in [files : [Files -> Version], skipped : SUBSET Files, database : Version]
    /\ {before, goal} \subseteq [Tree -> Version]
    /\ astray \in SUBSET Tree
    /\ moments \subseteq [Files -> Version]

\* An installation in use, with no snapshot or one that knew nothing of the mix or missed part of
\* it, or an empty one and a snapshot from elsewhere.
BackupInit ==
    /\ \/ /\ disk = [x \in Tree |-> IF x = "wal" THEN 0 ELSE 1]
          /\ snapshot \in {NoSnapshot} \cup
                {[files |-> [f \in Files |-> 0], skipped |-> skipped, database |-> 1] :
                    skipped \in {{}, {"run"}, Files}}
       \/ /\ disk = [x \in Tree |-> 0]
          /\ snapshot = [NoSnapshot EXCEPT !.files = [f \in Files |-> 1], !.database = 1]
    /\ staging = NoStaging /\ restorer = NoRestore /\ capture = NoCapture
    /\ server = "off" /\ writing = "nothing"
    /\ versions = 1 /\ late = 0
    /\ before = disk /\ goal = disk /\ astray = {}
    /\ moments = {}

\* A process of the server and one of a restore exclude each other by two locks: restore.lock,
\* which a server holds until its database is open, and the supervisor's, which it holds from
\* when it starts its worker.
Opening == server = "opening"
Supervising == server \in {"starting", "serving"}
Restoring == restorer.at # "idle"
Publishing == staging.journal = "publishing"
Followed == capture.at # "idle"

\* Once no restore has left anything to recover, what it did is past.
Remember ==
    IF staging.journal = "none" THEN before' = disk /\ goal' = disk /\ astray' = {}
                                ELSE UNCHANGED measures

----------------------------------------------------------------------------
(* recover_interrupted(): by a server that opens or starts, or a restore that begins. *)

Recovers == server \in {"opening", "starting"} \/ restorer.at = "recovering"

\* Mutant of ToRemove: what was published stays.
ToRemoveNothing == {}

\* _recover_one(): first what was published where nothing stood, then the originals, each
\* durably; then the journal is closed, and the tree goes.
ToRemove == staging.fresh \cap There(disk)

Undo ==
    /\ Recovers /\ Publishing
    /\ \/ \E x \in ToRemove :
             disk' = [disk EXCEPT ![x] = 0] /\ UNCHANGED <<staging, astray>>
       \/ /\ ToRemove = {}
          /\ \E x \in There(staging.kept) :
                /\ disk' = [disk EXCEPT ![x] = staging.kept[x]]
                /\ staging' = [staging EXCEPT !.kept[x] = 0]
          /\ UNCHANGED astray
       \/ /\ ToRemove = {} /\ There(staging.kept) = {}
          /\ staging' = [staging EXCEPT !.journal = "rolled-back"] /\ UNCHANGED disk
          /\ astray' = {}
    /\ UNCHANGED <<restorer, server, writing, versions, capture, snapshot, before, goal>>

Discard ==
    /\ Recovers
    /\ staging.journal \in {"staged", "committed", "rolled-back"}
    /\ staging' = NoStaging
    /\ UNCHANGED <<disk, restorer, server, writing, versions, capture, snapshot, measures>>

----------------------------------------------------------------------------
(* restore() *)

RestoreBegins ==
    /\ ~Restoring /\ ~Opening /\ ~Supervising
    /\ snapshot.database # 0
    /\ restorer' = [NoRestore EXCEPT !.at = "recovering"]
    /\ capture' = NoCapture
    /\ Remember
    /\ UNCHANGED <<disk, staging, server, writing, versions, snapshot>>

\* Every byte is staged and proven before anything moves.
Stage ==
    /\ restorer.at = "recovering" /\ staging.journal = "none"
    /\ staging' = [NoStaging EXCEPT
                      !.journal = "staged", !.skipped = snapshot.skipped,
                      !.contents = [x \in Tree |->
                          CASE x \in Files -> snapshot.files[x]
                            [] x = "database" -> snapshot.database
                            [] OTHER -> 0]]
    /\ restorer' = [restorer EXCEPT !.at = "staged"]
    /\ UNCHANGED <<disk, server, writing, versions, capture, snapshot, measures>>

\* What the snapshot knows of and does not hold is left as it is; what it knows nothing of goes.
Preserved == {f \in staging.skipped : staging.contents[f] = 0}
Stale == {f \in Files \ Preserved : staging.contents[f] = 0} \cap There(disk)

\* The journal names every target and whether something stood there.
OpenJournal ==
    LET targets == There(staging.contents)
    IN  /\ restorer.at = "staged"
        /\ staging' = [staging EXCEPT !.journal = "publishing", !.waiting = targets,
                                      !.fresh = targets \ There(disk)]
        /\ restorer' = [restorer EXCEPT !.at = "publishing"]
        /\ before' = disk /\ astray' = {}
        /\ goal' = [x \in Tree |-> IF x \in Preserved THEN disk[x] ELSE staging.contents[x]]
        /\ UNCHANGED <<disk, server, writing, versions, capture, snapshot>>

\* The files of a snapshot are in the order of their paths.
FirstOf(targets) ==
    IF "run" \in targets THEN {"run"} ELSE IF "pointer" \in targets THEN {"pointer"} ELSE targets

\* What moves next: what is stale, the log, the files, and the database last; the original of a
\* target and then the target.
NextUp ==
    LET displaced == staging.waiting \cap There(staging.kept)
    IN  CASE displaced # {} -> displaced
          [] displaced = {} /\ Stale # {} -> Stale
          [] displaced = {} /\ Stale = {} /\ disk["wal"] # 0 -> {"wal"}
          [] OTHER -> FirstOf(staging.waiting)

\* A rollback goes the other way.
LastOf(moved) ==
    LET targets == moved \cap There(staging.contents)
    IN  IF "database" \in moved THEN {"database"}
        ELSE IF "pointer" \in targets THEN {"pointer"}
        ELSE IF targets # {} THEN targets
        ELSE IF "wal" \in moved THEN {"wal"} ELSE moved

\* What the restore remembers having moved: all that its rollback goes by.
Moved == restorer.published \cup restorer.replaced

\* An exception that comes after a step took effect, from its flush say, leaves no record of it.
Records(restorerThen, lost) ==
    \/ restorer' = restorerThen /\ UNCHANGED astray
    \/ restorer' = [restorer EXCEPT !.at = "undoing"] /\ astray' = astray \cup lost

Displace(x) ==
    /\ restorer.at = "publishing" /\ x \in NextUp /\ disk[x] # 0
    /\ disk' = [disk EXCEPT ![x] = 0]
    /\ staging' = [staging EXCEPT !.kept[x] = disk[x]]
    /\ Records([restorer EXCEPT !.replaced = @ \cup {x}], {x})
    /\ UNCHANGED <<server, writing, versions, capture, snapshot, before, goal>>

PutInPlace(x) ==
    /\ restorer.at = "publishing" /\ x \in NextUp \cap staging.waiting /\ disk[x] = 0
    /\ disk' = [disk EXCEPT ![x] = staging.contents[x]]
    /\ staging' = [staging EXCEPT !.waiting = @ \ {x}]
    /\ Records([restorer EXCEPT !.published = @ \cup {x}], {x})
    /\ UNCHANGED <<server, writing, versions, capture, snapshot, before, goal>>

Commit ==
    /\ restorer.at = "publishing" /\ NextUp = {}
    /\ staging' = [staging EXCEPT !.journal = "committed"]
    /\ Records([restorer EXCEPT !.at = "leaving"], Moved)
    /\ UNCHANGED <<disk, server, writing, versions, capture, snapshot, before, goal>>

\* An exception before the next step; one that comes while it still recovers leaves at once.
Raises ==
    /\ \/ restorer.at = "recovering" /\ restorer' = NoRestore
       \/ /\ restorer.at \in {"staged", "publishing"}
          /\ restorer' = [restorer EXCEPT !.at = "undoing"]
    /\ UNCHANGED <<disk, staging, server, writing, versions, capture, snapshot, measures>>

\* What this process published is removed, then the originals are put back.  A step the disk
\* refuses, before it or after, leaves the rest to the next recovery; one that is interrupted
\* leaves at once, with what is still moved.
RollBack ==
    /\ restorer.at = "undoing"
    /\ \/ \E x \in LastOf(restorer.published), refused \in BOOLEAN :
             /\ disk' = [disk EXCEPT ![x] = 0] \/ (refused /\ UNCHANGED disk)
             /\ restorer' = [restorer EXCEPT !.published = @ \ {x},
                                             !.incomplete = @ \/ refused]
             /\ UNCHANGED <<staging, astray>>
       \/ \E x \in LastOf(restorer.replaced), refused \in BOOLEAN :
             /\ restorer.published = {}
             /\ \/ /\ disk' = [disk EXCEPT ![x] = staging.kept[x]]
                   /\ staging' = [staging EXCEPT !.kept[x] = 0]
                \/ refused /\ UNCHANGED <<disk, staging>>
             /\ restorer' = [restorer EXCEPT !.replaced = @ \ {x},
                                             !.incomplete = @ \/ refused]
             /\ UNCHANGED astray
       \/ /\ restorer' = [restorer EXCEPT !.at = "leaving"]
          /\ astray' = astray \cup Moved
          /\ UNCHANGED <<disk, staging>>
    /\ UNCHANGED <<server, writing, versions, capture, snapshot, before, goal>>

\* The tree goes, unless an original is still in it; the locks are released.
RestoreLeaves ==
    /\ restorer.at = "leaving"
    /\ staging' = IF restorer.incomplete THEN staging ELSE NoStaging
    /\ restorer' = NoRestore
    /\ UNCHANGED <<disk, server, writing, versions, capture, snapshot, measures>>

RestoreDies ==
    /\ Restoring
    /\ restorer' = NoRestore
    /\ UNCHANGED <<disk, staging, server, writing, versions, capture, snapshot, measures>>

----------------------------------------------------------------------------
(* The server and its passes. *)

\* local_database(): restore_excluded() refuses while a restore runs, and holds its lock until
\* the database is migrated.
ServerOpens ==
    /\ \/ server = "off" /\ ~Restoring /\ server' = "opening"
       \/ server = "opening" /\ staging.journal = "none" /\ server' = "opened"
    /\ Remember
    /\ UNCHANGED <<disk, staging, restorer, writing, versions, capture, snapshot>>

\* LocalWorkerSupervisor.start(): refused if a restore holds the lock.
ServerStarts ==
    /\ \/ server = "opened" /\ server' = IF Restoring THEN "off" ELSE "starting"
       \/ server = "starting" /\ staging.journal = "none" /\ server' = "serving"
    /\ UNCHANGED <<disk, staging, restorer, writing, versions, capture, snapshot, measures>>

\* The last connection that closes folds the log into the database.
ServerStops ==
    /\ server = "serving" /\ writing = "nothing"
    /\ server' = "off"
    /\ disk' = [disk EXCEPT !["database"] = IF disk["wal"] = 0 THEN @ ELSE disk["wal"],
                            !["wal"] = 0]
    /\ before' = disk' /\ goal' = disk' /\ astray' = {}
    /\ UNCHANGED <<staging, restorer, writing, versions, capture, snapshot>>

ServerDies ==
    /\ server # "off"
    /\ server' = "off" /\ writing' = "nothing"
    /\ UNCHANGED <<disk, staging, restorer, versions, capture, snapshot, measures>>

PassBegins ==
    /\ server = "serving" /\ writing = "nothing"
    /\ versions < MaxVersion
    /\ versions' = versions + 1
    /\ writing' = "run"
    /\ UNCHANGED <<disk, staging, restorer, server, capture, snapshot, measures>>

\* The frozen run, the pointer, and what the database says of the run.
PassWrites ==
    /\ writing # "nothing"
    /\ LET x == IF writing = "settling" THEN "wal" ELSE writing
       IN  disk' = [disk EXCEPT ![x] = versions]
    /\ writing' = CASE writing = "run" -> "pointer" [] writing = "pointer" -> "settling"
                    [] OTHER -> "nothing"
    /\ before' = disk' /\ goal' = disk' /\ astray' = {}
    /\ UNCHANGED <<staging, restorer, server, versions, capture, snapshot>>

----------------------------------------------------------------------------
(* backup(): one that is followed, or none. *)

\* The database first, with what its log holds; it names the mixes, and one of which nothing is
\* on disk is skipped.  It takes no lock of a restore: one that begins beside it, or beside what a
\* dead one left, is not followed.
BackupBegins ==
    /\ capture.at = "idle" /\ disk["database"] # 0
    /\ capture' = IF Restoring \/ Publishing THEN NoCapture
                  ELSE [NoCapture EXCEPT
                      !.at = IF There(OfMix(disk)) # {} THEN "view" ELSE "seal",
                      !.skipped = IF There(OfMix(disk)) # {} THEN {} ELSE Files,
                      !.database = IF disk["wal"] = 0 THEN disk["database"] ELSE disk["wal"]]
    /\ UNCHANGED <<disk, staging, restorer, server, writing, versions, snapshot, measures>>

\* Under the media lock, which it never waits for: what is there now.  A mix that is busy is
\* left out whole.
ViewMix ==
    /\ capture.at = "view"
    /\ capture' = IF writing # "nothing"
                  THEN [capture EXCEPT !.at = "seal", !.skipped = Files]
                  ELSE [capture EXCEPT !.at = "copy", !.view = OfMix(disk)]
    /\ UNCHANGED <<disk, staging, restorer, server, writing, versions, snapshot, measures>>

\* Mutant of CopyOne: what is there is copied.
CopyOneUnchecked ==
    /\ capture.at = "copy"
    /\ \E f \in There(capture.view) \ capture.copied :
          capture' = [capture EXCEPT !.copied = @ \cup {f}, !.view[f] = disk[f]]
    /\ UNCHANGED <<disk, staging, restorer, server, writing, versions, snapshot, measures>>

\* Outside the lock: a copy counts if the file is still what the view says; else the mix is
\* captured anew, and the second time the backup is refused.
CopyOne ==
    /\ capture.at = "copy"
    /\ \E f \in There(capture.view) \ capture.copied :
          capture' = CASE disk[f] = capture.view[f] ->
                             [capture EXCEPT !.copied = @ \cup {f}]
                       [] disk[f] # capture.view[f] /\ capture.attempt = 1 ->
                             [capture EXCEPT !.at = "view", !.attempt = 2, !.copied = {}]
                       [] OTHER -> NoCapture
    /\ UNCHANGED <<disk, staging, restorer, server, writing, versions, snapshot, measures>>

\* A result the database names and the copy lacks refuses the backup, a run is skipped.
Seal ==
    LET files == [f \in Files |-> IF f \in capture.copied THEN capture.view[f] ELSE 0]
    IN  /\ \/ capture.at = "seal"
           \/ capture.at = "copy" /\ There(capture.view) = capture.copied
        /\ capture' = NoCapture
        /\ snapshot' =
             IF capture.at = "copy" /\ files["pointer"] < capture.database THEN snapshot
             ELSE [files |-> files, database |-> capture.database,
                   skipped |-> IF files["run"] = 0 THEN capture.skipped \cup {"run"}
                                                   ELSE capture.skipped]
        /\ UNCHANGED <<disk, staging, restorer, server, writing, versions, measures>>

BackupDies ==
    /\ Followed
    /\ capture' = NoCapture
    /\ UNCHANGED <<disk, staging, restorer, server, writing, versions, snapshot, measures>>

----------------------------------------------------------------------------

\* What the mix was whenever nobody wrote it, while a backup is followed.
Observe ==
    moments' = IF ~Followed' THEN {}
               ELSE IF writing' = "nothing" THEN moments \cup {OfMix(disk')} ELSE moments

\* An exception after its step leaves more astray.
CountLate == late' = IF astray' \subseteq astray THEN late ELSE late + 1

BackupNext ==
    /\ \/ Undo \/ Discard
       \/ RestoreBegins \/ Stage \/ OpenJournal \/ Commit \/ Raises \/ RollBack
       \/ RestoreLeaves \/ RestoreDies
       \/ \E x \in Tree : Displace(x) \/ PutInPlace(x)
       \/ ServerOpens \/ ServerStarts \/ ServerStops \/ ServerDies \/ PassBegins \/ PassWrites
       \/ BackupBegins \/ ViewMix \/ CopyOne \/ Seal \/ BackupDies
    /\ Observe
    /\ CountLate /\ late' <= MaxLate

BackupSpec == BackupInit /\ [][BackupNext]_backupVars

----------------------------------------------------------------------------
(* What backups promise. *)

\* "Restore is one recoverable boundary": unless a journal says that a restore is publishing,
\* the installation is what a snapshot makes of it, or every file is what it was before that
\* restore, whoever died or failed and however often.  The exceptions are the files of a restore
\* that failed and went on, and their history is astray: the one whose move took effect and was
\* not recorded, so that the rollback misses it and the tree with its original is deleted; and
\* what had been moved when the mark of the commit was such a step, or when the rollback itself
\* was interrupted.  A process that dies in the same places loses nothing.
AllOrNothing ==
    ~Publishing => disk = goal \/ \A x \in Tree \ astray : disk[x] = before[x]

\* What the boundary would be if every exception came before its step: not what the code does.
RestoreIsWhole == ~Publishing => disk \in {before, goal}

\* What a backup seals of a mix was there together at a moment since it began when nobody wrote
\* it, however the passes went on while it was copied.
SnapshotIsWhole ==
    [][snapshot' # snapshot /\ snapshot'.skipped = {}
          => snapshot'.files \in moments]_backupVars
=============================================================================
