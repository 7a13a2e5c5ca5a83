------------------------------ MODULE Additive ------------------------------
(***************************************************************************)
(* Paid evidence that only adds (id_detector/additive.py): the free        *)
(* evidence of a mix is fused on its own, then together with what the paid *)
(* check heard, and the Deep result is the first with those rows of the    *)
(* second that paid evidence touched and that may stand in it.             *)
(*                                                                         *)
(* Which rows are shown is decided over the whole tracklist                *)
(* (present/exports.py): a short row is let through when its artist is     *)
(* solidly in the mix and its track is not listed already.                 *)
(*                                                                         *)
(* Abstractions.                                                           *)
(*  - The two fusions are any rows: what they are fused from is not here.  *)
(*  - A place stands for rows that overlap, and all credits are of one     *)
(*    artist.  A tier is its badge; `hinted` is a hint in the evidence,    *)
(*    its flag, and the tracklist line that names the work.                *)
(*  - A row that fusion suppressed is one that is heard too little.        *)
(*  - An episode id is made of the candidate and of where it is first      *)
(*    heard, so only rows of one candidate at one place may share one.  A  *)
(*    catalogue entry is one candidate.                                    *)
(*  - At most one candidate of the mix has no catalogue entry.  It is made *)
(*    of a line of text, and titled by the work that its fusion puts this  *)
(*    line into: by one title in a fusion, maybe by another in the other.  *)
(*    The line is taken to name whatever may stand in for such a row.      *)
(***************************************************************************)
EXTENDS Naturals, FiniteSets

LOCAL INSTANCE SequencesExt

CONSTANTS
    Places,    \* stretches of the mix
    MaxPaid    \* bound: rows of the combined fusion that paid evidence touched

ASSUME PaidBounded == MaxPaid \in Nat

VARIABLES
    freeRows,     \* the free fusion
    extra,        \* rows of the combined fusion meant for the result: whether that fusion
                  \* lists the row, and the free row that has its id, if one has
    replaced,     \* free rows they stand in for
    considered    \* combined rows looked at so far

additiveVars == <<freeRows, extra, replaced, considered>>

NoEntry == 0

\* What a provider calls a recording: its catalogue entry and the words of the title.  The first
\* two are one entry under two spellings, the next two one spelling of two.  The last two are the
\* line of text, in two works.
Credits == {[entry |-> 1, title |-> <<"party">>],
            [entry |-> 1, title |-> <<"party", "at">>],
            [entry |-> 2, title |-> <<"party", "at">>],
            [entry |-> NoEntry, title |-> <<"party", "at">>],
            [entry |-> NoEntry, title |-> <<"juice">>]}

Badges == {"possible", "likely"}

\* How much of it was matched: one window, SAME_ARTIST_MIN_ON_AIR_MS, SOLID_ARTIST_ROW_MS.
OnAir == {"window", "two windows", "solid"}

Episodes == {e \in [at : Places, credit : Credits, badge : Badges, onAir : OnAir, hinted : BOOLEAN] :
                /\ e.badge = "likely" => e.onAir = "solid" /\ ~e.hinted
                /\ e.hinted => e.onAir = "two windows"}

TextOnly(e) == e.credit.entry = NoEntry

\* In one fusion the line of text is in one work.
OneWork(rows) == \A e, f \in rows : TextOnly(e) /\ TextOnly(f) => e.credit = f.credit

SameCandidate(e, f) == e.at = f.at /\ e.credit.entry = f.credit.entry

AdditiveTypeOK ==
    /\ freeRows \subseteq Episodes
    /\ extra \subseteq [row : Episodes, listed : BOOLEAN, sameId : SUBSET freeRows]
    /\ replaced \subseteq freeRows
    /\ considered \in 0..MaxPaid

AdditiveInit ==
    /\ freeRows \in {{}} \cup {{e, f} : e, f \in Episodes}
    /\ OneWork(freeRows)
    /\ extra = {} /\ replaced = {} /\ considered = 0

----------------------------------------------------------------------------
(* What is shown of a tracklist. *)

\* A row that needs no other to be listed.
ListedAlone(e) == e.badge = "likely" \/ e.hinted \/ e.onAir = "solid"

Vouches(e) == e.badge = "likely" /\ e.onAir = "solid"

SameTitle(e, f) ==
    \/ IsPrefix(e.credit.title, f.credit.title)
    \/ IsPrefix(f.credit.title, e.credit.title)

\* A short row whose artist is solidly in the mix and whose track is not listed.
Lifted(e, rows) ==
    /\ e.onAir = "two windows"
    /\ \E f \in rows : Vouches(f)
    /\ \A f \in rows : ListedAlone(f) => f.credit.entry # e.credit.entry /\ ~SameTitle(e, f)

Listed(e, rows) == ListedAlone(e) \/ Lifted(e, rows)

----------------------------------------------------------------------------
(* The merge. *)

SameWork(e, f) ==
    \/ e.credit.entry = f.credit.entry /\ ~TextOnly(e)
    \/ e.credit.title = f.credit.title

OfSameWork(row) == {f \in freeRows : f.at = row.at /\ SameWork(row, f)}

\* As Preserves, with a track that was listed allowed to be hidden.
PreservesHidden(row, listed, f) ==
    /\ Listed(f, freeRows) => row.credit.title = f.credit.title
    /\ f.badge = "likely" => row.badge = "likely"
    /\ f.hinted => row.hinted

\* The combined row keeps everything that the free evidence gave the free one.
Preserves(row, listed, f) ==
    /\ Listed(f, freeRows) => listed /\ row.credit.title = f.credit.title
    /\ f.badge = "likely" => row.badge = "likely"
    /\ f.hinted => row.hinted

\* Nothing of the free result is this track: it is added.
AddRow(item) ==
    /\ OfSameWork(item.row) = {}
    /\ extra' = extra \cup {item}
    /\ UNCHANGED replaced

ConfirmRow(item) ==
    /\ OfSameWork(item.row) # {}
    /\ \A f \in OfSameWork(item.row) : Preserves(item.row, item.listed, f)
    /\ extra' = extra \cup {item}
    /\ replaced' = replaced \cup OfSameWork(item.row)

KeepFree(item) ==
    /\ \E f \in OfSameWork(item.row) : ~Preserves(item.row, item.listed, f)
    /\ UNCHANGED <<extra, replaced>>

\* The rows of the combined fusion.  Whether it lifts a short one depends on rows of it that no
\* paid evidence touched.
Combined == {item \in [row : Episodes, listed : BOOLEAN, sameId : {{}} \cup {{f} : f \in freeRows}] :
                /\ ListedAlone(item.row) => item.listed
                /\ item.row.onAir = "window" => ~item.listed
                /\ \A f \in item.sameId : SameCandidate(item.row, f)}

ConsiderRow ==
    /\ considered < MaxPaid
    /\ considered' = considered + 1
    /\ \E item \in Combined :
        /\ OneWork({item.row} \cup {x.row : x \in extra})
        /\ AddRow(item) \/ ConfirmRow(item) \/ KeepFree(item)
    /\ UNCHANGED freeRows

\* A row whose id a kept free row has is left out.
LeftOut(item) == \E f \in item.sameId : f \notin replaced

\* The rows of the result, and which are listed by the fusion they are from.
Merged == {[row |-> f, listed |-> Listed(f, freeRows)] : f \in freeRows \ replaced}
            \cup {[row |-> item.row, listed |-> item.listed] : item \in {x \in extra : ~LeftOut(x)}}

AdditiveNext == ConsiderRow

AdditiveSpec == AdditiveInit /\ [][AdditiveNext]_additiveVars

----------------------------------------------------------------------------
(* What the Deep result promises. *)

\* The row has all that the free evidence gave f: its place and work, and no less of its tier,
\* of its hints, and of its place and name in the list.
HasAllOf(item, f) ==
    /\ item.row.at = f.at /\ SameWork(item.row, f)
    /\ Listed(f, freeRows) => item.listed /\ item.row.credit.title = f.credit.title
    /\ f.badge = "likely" => item.row.badge = "likely"
    /\ f.hinted => item.row.hinted

\* The one way a free row is lost: what stands in for it is the line of text, which the two
\* fusions put into different works, and it is left out for the free row of that line.
LostToItsId(f) ==
    \E x \in extra : /\ HasAllOf(x, f) /\ TextOnly(x.row)
                      /\ \E g \in x.sameId \ replaced : TextOnly(g) /\ g.credit # x.row.credit

\* "Paid evidence may confirm or add a row, never remove a row the free evidence supports", but
\* for that one way: every free row is in the result, or a row that has all of it.
NothingFreeIsLost ==
    \A f \in freeRows : LostToItsId(f) \/ \E item \in Merged : HasAllOf(item, f)

\* The same of every row; the code does not keep this.
NoneIsLost == \A f \in freeRows : \E item \in Merged : HasAllOf(item, f)

\* "A row the free evidence lists on its own is never removed, demoted or re-labelled": what
\* the result keeps of the free rows is still listed.  The code does not keep this: another
\* play of the track, added under its own credit, takes away what lifted the free row.
KeptStaysListed ==
    \A f \in freeRows \ replaced :
        Listed(f, freeRows) => Listed(f, {item.row : item \in Merged})
=============================================================================
