---------------------------- MODULE PeopleProofs ----------------------------
(***************************************************************************)
(* What people are promised.  Of their accounts: a password reset is       *)
(* final, and answers that cross take no live session from a browser, for  *)
(* any browsers, requests, sessions and links.  Of the jobs of their own   *)
(* machine: an offer is answered once, and what a new window has stopped   *)
(* stays stopped, for any workers, jobs, approvals, attempts and restarts. *)
(***************************************************************************)
EXTENDS Accounts, LocalJobs, TLAPS

SessionRow == [live : BOOLEAN, rotate_required : BOOLEAN, replaced : BOOLEAN,
               heir_of : Sessions \cup {None}, version : Nat]
LinkRow == [open : BOOLEAN, version : Nat]
RequestRow == [at : Stages, kind : Kinds, browser : Browsers, cookie : Sessions \cup {None},
               new : Sessions \cup {None}, credential : Nat, link : Nat, effect : Effects]

\* The names of sessions that were issued, and of none.
Known == 0..Len(sessions)

\* Cookies and requests name sessions that were issued.
NamesAreIssued ==
    /\ \A b \in Browsers : jar[b] \in Known
    /\ \A r \in Requests : request[r].cookie \in Known /\ request[r].new \in Known

\* A session that was exchanged for a live one has put an end to it, and the old row says so.
HeirsReplace ==
    \A s \in DOMAIN sessions :
        LET h == sessions[s].heir_of
        IN  h # None => h \in DOMAIN sessions /\ sessions[h].replaced /\ ~sessions[h].live

\* A request that was turned away came with no live session; only a sign-out leaves; one whose
\* answer clears the cookie came with a dead one that nothing was exchanged for; one that sets
\* it has a session.
Knows(r) ==
    LET q == request[r]
    IN  /\ q.at = "dead" => ~Live(q.cookie)
        /\ q.at = "leaving" => q.kind = "logout"
        /\ q.at = "answered" /\ q.effect = "set" => q.new # None
        /\ q.at = "answered" /\ q.effect = "clear" /\ q.kind # "logout" =>
              /\ q.cookie # None /\ ~Live(q.cookie)
              /\ \A s \in DOMAIN sessions : sessions[s].heir_of # q.cookie

RequestsKnow == \A r \in Requests : Knows(r)

AccountsInv ==
    AccountsTypeOK /\ NamesAreIssued /\ HeirsReplace /\ RequestsKnow /\ ResetIsFinal

-----------------------------------------------------------------------------
\* The table of sessions only grows: a session never revives, what a row says of the past
\* stays, and a row that is exchanged for another ends that one.
Grown ==
    /\ sessions' \in Seq(SessionRow) /\ Len(sessions) <= Len(sessions')
    /\ \A s \in DOMAIN sessions :
          /\ sessions'[s].live => sessions[s].live
          /\ sessions[s].replaced => sessions'[s].replaced
          /\ sessions'[s].heir_of = sessions[s].heir_of
          /\ sessions'[s].version = sessions[s].version
    /\ \A s \in DOMAIN sessions' \ DOMAIN sessions :
          LET h == sessions'[s].heir_of
          IN  h # None => /\ h \in DOMAIN sessions /\ sessions[h].live
                          /\ sessions'[h].replaced /\ ~sessions'[h].live

LEMMA TypesAre ==
    AccountsTypeOK <=>
        /\ version \in Nat /\ links \in Seq(LinkRow) /\ sessions \in Seq(SessionRow)
        /\ jar \in [Browsers -> Sessions \cup {None}] /\ request \in [Requests -> RequestRow]
BY DEF AccountsTypeOK, LinkRow, SessionRow, RequestRow

LEMMA SameIsGrown == ASSUME AccountsInv, UNCHANGED sessions PROVE Grown
BY TypesAre DEF AccountsInv, Grown

\* Rows that change in place, by live, rotate_required and replaced alone.
LEMMA InPlaceIsGrown ==
    ASSUME AccountsInv, NEW table \in Seq(SessionRow), sessions' = table,
           Len(table) = Len(sessions),
           \A s \in DOMAIN sessions :
               /\ table[s].live => sessions[s].live
               /\ sessions[s].replaced => table[s].replaced
               /\ table[s].heir_of = sessions[s].heir_of
               /\ table[s].version = sessions[s].version
    PROVE  Grown
<1>1. sessions \in Seq(SessionRow)
  BY TypesAre DEF AccountsInv
<1>2. DOMAIN sessions = 1..Len(sessions) /\ DOMAIN table = 1..Len(sessions)
  BY <1>1
<1> QED
  BY <1>1, <1>2 DEF Grown

LEMMA RevokedIsTable ==
    ASSUME NEW table \in Seq(SessionRow)
    PROVE  /\ RevokeSessions(table) \in Seq(SessionRow)
           /\ Len(RevokeSessions(table)) = Len(table)
           /\ \A s \in DOMAIN table :
                 /\ ~RevokeSessions(table)[s].live
                 /\ RevokeSessions(table)[s].replaced = table[s].replaced
                 /\ RevokeSessions(table)[s].heir_of = table[s].heir_of
                 /\ RevokeSessions(table)[s].version = table[s].version
<1>1. \A s \in DOMAIN table : table[s] \in SessionRow
  OBVIOUS
<1>2. \A s \in DOMAIN table :
         /\ [table[s] EXCEPT !.live = FALSE] \in SessionRow
         /\ ~[table[s] EXCEPT !.live = FALSE].live
         /\ [table[s] EXCEPT !.live = FALSE].replaced = table[s].replaced
         /\ [table[s] EXCEPT !.live = FALSE].heir_of = table[s].heir_of
         /\ [table[s] EXCEPT !.live = FALSE].version = table[s].version
  BY <1>1 DEF SessionRow
<1>3. PICK n \in Nat : n = Len(table) /\ DOMAIN table = 1..n
  OBVIOUS
<1>4. /\ RevokeSessions(table) \in [1..n -> SessionRow]
      /\ \A s \in 1..n : RevokeSessions(table)[s] = [table[s] EXCEPT !.live = FALSE]
  BY <1>2, <1>3 DEF RevokeSessions
<1>5. RevokeSessions(table) \in Seq(SessionRow) /\ Len(RevokeSessions(table)) = n
  BY <1>4
<1> QED
  BY <1>2, <1>3, <1>4, <1>5

\* A new session: the table grows by one live row of this version.
LEMMA IssueIsGrown ==
    ASSUME AccountsInv, Room, NEW c \in Known, NEW v \in Nat,
           NEW table \in {sessions, RevokeSessions(sessions)},
           sessions' = IssueSession(table, c, v)
    PROVE  /\ Grown /\ Len(sessions') = Len(sessions) + 1
           /\ Len(sessions) + 1 \in Sessions
           /\ sessions'[Len(sessions) + 1].version = v
           /\ \A s \in DOMAIN sessions : sessions'[s].live => table[s].live
<1> DEFINE n == Len(sessions)
<1>1. sessions \in Seq(SessionRow) /\ n \in Nat /\ DOMAIN sessions = 1..n
  BY TypesAre DEF AccountsInv
<1>2. /\ table \in Seq(SessionRow) /\ Len(table) = n
      /\ \A s \in 1..n : /\ table[s].live => sessions[s].live
                         /\ table[s].replaced = sessions[s].replaced
                         /\ table[s].heir_of = sessions[s].heir_of
                         /\ table[s].version = sessions[s].version
  BY <1>1, RevokedIsTable
<1> DEFINE old == IF c = None THEN table
                  ELSE [table EXCEPT ![c].live = FALSE, ![c].replaced = TRUE]
           heir == IF Live(c) THEN c ELSE None
           row == [live |-> TRUE, rotate_required |-> FALSE, replaced |-> FALSE,
                   heir_of |-> heir, version |-> v]
<1>3. c \in 1..n \/ c = None
  BY <1>1 DEF Known, None
<1>4. 1..n \subseteq Sessions /\ n + 1 \in Sessions
  BY <1>1, AccountsBounded DEF Room, Sessions
<1>5. row \in SessionRow
  BY <1>3, <1>4 DEF SessionRow
<1>6. /\ old \in Seq(SessionRow) /\ Len(old) = n
      /\ \A s \in 1..n : /\ old[s].live => table[s].live
                         /\ table[s].replaced => old[s].replaced
                         /\ old[s].heir_of = table[s].heir_of
                         /\ old[s].version = table[s].version
      /\ c # None => old[c].replaced /\ ~old[c].live
  <2>1. CASE c = None
    BY <1>2, <2>1
  <2>2. CASE c \in 1..n /\ c # None
    <3> DEFINE gone == [table[c] EXCEPT !.live = FALSE, !.replaced = TRUE]
    <3>1. table[c] \in SessionRow
      BY <1>2, <2>2
    <3>2. /\ gone \in SessionRow /\ ~gone.live /\ gone.replaced
          /\ gone.heir_of = table[c].heir_of /\ gone.version = table[c].version
      BY <3>1 DEF SessionRow
    <3>3. old = [table EXCEPT ![c] = gone]
      BY <1>2, <2>2
    <3> HIDE DEF gone, old
    <3> QED
      BY <1>2, <2>2, <3>2, <3>3
  <2> QED
    BY <1>3, <2>1, <2>2
<1>7. sessions' = Append(old, row)
  BY DEF IssueSession
<1> HIDE DEF old
<1>8. /\ sessions' \in Seq(SessionRow) /\ Len(sessions') = n + 1 /\ sessions'[n + 1] = row
      /\ \A s \in 1..n : sessions'[s] = old[s]
  BY <1>1, <1>5, <1>6, <1>7
<1>9. heir # None => heir = c /\ c \in 1..n /\ sessions[c].live
  BY <1>3 DEF Live
<1>10. \A s \in DOMAIN sessions' \ DOMAIN sessions : s = n + 1
  BY <1>1, <1>8
<1>11. row.heir_of = heir /\ row.version = v
  OBVIOUS
<1> HIDE DEF row, heir
<1>12. \A s \in DOMAIN sessions' \ DOMAIN sessions :
          LET h == sessions'[s].heir_of
          IN  h # None => /\ h \in DOMAIN sessions /\ sessions[h].live
                          /\ sessions'[h].replaced /\ ~sessions'[h].live
  BY <1>1, <1>6, <1>8, <1>9, <1>10, <1>11
<1>13. Grown
  BY <1>1, <1>2, <1>6, <1>8, <1>12 DEF Grown
<1> QED
  BY <1>1, <1>4, <1>6, <1>8, <1>11, <1>13

-----------------------------------------------------------------------------
\* What is known of the sessions stays true as the table grows.

LEMMA HeirsStay == ASSUME AccountsInv, Grown PROVE HeirsReplace'
<1>1. sessions \in Seq(SessionRow) /\ DOMAIN sessions \subseteq DOMAIN sessions'
  BY TypesAre DEF AccountsInv, Grown
<1> SUFFICES ASSUME NEW s \in DOMAIN sessions', sessions'[s].heir_of # None
             PROVE  LET h == sessions'[s].heir_of
                    IN  h \in DOMAIN sessions' /\ sessions'[h].replaced /\ ~sessions'[h].live
  BY DEF HeirsReplace
<1>2. CASE s \in DOMAIN sessions
  BY <1>1, <1>2 DEF AccountsInv, HeirsReplace, Grown
<1>3. CASE s \notin DOMAIN sessions
  BY <1>1, <1>3 DEF Grown
<1> QED
  BY <1>2, <1>3

\* A dead session stays dead, and one that nothing was exchanged for stays so.
LEMMA DeadStays ==
    ASSUME AccountsInv, Grown, NEW c \in Known, ~Live(c)
    PROVE  /\ ~Live(c)'
           /\ (\A s \in DOMAIN sessions : sessions[s].heir_of # c) /\ c # None =>
                  \A s \in DOMAIN sessions' : sessions'[s].heir_of # c
<1>1. sessions \in Seq(SessionRow)
  BY TypesAre DEF AccountsInv
<1>2. c = None \/ c \in DOMAIN sessions
  BY <1>1 DEF Known, None
<1> QED
  BY <1>1, <1>2 DEF Grown, Live

LEMMA KnowledgeStays ==
    ASSUME AccountsInv, Grown, NEW r \in Requests, request'[r] = request[r]
    PROVE  Knows(r)'
<1>1. Knows(r) /\ request[r].cookie \in Known
  BY DEF AccountsInv, RequestsKnow, NamesAreIssued
<1>2. PICK c \in Known : c = request[r].cookie
  BY <1>1
<1>3. ~Live(c) => ~Live(c)'
  BY DeadStays
<1>4. ~Live(c) /\ c # None /\ (\A s \in DOMAIN sessions : sessions[s].heir_of # c) =>
          \A s \in DOMAIN sessions' : sessions'[s].heir_of # c
  BY DeadStays
<1>5. Live(c)' = (c # None /\ sessions'[c].live) /\ Live(c) = (c # None /\ sessions[c].live)
  BY DEF Live
<1> QED
  BY <1>1, <1>2, <1>3, <1>4, <1>5 DEF Knows, Live

\* A step of one request.
LEMMA RequestKeeps ==
    ASSUME AccountsInv, Grown, NEW r \in Requests, NEW row \in RequestRow,
           request' = [request EXCEPT ![r] = row], row.cookie \in Known',
           row.new \in Known', Knows(r)',
           version' \in Nat, links' \in Seq(LinkRow),
           jar' \in [Browsers -> Sessions \cup {None}],
           \A b \in Browsers : jar'[b] \in Known', ResetIsFinal'
    PROVE  AccountsInv'
<1>1. request \in [Requests -> RequestRow] /\ sessions' \in Seq(SessionRow)
  BY TypesAre DEF AccountsInv, Grown
<1>2. AccountsTypeOK'
  BY <1>1 DEF AccountsTypeOK, LinkRow, SessionRow, RequestRow
<1>3. Known \subseteq Known'
  BY TypesAre DEF AccountsInv, Grown, Known
<1>4. request'[r] = row /\ \A q \in Requests \ {r} : request'[q] = request[q]
  BY <1>1
<1>5. NamesAreIssued'
  BY <1>3, <1>4 DEF AccountsInv, NamesAreIssued
<1>6. RequestsKnow'
  BY <1>4, KnowledgeStays DEF RequestsKnow
<1>7. HeirsReplace'
  BY HeirsStay
<1> QED
  BY <1>2, <1>5, <1>6, <1>7 DEF AccountsInv

LEMMA AsideKeeps ==
    ASSUME AccountsInv, Grown, UNCHANGED <<request, jar>>, version' \in Nat,
           links' \in Seq(LinkRow), ResetIsFinal'
    PROVE  AccountsInv'
<1>1. AccountsTypeOK'
  BY TypesAre DEF AccountsInv, Grown, AccountsTypeOK, LinkRow, SessionRow, RequestRow
<1>2. Known \subseteq Known'
  BY TypesAre DEF AccountsInv, Grown, Known
<1>3. NamesAreIssued'
  BY <1>2 DEF AccountsInv, NamesAreIssued
<1>4. RequestsKnow'
  BY KnowledgeStays DEF RequestsKnow
<1> QED
  BY <1>1, <1>3, <1>4, HeirsStay DEF AccountsInv

\* No new password and no other links: what is live still rests on the password.
LEMMA FinalStays ==
    ASSUME AccountsInv, Grown, UNCHANGED <<version, links>>,
           \A s \in DOMAIN sessions' \ DOMAIN sessions : sessions'[s].version = version
    PROVE  ResetIsFinal'
<1>1. sessions \in Seq(SessionRow)
  BY TypesAre DEF AccountsInv
<1> QED
  BY <1>1 DEF AccountsInv, ResetIsFinal, Grown, Live

\* A step of one request that leaves the store as it is.
LEMMA ReadKeeps ==
    ASSUME AccountsInv, UNCHANGED <<version, links, sessions>>,
           NEW r \in Requests, NEW row \in RequestRow, request' = [request EXCEPT ![r] = row],
           row.cookie \in Known, row.new \in Known, Knows(r)',
           jar' \in [Browsers -> Sessions \cup {None}], \A b \in Browsers : jar'[b] \in Known
    PROVE  AccountsInv'
<1>1. Grown
  BY SameIsGrown
<1>2. ResetIsFinal'
  BY <1>1, FinalStays
<1>3. version' \in Nat /\ links' \in Seq(LinkRow) /\ Known' = Known
  BY TypesAre DEF AccountsInv, Known
<1> QED
  BY <1>1, <1>2, <1>3, RequestKeeps

LEMMA IdleIsRow == Idle \in RequestRow /\ Idle.cookie = None /\ Idle.new = None /\ Idle.at = "idle"
BY AccountsBounded DEF Idle, RequestRow, Stages, Kinds, Effects

-----------------------------------------------------------------------------
\* The administrator, and time.

LEMMA RevokedLinks ==
    ASSUME NEW table \in Seq(LinkRow)
    PROVE  /\ RevokeLinks(table) \in Seq(LinkRow) /\ Len(RevokeLinks(table)) = Len(table)
           /\ \A l \in DOMAIN table : ~RevokeLinks(table)[l].open
<1>1. \A l \in DOMAIN table : [table[l] EXCEPT !.open = FALSE] \in LinkRow
                              /\ ~[table[l] EXCEPT !.open = FALSE].open
  <2>1. \A l \in DOMAIN table : table[l] \in LinkRow
    OBVIOUS
  <2> QED
    BY <2>1 DEF LinkRow
<1>2. PICK n \in Nat : n = Len(table) /\ DOMAIN table = 1..n
  OBVIOUS
<1>3. /\ RevokeLinks(table) \in [1..n -> LinkRow]
      /\ \A l \in 1..n : ~RevokeLinks(table)[l].open
  BY <1>1, <1>2 DEF RevokeLinks
<1> QED
  BY <1>2, <1>3

LEMMA IssueResetKeeps == ASSUME AccountsInv, IssueReset PROVE AccountsInv'
<1> DEFINE old == RevokeLinks(links)
<1>1. links \in Seq(LinkRow) /\ version \in Nat /\ sessions \in Seq(SessionRow)
  BY TypesAre DEF AccountsInv
<1>2. /\ old \in Seq(LinkRow) /\ Len(old) = Len(links)
      /\ \A l \in 1..Len(links) : ~old[l].open
  BY <1>1, RevokedLinks
<1>3. Link(version) \in LinkRow /\ Link(version).version = version
  BY <1>1 DEF Link, LinkRow
<1>4. links' = Append(old, Link(version)) /\ UNCHANGED <<version, sessions, jar, request>>
  BY DEF IssueReset
<1> HIDE DEF old
<1>5. PICK n \in Nat : n = Len(links)
  BY <1>1
<1>6. /\ links' \in Seq(LinkRow) /\ Len(links') = n + 1 /\ links'[n + 1] = Link(version)
      /\ \A l \in 1..n : ~links'[l].open
  BY <1>2, <1>3, <1>4, <1>5
<1>7. ResetIsFinal'
  BY <1>1, <1>3, <1>4, <1>5, <1>6 DEF ResetIsFinal, AccountsInv, Live
<1> QED
  BY <1>1, <1>4, <1>6, <1>7, SameIsGrown, AsideKeeps

\* Rows that change in place.
LEMMA RowsKeep ==
    ASSUME AccountsInv, UNCHANGED <<version, links, jar, request>>, Grown,
           Len(sessions') = Len(sessions)
    PROVE  AccountsInv'
<1>1. sessions \in Seq(SessionRow) /\ sessions' \in Seq(SessionRow)
  BY TypesAre DEF AccountsInv, Grown
<1>2. DOMAIN sessions' = DOMAIN sessions
  BY <1>1
<1>3. ResetIsFinal'
  BY <1>2, FinalStays
<1> QED
  BY <1>3, AsideKeeps, TypesAre DEF AccountsInv

LEMMA SetPlanKeeps == ASSUME AccountsInv, SetPlan PROVE AccountsInv'
<1>1. sessions \in Seq(SessionRow)
  BY TypesAre DEF AccountsInv
<1>2. PICK n \in Nat : n = Len(sessions) /\ DOMAIN sessions = 1..n
  BY <1>1
<1> DEFINE row(s) == [sessions[s] EXCEPT !.rotate_required = @ \/ sessions[s].live]
<1>3. \A s \in 1..n : /\ row(s) \in SessionRow /\ row(s).live = sessions[s].live
                      /\ row(s).replaced = sessions[s].replaced
                      /\ row(s).heir_of = sessions[s].heir_of
                      /\ row(s).version = sessions[s].version
  <2> SUFFICES ASSUME NEW s \in 1..n
               PROVE  /\ row(s) \in SessionRow /\ row(s).live = sessions[s].live
                      /\ row(s).replaced = sessions[s].replaced
                      /\ row(s).heir_of = sessions[s].heir_of
                      /\ row(s).version = sessions[s].version
    OBVIOUS
  <2>1. PICK rotate \in BOOLEAN : rotate = (sessions[s].rotate_required \/ sessions[s].live)
    OBVIOUS
  <2>2. sessions[s] \in SessionRow
    BY <1>1, <1>2
  <2>3. row(s) = [sessions[s] EXCEPT !.rotate_required = rotate]
    BY <2>1, <2>2 DEF SessionRow
  <2> HIDE DEF row
  <2> QED
    BY <2>2, <2>3 DEF SessionRow
<1>4. sessions' = [s \in 1..n |-> row(s)] /\ UNCHANGED <<version, links, jar, request>>
  BY <1>2 DEF SetPlan
<1> HIDE DEF row
<1>5. sessions' \in [1..n -> SessionRow] /\ \A s \in 1..n : sessions'[s] = row(s)
  BY <1>3, <1>4
<1>6. sessions' \in Seq(SessionRow) /\ Len(sessions') = n
  BY <1>5
<1>7. Grown
  BY <1>2, <1>3, <1>5, <1>6, InPlaceIsGrown
<1> QED
  BY <1>2, <1>4, <1>6, <1>7, RowsKeep

LEMMA FunctionIsTable ==
    ASSUME NEW n \in Nat, NEW f \in [1..n -> SessionRow]
    PROVE  f \in Seq(SessionRow) /\ Len(f) = n
OBVIOUS

LEMMA EndedIsGrown ==
    ASSUME AccountsInv, NEW s \in DOMAIN sessions,
           sessions' = [sessions EXCEPT ![s].live = FALSE]
    PROVE  Grown /\ Len(sessions') = Len(sessions)
<1>1. sessions \in Seq(SessionRow)
  BY TypesAre DEF AccountsInv
<1>2. PICK row \in SessionRow : row = [sessions[s] EXCEPT !.live = FALSE]
  <2>1. sessions[s] \in SessionRow
    BY <1>1
  <2> QED
    BY <2>1 DEF SessionRow
<1>3. /\ ~row.live /\ row.replaced = sessions[s].replaced
      /\ row.heir_of = sessions[s].heir_of /\ row.version = sessions[s].version
  <2>1. sessions[s] \in SessionRow
    BY <1>1
  <2> QED
    BY <1>2, <2>1 DEF SessionRow
<1>4. sessions' = [sessions EXCEPT ![s] = row]
  BY <1>1, <1>2
<1>5. sessions' \in Seq(SessionRow) /\ Len(sessions') = Len(sessions)
  <2>1. PICK n \in Nat : n = Len(sessions) /\ DOMAIN sessions = 1..n
    BY <1>1
  <2>2. \A t \in 1..n : sessions[t] \in SessionRow
    BY <1>1, <2>1
  <2>3. sessions' = [t \in 1..n |-> IF t = s THEN row ELSE sessions[t]]
    BY <1>1, <1>4, <2>1
  <2>4. sessions' \in [1..n -> SessionRow]
    BY <2>2, <2>3
  <2> QED
    BY <2>1, <2>4, FunctionIsTable, Zenon
<1>6. \A t \in DOMAIN sessions : sessions'[t] = IF t = s THEN row ELSE sessions[t]
  BY <1>1, <1>4
<1> QED
  BY <1>3, <1>5, <1>6, InPlaceIsGrown

LEMMA ExpireKeeps == ASSUME AccountsInv, Expire PROVE AccountsInv'
<1>1. CASE \E s \in DOMAIN sessions :
              sessions' = [sessions EXCEPT ![s].live = FALSE] /\ UNCHANGED links
  BY <1>1, EndedIsGrown, RowsKeep DEF Expire
<1>2. ASSUME NEW l \in DOMAIN links, links' = [links EXCEPT ![l].open = FALSE],
             UNCHANGED <<sessions, version, jar, request>>
      PROVE  AccountsInv'
  <2>1. links \in Seq(LinkRow) /\ sessions \in Seq(SessionRow)
    BY TypesAre DEF AccountsInv
  <2> DEFINE row == [links[l] EXCEPT !.open = FALSE]
  <2>2. row \in LinkRow /\ ~row.open
    <3>1. links[l] \in LinkRow
      BY <2>1
    <3> QED
      BY <3>1 DEF LinkRow
  <2>3. links' = [links EXCEPT ![l] = row]
    BY <1>2, <2>1
  <2> HIDE DEF row
  <2>4. /\ links' \in Seq(LinkRow) /\ DOMAIN links' = DOMAIN links
        /\ \A m \in DOMAIN links : m # l => links'[m] = links[m]
        /\ ~links'[l].open
    BY <2>1, <2>2, <2>3
  <2>5. ResetIsFinal'
    BY <1>2, <2>4 DEF AccountsInv, ResetIsFinal, Live
  <2>6. version' \in Nat
    BY <1>2, TypesAre DEF AccountsInv
  <2> QED
    BY <1>2, <2>4, <2>5, <2>6, SameIsGrown, AsideKeeps
<1> QED
  BY <1>1, <1>2 DEF Expire

-----------------------------------------------------------------------------
\* The steps of a request.

\* What a request holds, named once.
LEMMA RequestIsRow ==
    ASSUME AccountsInv, NEW r \in Requests
    PROVE  /\ request[r] \in RequestRow /\ request[r].cookie \in Known
           /\ request[r].new \in Known /\ Knows(r)
BY TypesAre DEF AccountsInv, NamesAreIssued, RequestsKnow

\* Nothing is claimed of a request that is under way, or whose answer keeps the cookie.
LEMMA KnowsNothing ==
    ASSUME AccountsInv, NEW r \in Requests, NEW row,
           request' = [request EXCEPT ![r] = row],
           row.at \notin {"dead", "leaving", "answered"} \/ (row.at = "answered" /\ row.effect = "keep")
    PROVE  Knows(r)'
<1>1. request'[r] = row
  BY TypesAre DEF AccountsInv
<1> QED
  BY <1>1 DEF Knows

LEMMA NoneIsKnown == ASSUME AccountsInv PROVE None \in Known /\ Known \subseteq Nat
BY TypesAre DEF AccountsInv, Known, None

LEMMA JarStays ==
    ASSUME AccountsInv, UNCHANGED <<jar, sessions>>
    PROVE  /\ jar' \in [Browsers -> Sessions \cup {None}]
           /\ \A b \in Browsers : jar'[b] \in Known
BY TypesAre DEF AccountsInv, NamesAreIssued

LEMMA SendKeeps == ASSUME AccountsInv, NEW r \in Requests, Send(r) PROVE AccountsInv'
<1>1. PICK b \in Browsers, kind \in Kinds, l \in {0} \cup DOMAIN links :
          request' = [request EXCEPT ![r] =
                [Idle EXCEPT !.at = "sent", !.kind = kind, !.browser = b, !.cookie = jar[b],
                             !.link = l]]
  BY DEF Send
<1> DEFINE row == [Idle EXCEPT !.at = "sent", !.kind = kind, !.browser = b, !.cookie = jar[b],
                               !.link = l]
<1>2. jar[b] \in Known /\ jar[b] \in Sessions \cup {None} /\ l \in Nat
  BY TypesAre DEF AccountsInv, NamesAreIssued
<1>3. /\ row \in RequestRow /\ row.cookie = jar[b] /\ row.new = None /\ row.at = "sent"
  BY <1>2, IdleIsRow DEF RequestRow, Stages
<1> HIDE DEF row
<1>4. request' = [request EXCEPT ![r] = row] /\ UNCHANGED <<version, links, sessions, jar>>
  BY <1>1 DEF row, Send
<1> QED
  BY <1>2, <1>3, <1>4, KnowsNothing, NoneIsKnown, JarStays, ReadKeeps

\* A read of authenticate(): the cookie is alive, or the request knows that it is dead.
LEMMA ReadsCookie ==
    ASSUME AccountsInv, UNCHANGED <<version, links, sessions, jar>>, NEW r \in Requests,
           NEW at \in {"dead", "authenticated", "rotating"}, Step(r, at),
           at = "dead" => ~Live(request[r].cookie)
    PROVE  AccountsInv'
<1>1. request[r] \in RequestRow /\ request[r].cookie \in Known /\ request[r].new \in Known
  BY RequestIsRow
<1>2. PICK row \in RequestRow : row = [request[r] EXCEPT !.at = at]
  BY <1>1 DEF RequestRow, Stages
<1>3. row.at = at /\ row.cookie = request[r].cookie /\ row.new = request[r].new
  BY <1>1, <1>2 DEF RequestRow
<1>4. request' = [request EXCEPT ![r] = row] /\ request'[r] = row
  BY <1>2, TypesAre DEF Step, AccountsInv
<1>5. Knows(r)'
  BY <1>3, <1>4 DEF Knows, Live
<1> QED
  BY <1>1, <1>3, <1>4, <1>5, JarStays, ReadKeeps

LEMMA AuthenticateKeeps ==
    ASSUME AccountsInv, NEW r \in Requests, Authenticate(r) PROVE AccountsInv'
<1>1. UNCHANGED <<version, links, sessions, jar>>
  BY DEF Authenticate
<1>2. CASE ~Live(request[r].cookie) /\ Step(r, "dead")
  BY <1>1, <1>2, ReadsCookie
<1>3. CASE Step(r, "authenticated")
  BY <1>1, <1>3, ReadsCookie
<1>4. CASE Step(r, "rotating")
  BY <1>1, <1>4, ReadsCookie
<1> QED
  BY <1>2, <1>3, <1>4 DEF Authenticate

\* A transaction that issues a session, and the request that asked for it.
LEMMA IssueKeeps ==
    ASSUME AccountsInv, Room, NEW c \in Known, NEW v \in Nat,
           NEW table \in {sessions, RevokeSessions(sessions)},
           sessions' = IssueSession(table, c, v),
           NEW r \in Requests, NEW n \in Nat, n = Len(sessions) + 1,
           NEW row \in RequestRow, request' = [request EXCEPT ![r] = row],
           row.cookie = request[r].cookie, row.new = n,
           row.at = "authenticated" \/ (row.at = "answered" /\ row.effect = "set"),
           UNCHANGED jar, version' \in Nat, links' \in Seq(LinkRow), ResetIsFinal'
    PROVE  AccountsInv'
<1>1. /\ Grown /\ Len(sessions') = Len(sessions) + 1
  BY IssueIsGrown
<1>2. sessions \in Seq(SessionRow) /\ sessions' \in Seq(SessionRow)
  BY <1>1, TypesAre DEF Grown, AccountsInv
<1>3. request[r] \in RequestRow /\ request[r].cookie \in Known
  BY RequestIsRow
<1>4. n \in Known' /\ Known \subseteq Known' /\ n # None
  BY <1>1, <1>2 DEF Known, None
<1>5. request'[r] = row
  BY TypesAre DEF AccountsInv
<1>6. Knows(r)'
  BY <1>4, <1>5 DEF Knows
<1>7. /\ jar' \in [Browsers -> Sessions \cup {None}] /\ \A b \in Browsers : jar'[b] \in Known'
  BY <1>4, TypesAre DEF AccountsInv, NamesAreIssued
<1> QED
  BY <1>1, <1>3, <1>4, <1>6, <1>7, RequestKeeps

LEMMA RotateKeeps == ASSUME AccountsInv, NEW r \in Requests, Rotate(r) PROVE AccountsInv'
<1>1. UNCHANGED <<version, links, jar>>
  BY DEF Rotate
<1>2. CASE ~Live(request[r].cookie) /\ Step(r, "dead") /\ UNCHANGED sessions
  BY <1>1, <1>2, ReadsCookie
<1>3. CASE Step(r, "authenticated") /\ UNCHANGED sessions
  BY <1>1, <1>3, ReadsCookie
<1>4. CASE /\ Live(request[r].cookie) /\ Room
           /\ sessions' = IssueSession(sessions, request[r].cookie,
                                       sessions[request[r].cookie].version)
           /\ request' = [request EXCEPT ![r].at = "authenticated",
                                         ![r].new = Len(sessions) + 1]
  <2>1. PICK c \in Known : c = request[r].cookie
    BY RequestIsRow
  <2>2. sessions \in Seq(SessionRow) /\ version \in Nat /\ links \in Seq(LinkRow)
    BY TypesAre DEF AccountsInv
  <2>3. c \in DOMAIN sessions /\ sessions[c].version = version
    <3>1. Live(c) /\ c \in 1..Len(sessions)
      BY <1>4, <2>1, <2>2 DEF Live, Known, None
    <3> QED
      BY <2>2, <3>1 DEF AccountsInv, ResetIsFinal
  <2>4. PICK v \in Nat : v = version
    BY <2>2
  <2>5. sessions' = IssueSession(sessions, c, v)
    BY <1>4, <2>1, <2>3, <2>4
  <2>6. /\ Grown /\ Len(sessions') = Len(sessions) + 1 /\ Len(sessions) + 1 \in Sessions
        /\ sessions'[Len(sessions) + 1].version = v
    BY <1>4, <2>5, IssueIsGrown
  <2>7. PICK n \in Sessions : n = Len(sessions) + 1
    BY <2>6
  <2>8. request[r] \in RequestRow
    BY RequestIsRow
  <2>9. PICK row \in RequestRow : row = [request[r] EXCEPT !.at = "authenticated", !.new = n]
    BY <2>8 DEF RequestRow, Stages
  <2>10. row.at = "authenticated" /\ row.cookie = request[r].cookie /\ row.new = n
    BY <2>8, <2>9 DEF RequestRow
  <2>11. request' = [request EXCEPT ![r] = row]
    BY <1>4, <2>7, <2>9, TypesAre DEF AccountsInv
  <2>12. ResetIsFinal'
    <3>1. sessions' \in Seq(SessionRow)
      BY <2>6 DEF Grown
    <3> QED
      BY <1>1, <2>2, <2>4, <2>6, <3>1, FinalStays
  <2>13. n \in Nat /\ version' \in Nat /\ links' \in Seq(LinkRow)
    BY <1>1, <2>2, <2>7 DEF Sessions
  <2> QED
    BY <1>1, <1>4, <2>5, <2>7, <2>10, <2>11, <2>12, <2>13, IssueKeeps
<1> QED
  BY <1>2, <1>3, <1>4 DEF Rotate

\* A request is answered without a new session.
LEMMA AnswersKeeps ==
    ASSUME AccountsInv, UNCHANGED <<version, links, sessions, jar>>, NEW r \in Requests,
           NEW effect \in Effects, NEW new \in Known, new \in Sessions \cup {None},
           Answers(r, effect, new), effect = "set" => new # None,
           effect = "clear" /\ request[r].kind # "logout" =>
               /\ request[r].cookie # None /\ ~Live(request[r].cookie)
               /\ \A s \in DOMAIN sessions : sessions[s].heir_of # request[r].cookie
    PROVE  AccountsInv'
<1>1. request[r] \in RequestRow /\ request[r].cookie \in Known
  BY RequestIsRow
<1>2. PICK row \in RequestRow :
          row = [request[r] EXCEPT !.at = "answered", !.effect = effect, !.new = new]
  BY <1>1 DEF RequestRow, Stages
<1>3. /\ row.at = "answered" /\ row.effect = effect /\ row.new = new
      /\ row.cookie = request[r].cookie /\ row.kind = request[r].kind
  BY <1>1, <1>2 DEF RequestRow
<1>4. request' = [request EXCEPT ![r] = row] /\ request'[r] = row
  BY <1>2, TypesAre DEF Answers, AccountsInv
<1>5. Knows(r)'
  BY <1>3, <1>4 DEF Knows, Live
<1> QED
  BY <1>1, <1>3, <1>4, <1>5, JarStays, ReadKeeps

LEMMA PageKeeps == ASSUME AccountsInv, NEW r \in Requests, Page(r) PROVE AccountsInv'
<1>1. request[r].new \in Known /\ request[r].new \in Sessions \cup {None}
  BY RequestIsRow DEF RequestRow
<1>2. PICK new \in Known : new = request[r].new
  BY <1>1
<1>3. PICK effect \in Effects : effect = IF new = None THEN "keep" ELSE "set"
  BY DEF Effects
<1>4. Answers(r, effect, new) /\ UNCHANGED <<version, links, sessions, jar>>
  BY <1>2, <1>3 DEF Page
<1> QED
  BY <1>1, <1>2, <1>3, <1>4, AnswersKeeps

LEMMA TurnAwayKeeps == ASSUME AccountsInv, NEW r \in Requests, TurnAway(r) PROVE AccountsInv'
<1>1. PICK c \in Known : c = request[r].cookie
  BY RequestIsRow
<1>2. ~Live(c) /\ request[r].at = "dead"
  BY <1>1, RequestIsRow DEF TurnAway, Knows
<1>3. PICK effect \in Effects :
          effect = IF c = None \/ sessions[c].replaced THEN "keep" ELSE "clear"
  BY DEF Effects
<1>4. Answers(r, effect, None) /\ UNCHANGED <<version, links, sessions, jar>>
  BY <1>1, <1>3 DEF TurnAway
<1>5. effect = "clear" => c # None /\ \A s \in DOMAIN sessions : sessions[s].heir_of # c
  BY <1>3 DEF AccountsInv, HeirsReplace
<1> QED
  BY <1>1, <1>2, <1>3, <1>4, <1>5, NoneIsKnown, AnswersKeeps

LEMMA VerifyKeeps == ASSUME AccountsInv, NEW r \in Requests, Verify(r) PROVE AccountsInv'
<1>1. CASE Answers(r, "keep", None)
  BY <1>1, NoneIsKnown, AnswersKeeps DEF Verify, Effects
<1>2. CASE request' = [request EXCEPT ![r].at = "verified", ![r].credential = version]
  <2>1. /\ request[r] \in RequestRow /\ request[r].cookie \in Known
        /\ request[r].new \in Known /\ version \in Nat
    BY RequestIsRow, TypesAre DEF AccountsInv
  <2>2. PICK row \in RequestRow :
            row = [request[r] EXCEPT !.at = "verified", !.credential = version]
    BY <2>1 DEF RequestRow, Stages
  <2>3. row.at = "verified" /\ row.cookie = request[r].cookie /\ row.new = request[r].new
    BY <2>1, <2>2 DEF RequestRow
  <2>4. request' = [request EXCEPT ![r] = row] /\ UNCHANGED <<version, links, sessions, jar>>
    BY <1>2, <2>2, TypesAre DEF Verify, AccountsInv
  <2> QED
    BY <2>1, <2>3, <2>4, KnowsNothing, JarStays, ReadKeeps
<1> QED
  BY <1>1, <1>2 DEF Verify

LEMMA LoseKeeps == ASSUME AccountsInv, NEW r \in Requests, Lose(r) PROVE AccountsInv'
BY IdleIsRow, NoneIsKnown, KnowsNothing, JarStays, ReadKeeps DEF Lose

LEMMA ArriveKeeps == ASSUME AccountsInv, NEW r \in Requests, Arrive(r) PROVE AccountsInv'
<1>1. /\ request' = [request EXCEPT ![r] = Idle] /\ UNCHANGED <<version, links, sessions>>
      /\ jar' \in {jar, [jar EXCEPT ![request[r].browser] = request[r].new],
                   [jar EXCEPT ![request[r].browser] = None]}
  <2>1. request[r].effect \in {"keep", "set", "clear"}
    BY RequestIsRow DEF RequestRow, Effects
  <2> QED
    BY <2>1 DEF Arrive
<1>2. /\ jar \in [Browsers -> Sessions \cup {None}] /\ \A b \in Browsers : jar[b] \in Known
      /\ request[r].new \in Sessions \cup {None} /\ request[r].new \in Known
  BY TypesAre, RequestIsRow DEF AccountsInv, NamesAreIssued, RequestRow
<1>3. jar' \in [Browsers -> Sessions \cup {None}] /\ \A b \in Browsers : jar'[b] \in Known
  BY <1>1, <1>2, NoneIsKnown
<1> QED
  BY <1>1, <1>3, IdleIsRow, NoneIsKnown, KnowsNothing, ReadKeeps

\* A sign-out ends a session, and what it answers may clear the cookie.
LEMMA LogoutKeeps == ASSUME AccountsInv, NEW r \in Requests, Logout(r) PROVE AccountsInv'
<1>1. request[r] \in RequestRow /\ request[r].cookie \in Known /\ request[r].new \in Known
  BY RequestIsRow
<1>2. PICK c \in Known : sessions' = [sessions EXCEPT ![c].live = FALSE]
  BY <1>1 DEF Logout
<1>3. sessions \in Seq(SessionRow)
  BY TypesAre DEF AccountsInv
<1>4. Grown /\ Len(sessions') = Len(sessions)
  <2>1. CASE c \in DOMAIN sessions
    BY <1>2, <2>1, EndedIsGrown
  <2>2. CASE c \notin DOMAIN sessions
    <3>1. sessions' = sessions
      BY <1>2, <1>3, <2>2
    <3> QED
      BY <3>1, SameIsGrown
  <2> QED
    BY <2>1, <2>2
<1>5. Known' = Known /\ DOMAIN sessions' = DOMAIN sessions
  <2>1. sessions' \in Seq(SessionRow)
    BY <1>4 DEF Grown
  <2> QED
    BY <1>3, <1>4, <2>1 DEF Known
<1>6. UNCHANGED <<version, links, jar>>
  BY DEF Logout
<1>7. ResetIsFinal'
  BY <1>4, <1>5, <1>6, FinalStays
<1>8. /\ version' \in Nat /\ links' \in Seq(LinkRow)
      /\ jar' \in [Browsers -> Sessions \cup {None}] /\ \A b \in Browsers : jar'[b] \in Known'
  BY <1>5, <1>6, TypesAre DEF AccountsInv, NamesAreIssued
<1>9. CASE Step(r, "leaving") /\ request[r].kind = "logout"
  <2>1. PICK row \in RequestRow : row = [request[r] EXCEPT !.at = "leaving"]
    BY <1>1 DEF RequestRow, Stages
  <2>2. /\ row.at = "leaving" /\ row.cookie = request[r].cookie /\ row.new = request[r].new
        /\ row.kind = "logout"
    BY <1>1, <1>9, <2>1 DEF RequestRow
  <2>3. request' = [request EXCEPT ![r] = row] /\ request'[r] = row
    BY <1>9, <2>1, TypesAre DEF Step, AccountsInv
  <2>4. Knows(r)'
    BY <2>2, <2>3 DEF Knows
  <2> QED
    BY <1>1, <1>4, <1>5, <1>7, <1>8, <2>2, <2>3, <2>4, RequestKeeps
<1>10. CASE Answers(r, "clear", None) /\ request[r].kind = "logout"
  <2>1. PICK row \in RequestRow :
            row = [request[r] EXCEPT !.at = "answered", !.effect = "clear", !.new = None]
    BY <1>1 DEF RequestRow, Stages, Effects
  <2>2. /\ row.at = "answered" /\ row.effect = "clear" /\ row.kind = "logout"
        /\ row.cookie = request[r].cookie /\ row.new = None
    BY <1>1, <1>10, <2>1 DEF RequestRow
  <2>3. request' = [request EXCEPT ![r] = row] /\ request'[r] = row
    BY <1>10, <2>1, TypesAre DEF Answers, AccountsInv
  <2>4. Knows(r)'
    BY <2>2, <2>3 DEF Knows
  <2> QED
    BY <1>1, <1>4, <1>5, <1>7, <1>8, <2>2, <2>3, <2>4, NoneIsKnown, RequestKeeps
<1>11. request[r].at = "leaving" => request[r].kind = "logout"
  BY RequestIsRow DEF Knows
<1> QED
  BY <1>9, <1>10, <1>11 DEF Logout

LEMMA StartSessionKeeps ==
    ASSUME AccountsInv, NEW r \in Requests, StartSession(r) PROVE AccountsInv'
<1>1. UNCHANGED <<version, links, jar>>
  BY DEF StartSession
<1>2. CASE Answers(r, "keep", None) /\ UNCHANGED sessions
  BY <1>1, <1>2, NoneIsKnown, AnswersKeeps DEF Effects
<1>3. CASE /\ request[r].credential = version /\ Room
           /\ sessions' = IssueSession(sessions, request[r].cookie, request[r].credential)
           /\ Answers(r, "set", Len(sessions) + 1)
  <2>1. PICK c \in Known : c = request[r].cookie
    BY RequestIsRow
  <2>2. sessions \in Seq(SessionRow) /\ version \in Nat /\ links \in Seq(LinkRow)
    BY TypesAre DEF AccountsInv
  <2>3. PICK v \in Nat : v = version
    BY <2>2
  <2>4. sessions' = IssueSession(sessions, c, v)
    BY <1>3, <2>1, <2>3
  <2>5. /\ Grown /\ Len(sessions') = Len(sessions) + 1 /\ Len(sessions) + 1 \in Sessions
        /\ sessions'[Len(sessions) + 1].version = v
    BY <1>3, <2>4, IssueIsGrown
  <2>6. PICK n \in Sessions : n = Len(sessions) + 1
    BY <2>5
  <2>7. request[r] \in RequestRow
    BY RequestIsRow
  <2>8. PICK row \in RequestRow :
            row = [request[r] EXCEPT !.at = "answered", !.effect = "set", !.new = n]
    BY <2>7 DEF RequestRow, Stages, Effects
  <2>9. /\ row.at = "answered" /\ row.effect = "set" /\ row.new = n
        /\ row.cookie = request[r].cookie
    BY <2>7, <2>8 DEF RequestRow
  <2>10. request' = [request EXCEPT ![r] = row]
    BY <1>3, <2>6, <2>8, TypesAre DEF Answers, AccountsInv
  <2>11. ResetIsFinal'
    <3>1. sessions' \in Seq(SessionRow)
      BY <2>5 DEF Grown
    <3> QED
      BY <1>1, <2>2, <2>3, <2>5, <3>1, FinalStays
  <2>12. n \in Nat /\ version' \in Nat /\ links' \in Seq(LinkRow)
    BY <1>1, <2>2, <2>6 DEF Sessions
  <2> QED
    BY <1>1, <1>3, <2>4, <2>6, <2>9, <2>10, <2>11, <2>12, IssueKeeps
<1> QED
  BY <1>2, <1>3 DEF StartSession

\* A reset leaves no session alive but its own, and no link.
LEMMA RedeemKeeps == ASSUME AccountsInv, NEW r \in Requests, Redeem(r) PROVE AccountsInv'
<1>1. UNCHANGED jar
  BY DEF Redeem
<1>2. CASE Answers(r, "keep", None) /\ UNCHANGED <<version, links, sessions>>
  BY <1>1, <1>2, NoneIsKnown, AnswersKeeps DEF Effects
<1>3. CASE /\ Room /\ version' = version + 1 /\ links' = RevokeLinks(links)
           /\ sessions' = IssueSession(RevokeSessions(sessions), request[r].cookie, version + 1)
           /\ Answers(r, "set", Len(sessions) + 1)
  <2>1. PICK c \in Known : c = request[r].cookie
    BY RequestIsRow
  <2>2. sessions \in Seq(SessionRow) /\ version \in Nat /\ links \in Seq(LinkRow)
    BY TypesAre DEF AccountsInv
  <2>3. PICK v \in Nat : v = version + 1
    BY <2>2
  <2>4. PICK table \in {sessions, RevokeSessions(sessions)} : table = RevokeSessions(sessions)
    OBVIOUS
  <2>5. sessions' = IssueSession(table, c, v)
    BY <1>3, <2>1, <2>3, <2>4
  <2>6. /\ Grown /\ Len(sessions') = Len(sessions) + 1 /\ Len(sessions) + 1 \in Sessions
        /\ sessions'[Len(sessions) + 1].version = v
        /\ \A s \in DOMAIN sessions : sessions'[s].live => table[s].live
    BY <1>3, <2>5, IssueIsGrown
  <2>7. PICK n \in Sessions : n = Len(sessions) + 1
    BY <2>6
  <2>8. request[r] \in RequestRow
    BY RequestIsRow
  <2>9. PICK row \in RequestRow :
            row = [request[r] EXCEPT !.at = "answered", !.effect = "set", !.new = n]
    BY <2>8 DEF RequestRow, Stages, Effects
  <2>10. /\ row.at = "answered" /\ row.effect = "set" /\ row.new = n
         /\ row.cookie = request[r].cookie
    BY <2>8, <2>9 DEF RequestRow
  <2>11. request' = [request EXCEPT ![r] = row]
    BY <1>3, <2>7, <2>9, TypesAre DEF Answers, AccountsInv
  <2>12. /\ links' \in Seq(LinkRow) /\ \A l \in DOMAIN links' : ~links'[l].open
    BY <1>3, <2>2, RevokedLinks
  <2>13. \A s \in DOMAIN sessions : ~table[s].live
    BY <2>2, <2>4, RevokedIsTable
  <2>14. ResetIsFinal'
    <3>1. sessions' \in Seq(SessionRow)
      BY <2>6 DEF Grown
    <3>2. \A s \in DOMAIN sessions' : s \in DOMAIN sessions \/ s = n
      BY <2>2, <2>6, <2>7, <3>1
    <3>3. \A s \in DOMAIN sessions' : sessions'[s].live => sessions'[s].version = v
      BY <2>6, <2>7, <2>13, <3>2
    <3> QED
      BY <1>3, <2>3, <2>12, <3>3 DEF ResetIsFinal, Live
  <2>15. n \in Nat /\ version' \in Nat
    BY <1>3, <2>2, <2>7 DEF Sessions
  <2> QED
    BY <1>1, <1>3, <2>5, <2>7, <2>10, <2>11, <2>12, <2>14, <2>15, IssueKeeps
<1> QED
  BY <1>2, <1>3 DEF Redeem

-----------------------------------------------------------------------------
LEMMA InitAccounts == AccountsInit => AccountsInv
<1> SUFFICES ASSUME AccountsInit PROVE AccountsInv
  OBVIOUS
<1>1. /\ version \in Nat /\ sessions = <<>> /\ jar = [b \in Browsers |-> None]
      /\ request = [r \in Requests |-> Idle]
      /\ \/ version = 0 /\ links = <<Link(0)>>
         \/ links = <<>>
  BY DEF AccountsInit
<1>2. Link(0) \in LinkRow /\ Link(0).version = 0
  BY DEF Link, LinkRow
<1>3. links \in Seq(LinkRow)
  <2>1. PICK first \in LinkRow : first = Link(0)
    BY <1>2
  <2>2. <<first>> \in Seq(LinkRow) /\ <<>> \in Seq(LinkRow)
    OBVIOUS
  <2> QED
    BY <1>1, <2>1, <2>2, Zenon
<1>4. AccountsTypeOK
  BY <1>1, <1>3, IdleIsRow, TypesAre
<1>5. NamesAreIssued /\ HeirsReplace /\ RequestsKnow
  BY <1>1, IdleIsRow DEF NamesAreIssued, HeirsReplace, RequestsKnow, Knows, Known, None
<1>6. ResetIsFinal
  BY <1>1, <1>2 DEF ResetIsFinal
<1> QED
  BY <1>4, <1>5, <1>6 DEF AccountsInv

LEMMA StepAccounts == AccountsInv /\ [AccountsNext]_accountVars => AccountsInv'
<1> SUFFICES ASSUME AccountsInv, [AccountsNext]_accountVars PROVE AccountsInv'
  OBVIOUS
<1>1. CASE IssueReset
  BY <1>1, IssueResetKeeps
<1>2. CASE SetPlan
  BY <1>2, SetPlanKeeps
<1>3. CASE Expire
  BY <1>3, ExpireKeeps
<1>4. CASE \E r \in Requests : Send(r) \/ Authenticate(r) \/ Rotate(r) \/ Page(r)
  BY <1>4, SendKeeps, AuthenticateKeeps, RotateKeeps, PageKeeps
<1>5. CASE \E r \in Requests : TurnAway(r) \/ Logout(r) \/ Verify(r) \/ StartSession(r)
  BY <1>5, TurnAwayKeeps, LogoutKeeps, VerifyKeeps, StartSessionKeeps
<1>6. CASE \E r \in Requests : Redeem(r) \/ Arrive(r) \/ Lose(r)
  BY <1>6, RedeemKeeps, ArriveKeeps, LoseKeeps
<1>7. CASE UNCHANGED accountVars
  BY <1>7, TypesAre, SameIsGrown, RowsKeep DEF accountVars
<1> QED
  BY <1>1, <1>2, <1>3, <1>4, <1>5, <1>6, <1>7 DEF AccountsNext

\* What the reads of a request and the answers under way rest on, in every reachable state.
THEOREM AnswersAreKnown == AccountsSpec => []AccountsInv
BY InitAccounts, StepAccounts, PTL DEF AccountsSpec

\* A session that is live rests on the password that is set, and so does the only link that
\* opens, whatever was under way when a reset committed.
THEOREM ResetsAreFinal == AccountsSpec => []ResetIsFinal
<1>1. AccountsInv => ResetIsFinal
  BY DEF AccountsInv
<1> QED
  BY <1>1, AnswersAreKnown, PTL

\* The types of the store, the cookies and the requests.
THEOREM AccountTypes == AccountsSpec => []AccountsTypeOK
<1>1. AccountsInv => AccountsTypeOK
  BY DEF AccountsInv
<1> QED
  BY <1>1, AnswersAreKnown, PTL

\* Only an answer changes a cookie: one that clears it came with a dead session that nothing
\* was exchanged for, or answers a sign-out.
LEMMA ClearingAnswers ==
    ASSUME AccountsInv, [AccountsNext]_accountVars, NEW b \in Browsers, Live(jar[b]),
           jar'[b] = None
    PROVE  \E r \in Requests :
              /\ request[r].at = "answered" /\ request[r].browser = b
              /\ request[r].kind = "logout" \/ sessions[jar[b]].heir_of # request[r].cookie
<1>1. jar[b] # None /\ jar[b] \in DOMAIN sessions
  BY TypesAre DEF Live, AccountsInv, NamesAreIssued, Known, None
<1>2. jar'[b] # jar[b]
  BY <1>1
<1>3. PICK r \in Requests : Arrive(r)
  BY <1>2 DEF AccountsNext, accountVars, IssueReset, SetPlan, Expire, Send, Authenticate, Rotate,
              Page, TurnAway, Logout, Verify, StartSession, Redeem, Lose
<1>4. request[r] \in RequestRow /\ Knows(r)
  BY RequestIsRow
<1>5. /\ request[r].at = "answered" /\ request[r].effect \in Effects
      /\ request[r].browser = b /\ request[r].effect # "keep"
      /\ request[r].effect = "set" => request[r].new = None
  BY <1>2, <1>3, <1>4, TypesAre DEF Arrive, RequestRow, Effects, AccountsInv
<1>6. request[r].effect = "clear"
  BY <1>4, <1>5 DEF Knows, Effects
<1>7. request[r].kind = "logout" \/ sessions[jar[b]].heir_of # request[r].cookie
  BY <1>1, <1>4, <1>5, <1>6 DEF Knows
<1> QED
  BY <1>5, <1>7

\* Answers that cross: none takes a live session from a browser but a sign-out's, or one
\* that came with another session than the one this was exchanged for.
THEOREM CookiesSurvive == AccountsSpec => CookieSurvives
<1>1. AccountsInv /\ [AccountsNext]_accountVars =>
          [\A b \in Browsers : Live(jar[b]) /\ jar'[b] = None =>
              \E r \in Requests :
                 /\ request[r].at = "answered" /\ request[r].browser = b
                 /\ request[r].kind = "logout"
                       \/ sessions[jar[b]].heir_of # request[r].cookie]_accountVars
  BY ClearingAnswers
<1> QED
  BY <1>1, AnswersAreKnown, PTL DEF AccountsSpec, CookieSurvives

-----------------------------------------------------------------------------
\* The local jobs.

Row == [state : {"none"} \cup InWork \cup Ended, claim : Workers \cup {Nobody},
        leased : BOOLEAN, cancel_requested : BOOLEAN, attempt : 0..MaxAttempts,
        queued : BOOLEAN, approved : BOOLEAN,
        offer : {"none", "open", "approved", "skipped"},
        reserved : BOOLEAN, inherited : BOOLEAN]
SupervisorRow == [at : {"none", "sweeping", "owner", "closing"}, todo : SUBSET Ids]
WorkerRow == [at : {"dead", "idle", "claimed", "running", "planned", "declined", "ended"},
              tied : BOOLEAN, job : Ids \cup {0}, stopped : BOOLEAN,
              approved : BOOLEAN, offer : {"none", "open"}]

\* An offer is answered only on a row that has ended, and a row that does not exist has none.
AnsweredAtTheEnd(row) ==
    /\ row.state = "none" => row.offer = "none"
    /\ row.offer \in {"approved", "skipped"} => row.state \in Ended

\* What a window found in flight is asked to stop, or the window has still to come to it.
IsStopped(row, j) ==
    row.inherited =>
        /\ row.state \in InWork
        /\ row.cancel_requested \/ (supervisor.at = "sweeping" /\ j \in supervisor.todo)

LocalInv ==
    /\ LocalTypeOK
    /\ OneAnswer
    /\ \A j \in Ids : AnsweredAtTheEnd(rows[j]) /\ IsStopped(rows[j], j)

-----------------------------------------------------------------------------
LEMMA LocalTypesAre ==
    LocalTypeOK <=>
        /\ rows \in [Ids -> Row] /\ supervisor \in SupervisorRow
        /\ worker \in [Workers -> WorkerRow] /\ spawned \in 0..MaxSpawns
BY DEF LocalTypeOK, Row, SupervisorRow, WorkerRow

LEMMA RowIs ==
    ASSUME LocalInv, NEW j \in Ids
    PROVE  rows[j] \in Row /\ AnsweredAtTheEnd(rows[j]) /\ IsStopped(rows[j], j)
BY LocalTypesAre DEF LocalInv

LEMMA IdsAreNumbers ==
    Ids \subseteq Nat \ {0} /\ \A j \in Ids : FollowUp(j) \in Nat /\ FollowUp(j) > ByHand
BY LocalBounded DEF Ids, FollowUp

LEMMA NoRowIs ==
    NoRow \in Row /\ NoRow.state = "none" /\ NoRow.offer = "none" /\ ~NoRow.inherited
BY LocalBounded DEF NoRow, Row

LEMMA NoWorkerIs == NoWorker \in WorkerRow
BY DEF NoWorker, WorkerRow

\* The supervisor is as it was, or goes on with what it has still to stop.
SameSweep(j) == supervisor'.at = supervisor.at /\ supervisor.todo \subseteq supervisor'.todo \cup {j}

LEMMA OthersAreStopped ==
    ASSUME LocalInv, NEW j \in Ids, NEW i \in Ids \ {j}, SameSweep(j)
    PROVE  IsStopped(rows[i], i)'  \/ rows'[i] # rows[i]
<1>1. IsStopped(rows[i], i)
  BY RowIs
<1> QED
  BY <1>1 DEF IsStopped, SameSweep

\* One row changes, neither created nor answered with an approval.
LEMMA RowKeeps ==
    ASSUME LocalInv, NEW j \in Ids, NEW row \in Row, rows' = [rows EXCEPT ![j] = row],
           row.state = "none" <=> rows[j].state = "none",
           row.offer = "approved" <=> rows[j].offer = "approved",
           AnsweredAtTheEnd(row), IsStopped(row, j)', SameSweep(j),
           supervisor' \in SupervisorRow, worker' \in [Workers -> WorkerRow],
           spawned' \in 0..MaxSpawns
    PROVE  LocalInv'
<1>1. rows \in [Ids -> Row] /\ rows' \in [Ids -> Row]
  BY LocalTypesAre DEF LocalInv
<1>2. rows'[j] = row /\ \A i \in Ids \ {j} : rows'[i] = rows[i]
  BY <1>1
<1>3. LocalTypeOK'
  BY <1>1 DEF LocalTypeOK, Row, SupervisorRow, WorkerRow
<1>4. OneAnswer'
  BY <1>2 DEF OneAnswer, LocalInv
<1>5. \A i \in Ids : AnsweredAtTheEnd(rows[i])'
  BY <1>2, RowIs DEF AnsweredAtTheEnd
<1>6. \A i \in Ids : IsStopped(rows[i], i)'
  BY <1>2, OthersAreStopped DEF IsStopped
<1> QED
  BY <1>3, <1>4, <1>5, <1>6 DEF LocalInv

\* No row changes.
LEMMA RowsRest ==
    ASSUME LocalInv, UNCHANGED rows, supervisor' \in SupervisorRow,
           supervisor' = supervisor \/ supervisor.at # "sweeping" \/ supervisor.todo = {},
           worker' \in [Workers -> WorkerRow], spawned' \in 0..MaxSpawns
    PROVE  LocalInv'
<1>1. LocalTypeOK'
  BY LocalTypesAre DEF LocalInv, LocalTypeOK, Row, SupervisorRow, WorkerRow
<1>2. OneAnswer'
  BY DEF OneAnswer, LocalInv
<1>3. \A i \in Ids : AnsweredAtTheEnd(rows[i])'
  BY RowIs DEF AnsweredAtTheEnd
<1>4. \A i \in Ids : IsStopped(rows[i], i)'
  BY RowIs DEF IsStopped
<1> QED
  BY <1>1, <1>2, <1>3, <1>4 DEF LocalInv

\* A step of one worker alone.
LEMMA WorkerKeeps ==
    ASSUME LocalInv, NEW k \in Workers, NEW w \in WorkerRow,
           worker' = [worker EXCEPT ![k] = w], UNCHANGED <<rows, supervisor, spawned>>
    PROVE  LocalInv'
<1>1. /\ supervisor' \in SupervisorRow /\ worker' \in [Workers -> WorkerRow]
      /\ spawned' \in 0..MaxSpawns
  BY LocalTypesAre DEF LocalInv
<1> QED
  BY <1>1, RowsRest

\* A row that ends under an offer nobody has answered, or under the one it has.
LEMMA EndsIs ==
    ASSUME LocalInv, NEW j \in Ids, j \in InFlight, NEW state \in Ended,
           NEW offer \in {"none", "open"} \cup {rows[j].offer}
    PROVE  /\ Ends(rows[j], state, offer) \in Row
           /\ Ends(rows[j], state, offer).state = state
           /\ Ends(rows[j], state, offer).offer = offer /\ offer # "approved"
           /\ ~Ends(rows[j], state, offer).inherited
           /\ AnsweredAtTheEnd(Ends(rows[j], state, offer))
           /\ rows[j].offer # "approved" /\ state # "none" /\ rows[j].state # "none"
<1>1. rows[j] \in Row /\ AnsweredAtTheEnd(rows[j]) /\ rows[j].state \in InWork
  BY RowIs DEF InFlight
<1>2. rows[j].offer \in {"none", "open"}
  BY <1>1 DEF AnsweredAtTheEnd, InWork, Ended, Row
<1>3. state # "none" /\ rows[j].state # "none" /\ offer \in {"none", "open"}
  BY <1>1, <1>2 DEF Ended, InWork
<1>4. Ends(rows[j], state, offer) \in Row
  BY <1>1, <1>2, NoRowIs DEF Ends, Row
<1>5. /\ Ends(rows[j], state, offer).state = state /\ Ends(rows[j], state, offer).offer = offer
      /\ ~Ends(rows[j], state, offer).inherited
  BY NoRowIs DEF Ends, Row
<1> QED
  BY <1>2, <1>3, <1>4, <1>5 DEF AnsweredAtTheEnd

LEMMA EndingKeeps ==
    ASSUME LocalInv, NEW j \in Ids, j \in InFlight, NEW state \in Ended,
           NEW offer \in {"none", "open"} \cup {rows[j].offer},
           rows' = [rows EXCEPT ![j] = Ends(@, state, offer)],
           SameSweep(j), supervisor' \in SupervisorRow, worker' \in [Workers -> WorkerRow],
           spawned' \in 0..MaxSpawns
    PROVE  LocalInv'
<1>1. PICK row \in Row : row = Ends(rows[j], state, offer)
  BY EndsIs
<1>2. rows' = [rows EXCEPT ![j] = row]
  BY <1>1, LocalTypesAre DEF LocalInv
<1>3. IsStopped(row, j)'
  BY <1>1, EndsIs DEF IsStopped
<1>4. /\ row.state # "none" /\ rows[j].state # "none"
      /\ row.offer # "approved" /\ rows[j].offer # "approved" /\ AnsweredAtTheEnd(row)
  BY <1>1, EndsIs DEF Ended
<1> QED
  BY <1>2, <1>3, <1>4, RowKeeps

-----------------------------------------------------------------------------
\* The owner's requests.

LEMMA InsertIs ==
    ASSUME NEW j, NEW approved \in BOOLEAN
    PROVE  /\ Insert(j, approved) \in Row /\ Insert(j, approved).state = "intake"
           /\ Insert(j, approved).offer = "none" /\ ~Insert(j, approved).inherited
BY NoRowIs DEF Insert, Row, NoRow, InWork

\* A job submitted by hand is the follow-up of none.
LEMMA SubmitKeeps == ASSUME LocalInv, NEW j \in Ids, Submit(j) PROVE LocalInv'
<1>1. PICK row \in Row : row = Insert(j, FALSE)
  BY InsertIs
<1>2. row.state = "intake" /\ row.offer = "none" /\ ~row.inherited
  BY <1>1, InsertIs
<1>3. rows' = [rows EXCEPT ![j] = row] /\ UNCHANGED <<supervisor, worker, spawned>>
  BY <1>1 DEF Submit
<1>4. rows \in [Ids -> Row] /\ rows' \in [Ids -> Row]
  BY <1>3, LocalTypesAre DEF LocalInv
<1>5. rows'[j] = row /\ \A i \in Ids \ {j} : rows'[i] = rows[i]
  BY <1>3, <1>4
<1>6. rows[j].state = "none" /\ rows[j].offer = "none" /\ \A i \in Ids : FollowUp(i) # j
  BY RowIs, IdsAreNumbers, LocalBounded DEF Submit, AnsweredAtTheEnd
<1>7. LocalTypeOK'
  BY <1>3, <1>4, LocalTypesAre DEF LocalInv, LocalTypeOK, Row, SupervisorRow, WorkerRow
<1>8. OneAnswer'
  BY <1>2, <1>5, <1>6 DEF OneAnswer, LocalInv
<1>9. \A i \in Ids : (AnsweredAtTheEnd(rows[i]) /\ IsStopped(rows[i], i))'
  BY <1>2, <1>3, <1>5, RowIs DEF AnsweredAtTheEnd, IsStopped
<1> QED
  BY <1>7, <1>8, <1>9 DEF LocalInv

\* What cancel() and a step of cancel_all() do to a row.
LEMMA CancelledKeeps ==
    ASSUME LocalInv, NEW j \in Ids, Cancelled(j), SameSweep(j), supervisor' \in SupervisorRow,
           UNCHANGED <<worker, spawned>>
    PROVE  LocalInv'
<1>1. worker' \in [Workers -> WorkerRow] /\ spawned' \in 0..MaxSpawns
  BY LocalTypesAre DEF LocalInv
<1>2. rows \in [Ids -> Row] /\ rows[j] \in Row /\ AnsweredAtTheEnd(rows[j]) /\ IsStopped(rows[j], j)
  BY LocalTypesAre, RowIs DEF LocalInv
<1>3. CASE rows[j].state = "intake" /\ rows' = [rows EXCEPT ![j] = Ends(@, "cancelled", @.offer)]
  <2>1. PICK offer \in {rows[j].offer} : rows' = [rows EXCEPT ![j] = Ends(@, "cancelled", offer)]
    BY <1>2, <1>3
  <2>2. j \in InFlight
    BY <1>3 DEF InFlight, InWork
  <2> QED
    BY <1>1, <2>1, <2>2, EndingKeeps DEF Ended
<1>4. CASE j \in InFlight /\ rows' = [rows EXCEPT ![j].cancel_requested = TRUE]
  <2>1. PICK row \in Row : row = [rows[j] EXCEPT !.cancel_requested = TRUE]
    BY <1>2 DEF Row
  <2>2. /\ row.cancel_requested /\ row.state = rows[j].state /\ row.offer = rows[j].offer
        /\ row.inherited = rows[j].inherited
    BY <1>2, <2>1 DEF Row
  <2>3. rows' = [rows EXCEPT ![j] = row]
    BY <1>2, <1>4, <2>1
  <2>4. AnsweredAtTheEnd(row) /\ IsStopped(row, j)'
    BY <1>2, <2>2 DEF AnsweredAtTheEnd, IsStopped
  <2> QED
    BY <1>1, <2>2, <2>3, <2>4, RowKeeps
<1> QED
  BY <1>3, <1>4 DEF Cancelled

LEMMA CancelKeeps == ASSUME LocalInv, NEW j \in Ids, Cancel(j) PROVE LocalInv'
BY CancelledKeeps, LocalTypesAre DEF Cancel, SameSweep, LocalInv

\* The answer and the job it authorises: neither was there.
LEMMA ApproveKeeps == ASSUME LocalInv, NEW j \in Ids, Approve(j) PROVE LocalInv'
<1>1. PICK f \in Ids : f = FollowUp(j)
  BY DEF Approve
<1>2. f # j /\ \A i \in Ids : FollowUp(i) = f => i = j
  BY <1>1, IdsAreNumbers, LocalBounded DEF FollowUp, Ids
<1>3. rows[j] \in Row /\ rows[j].state \in Ended /\ rows[j].offer = "open" /\ ~rows[j].inherited
  BY RowIs DEF Approve, IsStopped, Ended, InWork
<1>4. PICK answered \in Row : answered = [rows[j] EXCEPT !.offer = "approved"]
  BY <1>3 DEF Row
<1>5. /\ answered.offer = "approved" /\ answered.state = rows[j].state /\ ~answered.inherited
  BY <1>3, <1>4 DEF Row
<1>6. PICK paid \in Row : paid = Insert(f, TRUE)
  BY InsertIs
<1>7. paid.state = "intake" /\ paid.offer = "none" /\ ~paid.inherited
  BY <1>6, InsertIs
<1>8. /\ rows' = [rows EXCEPT ![j] = answered, ![f] = paid]
      /\ UNCHANGED <<supervisor, worker, spawned>>
  BY <1>1, <1>4, <1>6, LocalTypesAre DEF Approve, LocalInv
<1>9. rows \in [Ids -> Row] /\ rows' \in [Ids -> Row]
  BY <1>8, LocalTypesAre DEF LocalInv
<1>10. /\ rows'[j] = answered /\ rows'[f] = paid
       /\ \A i \in Ids \ {j, f} : rows'[i] = rows[i]
  BY <1>2, <1>8, <1>9
<1>11. rows[f].state = "none" /\ rows[f].offer = "none"
  BY <1>1, <1>3, RowIs DEF LocalInv, OneAnswer, AnsweredAtTheEnd
<1>12. LocalTypeOK'
  BY <1>8, <1>9, LocalTypesAre DEF LocalInv, LocalTypeOK, Row, SupervisorRow, WorkerRow
<1>13. OneAnswer'
  <2> SUFFICES ASSUME NEW i \in Ids, FollowUp(i) \in Ids
               PROVE  rows'[FollowUp(i)].state # "none" <=> rows'[i].offer = "approved"
    BY DEF OneAnswer
  <2>1. rows[FollowUp(i)].state # "none" <=> rows[i].offer = "approved"
    BY DEF LocalInv, OneAnswer
  <2>2. CASE i = j
    BY <1>1, <1>5, <1>7, <1>10, <2>2
  <2>3. CASE i # j
    <3>1. FollowUp(i) # f
      BY <1>2, <2>3
    <3>2. rows'[FollowUp(i)].state = "none" <=> rows[FollowUp(i)].state = "none"
      BY <1>3, <1>5, <1>10, <3>1 DEF Ended
    <3>3. rows'[i].offer = "approved" <=> rows[i].offer = "approved"
      BY <1>7, <1>10, <1>11, <2>3
    <3> QED
      BY <2>1, <3>2, <3>3
  <2> QED
    BY <2>2, <2>3
<1>14. \A i \in Ids : (AnsweredAtTheEnd(rows[i]) /\ IsStopped(rows[i], i))'
  <2> SUFFICES ASSUME NEW i \in Ids PROVE (AnsweredAtTheEnd(rows[i]) /\ IsStopped(rows[i], i))'
    OBVIOUS
  <2>1. CASE i = j
    BY <1>3, <1>5, <1>10, <2>1 DEF AnsweredAtTheEnd, IsStopped, Ended
  <2>2. CASE i = f
    BY <1>7, <1>10, <2>2 DEF AnsweredAtTheEnd, IsStopped
  <2>3. CASE i \notin {j, f}
    BY <1>8, <1>10, <2>3, RowIs DEF AnsweredAtTheEnd, IsStopped
  <2> QED
    BY <2>1, <2>2, <2>3
<1> QED
  BY <1>12, <1>13, <1>14 DEF LocalInv

LEMMA SkipKeeps == ASSUME LocalInv, NEW j \in Ids, Skip(j) PROVE LocalInv'
<1>1. rows[j] \in Row /\ rows[j].state \in Ended /\ rows[j].offer = "open" /\ ~rows[j].inherited
  BY RowIs DEF Skip, IsStopped, Ended, InWork
<1>2. PICK row \in Row : row = [rows[j] EXCEPT !.offer = "skipped"]
  BY <1>1 DEF Row
<1>3. row.offer = "skipped" /\ row.state = rows[j].state /\ ~row.inherited
  BY <1>1, <1>2 DEF Row
<1>4. rows' = [rows EXCEPT ![j] = row] /\ UNCHANGED <<supervisor, worker, spawned>>
  BY <1>2, LocalTypesAre DEF Skip, LocalInv
<1>5. AnsweredAtTheEnd(row) /\ IsStopped(row, j)'
  BY <1>1, <1>3 DEF AnsweredAtTheEnd, IsStopped, Ended
<1>6. SameSweep(j) /\ supervisor' \in SupervisorRow /\ worker' \in [Workers -> WorkerRow]
      /\ spawned' \in 0..MaxSpawns
  BY <1>4, LocalTypesAre DEF SameSweep, LocalInv
<1> QED
  BY <1>1, <1>3, <1>4, <1>5, <1>6, RowKeeps

LEMMA LeaseLapsesKeeps == ASSUME LocalInv, NEW j \in Ids, LeaseLapses(j) PROVE LocalInv'
<1>1. rows[j] \in Row /\ AnsweredAtTheEnd(rows[j]) /\ IsStopped(rows[j], j)
  BY RowIs
<1>2. PICK row \in Row : row = [rows[j] EXCEPT !.leased = FALSE]
  BY <1>1 DEF Row
<1>3. /\ row.offer = rows[j].offer /\ row.state = rows[j].state
      /\ row.inherited = rows[j].inherited /\ row.cancel_requested = rows[j].cancel_requested
  BY <1>1, <1>2 DEF Row
<1>4. rows' = [rows EXCEPT ![j] = row] /\ UNCHANGED <<supervisor, worker, spawned>>
  BY <1>2, LocalTypesAre DEF LeaseLapses, LocalInv
<1>5. AnsweredAtTheEnd(row) /\ IsStopped(row, j)'
  BY <1>1, <1>3, <1>4 DEF AnsweredAtTheEnd, IsStopped
<1>6. SameSweep(j) /\ supervisor' \in SupervisorRow /\ worker' \in [Workers -> WorkerRow]
      /\ spawned' \in 0..MaxSpawns
  BY <1>4, LocalTypesAre DEF SameSweep, LocalInv
<1> QED
  BY <1>3, <1>4, <1>5, <1>6, RowKeeps

-----------------------------------------------------------------------------
\* The supervisor.

\* The rows of all jobs change, in what nobody acts on.
LEMMA MarksKeep ==
    ASSUME LocalInv, NEW mark \in [Ids -> BOOLEAN],
           rows' = [j \in Ids |-> [rows[j] EXCEPT !.inherited = mark[j]]],
           \A j \in Ids : mark[j] => rows[j].state \in InWork
               /\ (rows[j].cancel_requested
                      \/ (supervisor'.at = "sweeping" /\ j \in supervisor'.todo)),
           supervisor' \in SupervisorRow, worker' \in [Workers -> WorkerRow],
           spawned' \in 0..MaxSpawns
    PROVE  LocalInv'
<1> DEFINE row(j) == [rows[j] EXCEPT !.inherited = mark[j]]
<1>1. \A j \in Ids : /\ row(j) \in Row /\ row(j).inherited = mark[j]
                     /\ row(j).state = rows[j].state /\ row(j).offer = rows[j].offer
                     /\ row(j).cancel_requested = rows[j].cancel_requested
  BY RowIs DEF Row
<1>2. rows' = [j \in Ids |-> row(j)]
  OBVIOUS
<1> HIDE DEF row
<1>3. rows' \in [Ids -> Row] /\ \A j \in Ids : rows'[j] = row(j)
  BY <1>1, <1>2
<1>4. LocalTypeOK'
  BY <1>3 DEF LocalTypeOK, Row, SupervisorRow, WorkerRow
<1>5. OneAnswer'
  BY <1>1, <1>3 DEF LocalInv, OneAnswer
<1>6. \A j \in Ids : (AnsweredAtTheEnd(rows[j]) /\ IsStopped(rows[j], j))'
  BY <1>1, <1>3, RowIs DEF AnsweredAtTheEnd, IsStopped
<1> QED
  BY <1>4, <1>5, <1>6 DEF LocalInv

LEMMA TakeOverKeeps == ASSUME LocalInv, TakeOver PROVE LocalInv'
<1>1. PICK mark \in [Ids -> BOOLEAN] : mark = [j \in Ids |-> j \in InFlight]
  <2>1. [j \in Ids |-> j \in InFlight] \in [Ids -> BOOLEAN]
    OBVIOUS
  <2> QED
    BY <2>1, Zenon
<1>2. supervisor' = [at |-> "sweeping", todo |-> InFlight] /\ UNCHANGED <<worker, spawned>>
  BY DEF TakeOver
<1>3. /\ supervisor'.at = "sweeping" /\ supervisor'.todo = InFlight
      /\ supervisor' \in SupervisorRow
  BY <1>2 DEF SupervisorRow, InFlight
<1>4. rows' = [j \in Ids |-> [rows[j] EXCEPT !.inherited = mark[j]]]
  BY <1>1 DEF TakeOver
<1>5. \A j \in Ids : mark[j] => rows[j].state \in InWork /\ j \in InFlight
  BY <1>1 DEF InFlight
<1>6. worker' \in [Workers -> WorkerRow] /\ spawned' \in 0..MaxSpawns
  BY <1>2, LocalTypesAre DEF LocalInv
<1> QED
  BY <1>3, <1>4, <1>5, <1>6, MarksKeep

LEMMA KilledKeeps == ASSUME LocalInv, Killed PROVE LocalInv'
<1>1. PICK mark \in [Ids -> BOOLEAN] :
          mark = [j \in Ids |-> rows[j].inherited /\ supervisor.at # "sweeping"]
  BY RowIs DEF Row
<1>2. rows' = [j \in Ids |-> [rows[j] EXCEPT !.inherited = mark[j]]]
  BY <1>1 DEF Killed
<1>3. \A j \in Ids : mark[j] => rows[j].state \in InWork /\ rows[j].cancel_requested
  BY <1>1, RowIs DEF IsStopped
<1>4. supervisor' \in SupervisorRow
  BY DEF Killed, SupervisorRow
<1>5. worker' \in [Workers -> WorkerRow]
  <2>1. \A k \in Workers : [worker[k] EXCEPT !.tied = FALSE] \in WorkerRow
    BY LocalTypesAre DEF LocalInv, WorkerRow
  <2> QED
    BY <2>1 DEF Killed
<1>6. spawned' \in 0..MaxSpawns
  BY LocalTypesAre DEF LocalInv, Killed
<1> QED
  BY <1>2, <1>3, <1>4, <1>5, <1>6, MarksKeep

\* One step of the sweep: the job it comes to has ended, or is asked to stop.
LEMMA StopOneKeeps == ASSUME LocalInv, StopOne PROVE LocalInv'
<1>1. PICK j \in supervisor.todo :
          /\ supervisor' = [supervisor EXCEPT !.todo = supervisor.todo \ {j}]
          /\ Cancelled(j) \/ (j \notin InFlight /\ UNCHANGED rows)
          /\ UNCHANGED <<worker, spawned>>
  BY DEF StopOne
<1>2. supervisor \in SupervisorRow /\ j \in Ids
  BY <1>1, LocalTypesAre DEF LocalInv, SupervisorRow
<1>3. supervisor' \in SupervisorRow /\ SameSweep(j)
  BY <1>1, <1>2 DEF SupervisorRow, SameSweep
<1>4. CASE Cancelled(j)
  BY <1>1, <1>2, <1>3, <1>4, CancelledKeeps
<1>5. CASE j \notin InFlight /\ UNCHANGED rows
  <2>1. PICK row \in Row : row = rows[j]
    BY <1>2, RowIs
  <2>2. rows' = [rows EXCEPT ![j] = row]
    BY <1>2, <1>5, <2>1, LocalTypesAre DEF LocalInv
  <2>3. AnsweredAtTheEnd(row) /\ ~row.inherited
    BY <1>2, <1>5, <2>1, RowIs DEF IsStopped, InFlight
  <2>4. worker' \in [Workers -> WorkerRow] /\ spawned' \in 0..MaxSpawns
    BY <1>1, LocalTypesAre DEF LocalInv
  <2> QED
    BY <1>2, <1>3, <2>1, <2>2, <2>3, <2>4, RowKeeps DEF IsStopped
<1> QED
  BY <1>1, <1>4, <1>5

LEMMA SpawnKeeps == ASSUME LocalInv, Spawn PROVE LocalInv'
<1>1. PICK k \in Workers :
          /\ supervisor.at # "sweeping" \/ supervisor.todo = {}
          /\ spawned < MaxSpawns /\ spawned' = spawned + 1
          /\ supervisor' = [supervisor EXCEPT !.at = "owner"]
          /\ worker' = [worker EXCEPT ![k] = [NoWorker EXCEPT !.at = "idle", !.tied = TRUE]]
          /\ UNCHANGED rows
  BY DEF Spawn
<1>2. [NoWorker EXCEPT !.at = "idle", !.tied = TRUE] \in WorkerRow
  BY NoWorkerIs DEF WorkerRow
<1>3. worker' \in [Workers -> WorkerRow]
  BY <1>1, <1>2, LocalTypesAre DEF LocalInv
<1>4. supervisor' \in SupervisorRow /\ spawned' \in 0..MaxSpawns
  BY <1>1, LocalTypesAre, LocalBounded DEF LocalInv, SupervisorRow
<1> QED
  BY <1>1, <1>3, <1>4, RowsRest

LEMMA ClosingKeeps ==
    ASSUME LocalInv, Closes \/ StopWorker \/ Closed PROVE LocalInv'
<1>1. /\ supervisor \in SupervisorRow /\ worker \in [Workers -> WorkerRow]
      /\ spawned \in 0..MaxSpawns
  BY LocalTypesAre DEF LocalInv
<1>2. CASE Closes
  BY <1>1, <1>2, RowsRest DEF Closes, SupervisorRow, InFlight
<1>3. CASE StopWorker
  <2>1. PICK k \in Workers : worker' = [worker EXCEPT ![k].stopped = TRUE]
    BY <1>3 DEF StopWorker, Its
  <2>2. worker' \in [Workers -> WorkerRow]
    BY <1>1, <2>1 DEF WorkerRow
  <2> QED
    BY <1>1, <1>3, <2>2, RowsRest DEF StopWorker
<1>4. CASE Closed
  <2>1. worker' \in [Workers -> WorkerRow]
    BY <1>1, <1>4, NoWorkerIs DEF Closed
  <2>2. supervisor' \in SupervisorRow /\ supervisor.at # "sweeping"
    BY <1>1, <1>4 DEF Closed, SupervisorRow
  <2> QED
    BY <1>1, <1>4, <2>1, <2>2, RowsRest DEF Closed
<1> QED
  BY <1>2, <1>3, <1>4

-----------------------------------------------------------------------------
\* A worker.

LEMMA WorkerIs ==
    ASSUME LocalInv, NEW k \in Workers
    PROVE  /\ worker[k] \in WorkerRow
           /\ Holds(k) => worker[k].job \in Ids /\ worker[k].job \in InFlight
BY LocalTypesAre DEF LocalInv, WorkerRow, Holds, InFlight

LEMMA IdlesIs ==
    ASSUME LocalInv, NEW k \in Workers, Idles(k) PROVE worker' \in [Workers -> WorkerRow]
<1>1. worker[k] \in WorkerRow
  BY WorkerIs
<1>2. [NoWorker EXCEPT !.at = "idle", !.tied = worker[k].tied,
                       !.stopped = worker[k].stopped] \in WorkerRow
  BY <1>1, NoWorkerIs DEF WorkerRow
<1> QED
  BY <1>2, LocalTypesAre DEF Idles, LocalInv

LEMMA AloneKeeps ==
    ASSUME LocalInv, NEW k \in Workers, Orphaned(k) \/ Dies(k) \/ Exits(k) PROVE LocalInv'
<1>1. PICK w \in WorkerRow : w = [worker[k] EXCEPT !.stopped = TRUE]
  BY WorkerIs DEF WorkerRow
<1>2. worker' \in {[worker EXCEPT ![k] = w], [worker EXCEPT ![k] = NoWorker]}
  BY <1>1, LocalTypesAre DEF Orphaned, Dies, Exits, LocalInv
<1>3. UNCHANGED <<rows, supervisor, spawned>>
  BY DEF Orphaned, Dies, Exits
<1> QED
  BY <1>2, <1>3, NoWorkerIs, WorkerKeeps

\* A row in work keeps its offer, its state and what it was asked.
LEMMA WorkingKeeps ==
    ASSUME LocalInv, NEW j \in Ids, NEW row \in Row, rows' = [rows EXCEPT ![j] = row],
           row.state = rows[j].state, row.state \in InWork, row.offer \in {"none", "open"},
           row.inherited = rows[j].inherited, row.cancel_requested = rows[j].cancel_requested,
           UNCHANGED <<supervisor, spawned>>, worker' \in [Workers -> WorkerRow]
    PROVE  LocalInv'
<1>1. rows[j] \in Row /\ AnsweredAtTheEnd(rows[j]) /\ IsStopped(rows[j], j)
  BY RowIs
<1>2. rows[j].offer # "approved" /\ AnsweredAtTheEnd(row) /\ IsStopped(row, j)'
  BY <1>1 DEF AnsweredAtTheEnd, IsStopped, InWork, Ended
<1>3. SameSweep(j) /\ supervisor' \in SupervisorRow /\ spawned' \in 0..MaxSpawns
  BY LocalTypesAre DEF SameSweep, LocalInv
<1> QED
  BY <1>2, <1>3, RowKeeps

LEMMA InWorkIs ==
    ASSUME LocalInv, NEW j \in Ids, j \in InFlight
    PROVE  rows[j] \in Row /\ rows[j].state \in InWork /\ rows[j].offer \in {"none", "open"}
BY RowIs DEF InFlight, AnsweredAtTheEnd, InWork, Ended, Row

LEMMA ClaimKeeps == ASSUME LocalInv, NEW k \in Workers, Claim(k) PROVE LocalInv'
<1>1. PICK j \in Ids :
          /\ j \in InFlight
          /\ \/ /\ rows' = [rows EXCEPT ![j] = Ends(@, "failed", @.offer)]
                /\ UNCHANGED worker
             \/ /\ ~Exhausted(j)
                /\ rows' = [rows EXCEPT ![j].claim = k, ![j].leased = TRUE, ![j].attempt = @ + 1]
                /\ worker' = [worker EXCEPT ![k] =
                      [@ EXCEPT !.at = IF rows[j].cancel_requested THEN "ended" ELSE "claimed",
                                !.job = j,
                                !.approved = rows[j].approved, !.offer = rows[j].offer]]
          /\ UNCHANGED <<supervisor, spawned>>
  BY DEF Claim, Free
<1>2. /\ rows[j] \in Row /\ rows[j].state \in InWork /\ rows[j].offer \in {"none", "open"}
      /\ worker[k] \in WorkerRow
  BY <1>1, InWorkIs, WorkerIs
<1>3. CASE rows' = [rows EXCEPT ![j] = Ends(@, "failed", @.offer)] /\ UNCHANGED worker
  <2>1. PICK offer \in {"none", "open"} : rows' = [rows EXCEPT ![j] = Ends(@, "failed", offer)]
    BY <1>2, <1>3, LocalTypesAre DEF LocalInv
  <2>2. SameSweep(j) /\ supervisor' \in SupervisorRow /\ worker' \in [Workers -> WorkerRow]
        /\ spawned' \in 0..MaxSpawns
    BY <1>1, <1>3, LocalTypesAre DEF SameSweep, LocalInv
  <2> QED
    BY <1>1, <2>1, <2>2, EndingKeeps DEF Ended
<1>4. CASE /\ ~Exhausted(j)
           /\ rows' = [rows EXCEPT ![j].claim = k, ![j].leased = TRUE, ![j].attempt = @ + 1]
           /\ worker' = [worker EXCEPT ![k] =
                 [@ EXCEPT !.at = IF rows[j].cancel_requested THEN "ended" ELSE "claimed",
                           !.job = j,
                           !.approved = rows[j].approved, !.offer = rows[j].offer]]
  <2>1. PICK n \in 0..MaxAttempts : n = rows[j].attempt + 1
    BY <1>2, <1>4, LocalBounded DEF Exhausted, Row
  <2>2. PICK row \in Row : row = [rows[j] EXCEPT !.claim = k, !.leased = TRUE, !.attempt = n]
    BY <1>2 DEF Row
  <2>3. /\ row.state = rows[j].state /\ row.offer = rows[j].offer
        /\ row.inherited = rows[j].inherited /\ row.cancel_requested = rows[j].cancel_requested
    BY <1>2, <2>2 DEF Row
  <2>4. rows' = [rows EXCEPT ![j] = row]
    BY <1>4, <2>1, <2>2, LocalTypesAre DEF LocalInv
  <2>5. PICK at \in {"ended", "claimed"} :
            at = IF rows[j].cancel_requested THEN "ended" ELSE "claimed"
    OBVIOUS
  <2>6. [worker[k] EXCEPT !.at = at, !.job = j, !.approved = rows[j].approved,
                          !.offer = rows[j].offer] \in WorkerRow
    BY <1>2 DEF WorkerRow, Row
  <2>7. worker' \in [Workers -> WorkerRow]
    BY <1>4, <2>5, <2>6, LocalTypesAre DEF LocalInv
  <2> QED
    BY <1>1, <1>2, <2>3, <2>4, <2>7, WorkingKeeps
<1> QED
  BY <1>1, <1>3, <1>4

LEMMA ExecuteKeeps == ASSUME LocalInv, NEW k \in Workers, Execute(k) PROVE LocalInv'
<1>1. worker[k] \in WorkerRow
  BY WorkerIs
<1>2. PICK copy \in WorkerRow : copy \in {worker[k], Restarted(worker[k])}
                                /\ copy = IF rows[worker[k].job].attempt > 1
                                          THEN Restarted(worker[k]) ELSE worker[k]
  BY <1>1 DEF Restarted, WorkerRow
<1>3. PICK w \in WorkerRow :
          w = IF worker[k].stopped THEN [worker[k] EXCEPT !.at = "ended"]
              ELSE [copy EXCEPT !.at = "running"]
  BY <1>1 DEF WorkerRow
<1>4. worker' = [worker EXCEPT ![k] = w] /\ UNCHANGED <<rows, supervisor, spawned>>
  BY <1>2, <1>3, LocalTypesAre DEF Execute, LocalInv
<1> QED
  BY <1>4, WorkerKeeps

LEMMA LocalPublishKeeps == ASSUME LocalInv, NEW k \in Workers, Publish(k) PROVE LocalInv'
<1>1. PICK j \in Ids : j = worker[k].job /\ j \in InFlight
  BY WorkerIs DEF Publish
<1>2. rows[j] \in Row /\ rows[j].state \in InWork /\ worker[k] \in WorkerRow
  BY <1>1, InWorkIs, WorkerIs
<1>3. PICK row \in Row : row = [rows[j] EXCEPT !.queued = FALSE, !.approved = worker[k].approved,
                                               !.offer = worker[k].offer]
  BY <1>2 DEF Row, WorkerRow
<1>4. /\ row.state = rows[j].state /\ row.offer \in {"none", "open"}
      /\ row.inherited = rows[j].inherited /\ row.cancel_requested = rows[j].cancel_requested
  BY <1>2, <1>3 DEF Row, WorkerRow
<1>5. rows' = [rows EXCEPT ![j] = row] /\ UNCHANGED <<supervisor, worker, spawned>>
  BY <1>1, <1>3, LocalTypesAre DEF Publish, LocalInv
<1>6. worker' \in [Workers -> WorkerRow]
  BY <1>5, LocalTypesAre DEF LocalInv
<1> QED
  BY <1>2, <1>4, <1>5, <1>6, WorkingKeeps

LEMMA PlanPaidKeeps == ASSUME LocalInv, NEW k \in Workers, PlanPaid(k) PROVE LocalInv'
<1>1. PICK j \in Ids : j = worker[k].job /\ j \in InFlight
  BY WorkerIs DEF PlanPaid
<1>2. /\ rows[j] \in Row /\ rows[j].state \in InWork /\ rows[j].offer \in {"none", "open"}
      /\ worker[k] \in WorkerRow
  BY <1>1, InWorkIs, WorkerIs
<1>3. PICK plan \in {"nothing", "within", "exceeds"}, passes \in BOOLEAN :
          /\ rows' = [rows EXCEPT ![j].reserved = @ \/ (passes /\ plan # "nothing")]
          /\ worker' = [worker EXCEPT ![k].at = IF passes THEN "planned" ELSE "declined",
                                      ![k].offer = IF passes THEN "none" ELSE "open"]
  BY <1>1 DEF PlanPaid
<1>4. PICK kept \in BOOLEAN : kept = (rows[j].reserved \/ (passes /\ plan # "nothing"))
  OBVIOUS
<1>5. PICK row \in Row : row = [rows[j] EXCEPT !.reserved = kept]
  BY <1>2 DEF Row
<1>6. /\ row.state = rows[j].state /\ row.offer = rows[j].offer
      /\ row.inherited = rows[j].inherited /\ row.cancel_requested = rows[j].cancel_requested
  BY <1>2, <1>5 DEF Row
<1>7. rows' = [rows EXCEPT ![j] = row]
  BY <1>3, <1>4, <1>5, LocalTypesAre DEF LocalInv
<1>8. PICK w \in WorkerRow : w = [worker[k] EXCEPT !.at = IF passes THEN "planned" ELSE "declined",
                                                   !.offer = IF passes THEN "none" ELSE "open"]
  BY <1>2 DEF WorkerRow
<1>9. worker' \in [Workers -> WorkerRow]
  BY <1>3, <1>8, LocalTypesAre DEF LocalInv
<1>10. UNCHANGED <<supervisor, spawned>>
  BY DEF PlanPaid
<1> QED
  BY <1>2, <1>6, <1>7, <1>9, <1>10, WorkingKeeps

\* A worker that does not hold its claim writes nothing.
LEMMA SettleKeeps == ASSUME LocalInv, NEW k \in Workers, Settle(k) PROVE LocalInv'
<1>1. PICK result \in Results(k) :
          /\ rows' = IF ~Holds(k) THEN rows
                     ELSE [rows EXCEPT ![worker[k].job] = Ends(@, result, worker[k].offer)]
          /\ Idles(k) /\ UNCHANGED <<supervisor, spawned>>
  BY DEF Settle
<1>2. result \in Ended
  BY <1>1 DEF Results, Ended
<1>3. /\ worker' \in [Workers -> WorkerRow] /\ supervisor' \in SupervisorRow
      /\ spawned' \in 0..MaxSpawns
  BY <1>1, IdlesIs, LocalTypesAre DEF LocalInv
<1>4. CASE ~Holds(k)
  BY <1>1, <1>3, <1>4, RowsRest
<1>5. CASE Holds(k)
  <2>1. PICK j \in Ids : j = worker[k].job /\ j \in InFlight
    BY <1>5, WorkerIs
  <2>2. PICK offer \in {"none", "open"} : offer = worker[k].offer
    BY WorkerIs DEF WorkerRow
  <2>3. rows' = [rows EXCEPT ![j] = Ends(@, result, offer)]
    BY <1>1, <1>5, <2>1, <2>2
  <2>4. SameSweep(j)
    BY <1>1 DEF SameSweep
  <2> QED
    BY <1>2, <1>3, <2>1, <2>3, <2>4, EndingKeeps
<1> QED
  BY <1>4, <1>5

LEMMA HandsBackKeeps == ASSUME LocalInv, NEW k \in Workers, HandsBack(k) PROVE LocalInv'
<1>1. Idles(k) /\ UNCHANGED <<supervisor, spawned>>
  BY DEF HandsBack
<1>2. /\ worker' \in [Workers -> WorkerRow] /\ supervisor' \in SupervisorRow
      /\ spawned' \in 0..MaxSpawns
  BY <1>1, IdlesIs, LocalTypesAre DEF LocalInv
<1>3. CASE ~Holds(k)
  BY <1>1, <1>2, <1>3, RowsRest DEF HandsBack
<1>4. CASE Holds(k)
  <2>1. PICK j \in Ids : j = worker[k].job /\ j \in InFlight
    BY <1>4, WorkerIs
  <2>2. rows[j] \in Row /\ rows[j].state \in InWork /\ rows[j].offer \in {"none", "open"}
    BY <2>1, InWorkIs
  <2>3. CASE rows' = [rows EXCEPT ![j] = Ends(@, "failed", @.offer)]
    <3>1. PICK offer \in {"none", "open"} : rows' = [rows EXCEPT ![j] = Ends(@, "failed", offer)]
      BY <2>2, <2>3, LocalTypesAre DEF LocalInv
    <3>2. SameSweep(j)
      BY <1>1 DEF SameSweep
    <3> QED
      BY <1>2, <2>1, <3>1, <3>2, EndingKeeps DEF Ended
  <2>4. CASE rows' = [rows EXCEPT ![j].claim = Nobody, ![j].leased = FALSE]
    <3>1. PICK row \in Row : row = [rows[j] EXCEPT !.claim = Nobody, !.leased = FALSE]
      BY <2>2 DEF Row
    <3>2. /\ row.state = rows[j].state /\ row.offer = rows[j].offer
          /\ row.inherited = rows[j].inherited /\ row.cancel_requested = rows[j].cancel_requested
      BY <2>2, <3>1 DEF Row
    <3>3. rows' = [rows EXCEPT ![j] = row]
      BY <2>4, <3>1, LocalTypesAre DEF LocalInv
    <3> QED
      BY <1>1, <1>2, <2>2, <3>2, <3>3, WorkingKeeps
  <2> QED
    BY <1>4, <2>1, <2>3, <2>4 DEF HandsBack
<1> QED
  BY <1>3, <1>4

-----------------------------------------------------------------------------
LEMMA InitLocal == LocalInit => LocalInv
<1> SUFFICES ASSUME LocalInit PROVE LocalInv
  OBVIOUS
<1>1. LocalTypeOK
  BY NoRowIs, NoWorkerIs, LocalBounded, LocalTypesAre DEF LocalInit, SupervisorRow
<1>2. OneAnswer /\ \A j \in Ids : AnsweredAtTheEnd(rows[j]) /\ IsStopped(rows[j], j)
  BY NoRowIs DEF LocalInit, OneAnswer, AnsweredAtTheEnd, IsStopped
<1> QED
  BY <1>1, <1>2 DEF LocalInv

LEMMA StepLocal == LocalInv /\ [LocalNext]_localVars => LocalInv'
<1> SUFFICES ASSUME LocalInv, [LocalNext]_localVars PROVE LocalInv'
  OBVIOUS
<1>1. CASE \E j \in Ids : Submit(j) \/ Cancel(j) \/ Approve(j) \/ Skip(j) \/ LeaseLapses(j)
  BY <1>1, SubmitKeeps, CancelKeeps, ApproveKeeps, SkipKeeps, LeaseLapsesKeeps
<1>2. CASE TakeOver \/ StopOne \/ Spawn \/ Killed
  BY <1>2, TakeOverKeeps, StopOneKeeps, SpawnKeeps, KilledKeeps
<1>3. CASE Closes \/ StopWorker \/ Closed
  BY <1>3, ClosingKeeps
<1>4. CASE \E k \in Workers : Orphaned(k) \/ Dies(k) \/ Exits(k)
  BY <1>4, AloneKeeps
<1>5. CASE \E k \in Workers : Claim(k) \/ Execute(k) \/ Publish(k)
  BY <1>5, ClaimKeeps, ExecuteKeeps, LocalPublishKeeps
<1>6. CASE \E k \in Workers : PlanPaid(k) \/ Settle(k) \/ HandsBack(k)
  BY <1>6, PlanPaidKeeps, SettleKeeps, HandsBackKeeps
<1>7. CASE UNCHANGED localVars
  BY <1>7, RowsRest, LocalTypesAre DEF localVars, LocalInv
<1> QED
  BY <1>1, <1>2, <1>3, <1>4, <1>5, <1>6, <1>7 DEF LocalNext

\* An offer is answered only at the end of its job, once, and what a window found in flight is
\* asked to stop: in every reachable state.
THEOREM OffersAndSweeps == LocalSpec => []LocalInv
BY InitLocal, StepLocal, PTL DEF LocalSpec

\* The paid job exists exactly when its offer says approved.
THEOREM OffersAreAnsweredOnce == LocalSpec => []OneAnswer
<1>1. LocalInv => OneAnswer
  BY DEF LocalInv
<1> QED
  BY <1>1, OffersAndSweeps, PTL

\* Only a claim takes a job up, and of a row nobody has asked to stop.
LEMMA ClaimsAreFresh ==
    ASSUME LocalInv, [LocalNext]_localVars, NEW k \in Workers, worker[k].at = "idle",
           worker'[k].at = "claimed"
    PROVE  ~rows[worker'[k].job].inherited \/ supervisor.at = "sweeping"
<1>1. worker \in [Workers -> WorkerRow]
  BY LocalTypesAre DEF LocalInv
<1>2. Claim(k)
  <2>1. worker'[k] # worker[k]
    OBVIOUS
  <2>2. CASE \E i \in Workers : Claim(i)
    BY <1>1, <2>1, <2>2 DEF Claim
  <2>3. CASE \E i \in Workers : Orphaned(i) \/ Dies(i) \/ Exits(i)
    BY <1>1, <2>3 DEF Orphaned, Dies, Exits, NoWorker, WorkerRow
  <2>4. CASE \E i \in Workers : Execute(i) \/ Publish(i)
    BY <1>1, <2>4 DEF Execute, Publish
  <2>5. CASE \E i \in Workers : PlanPaid(i)
    BY <1>1, <2>5 DEF PlanPaid, WorkerRow
  <2>6. CASE \E i \in Workers : Settle(i) \/ HandsBack(i)
    BY <1>1, <2>6 DEF Settle, HandsBack, Idles, NoWorker
  <2>7. CASE Spawn
    BY <1>1, <2>7 DEF Spawn, NoWorker
  <2>8. CASE StopWorker
    BY <1>1, <2>8 DEF StopWorker, Its, WorkerRow
  <2>9. CASE Closed
    BY <1>1, <2>9 DEF Closed, NoWorker
  <2>10. CASE Killed
    BY <1>1, <2>10 DEF Killed, WorkerRow
  <2>11. CASE TakeOver \/ StopOne \/ Closes \/ UNCHANGED localVars
    BY <2>1, <2>11 DEF TakeOver, StopOne, Closes, localVars
  <2>12. CASE \E j \in Ids : Submit(j) \/ Cancel(j) \/ Approve(j) \/ Skip(j) \/ LeaseLapses(j)
    BY <2>1, <2>12 DEF Submit, Cancel, Approve, Skip, LeaseLapses
  <2> QED
    BY <2>2, <2>3, <2>4, <2>5, <2>6, <2>7, <2>8, <2>9, <2>10, <2>11, <2>12 DEF LocalNext
<1>3. PICK j \in Ids :
          worker' = [worker EXCEPT ![k] =
                        [@ EXCEPT !.at = IF rows[j].cancel_requested THEN "ended" ELSE "claimed",
                                  !.job = j,
                                  !.approved = rows[j].approved, !.offer = rows[j].offer]]
  <2>1. worker' # worker
    OBVIOUS
  <2> QED
    BY <1>2, <2>1 DEF Claim
<1>4. worker'[k].job = j /\ ~rows[j].cancel_requested
  BY <1>1, <1>3 DEF WorkerRow
<1> QED
  BY <1>4, RowIs DEF IsStopped

\* What was in flight when a window took over is not taken up any more once its sweep is over.
THEOREM StoppedIsNotResumed == LocalSpec => NotResumed
<1>1. LocalInv /\ [LocalNext]_localVars =>
          [\A k \in Workers : worker[k].at = "idle" /\ worker'[k].at = "claimed"
             => ~rows[worker'[k].job].inherited \/ supervisor.at = "sweeping"]_localVars
  BY ClaimsAreFresh
<1> QED
  BY <1>1, OffersAndSweeps, PTL DEF LocalSpec, NotResumed
=============================================================================
