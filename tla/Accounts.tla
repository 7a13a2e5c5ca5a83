------------------------------ MODULE Accounts ------------------------------
(***************************************************************************)
(* One account of a hosted installation: its password, its single-use      *)
(* links and its sessions (idea_web/auth.py), and the cookies of the       *)
(* browsers its owner signs in with (idea_web/hosted.py).                  *)
(*                                                                         *)
(* Each operation of the store is one transaction, but a request makes     *)
(* several of them, a browser has several requests under way, and their    *)
(* answers arrive in any order: a request is a step per transaction.       *)
(*                                                                         *)
(* Abstractions.                                                           *)
(*  - A session or a link may end at any time: its idle or its absolute    *)
(*    limit passes.  Nothing tells that from a revocation but last_seen_at *)
(*    and used_at, which are left out.                                     *)
(*  - A sign-in's password is the account's or not; a reset always sets    *)
(*    one nobody knew.  Tokens, CSRF and the rate limits are left out.     *)
(*  - A session is named by its place in the table, a cookie names one.    *)
(***************************************************************************)
EXTENDS Naturals, Sequences

CONSTANTS
    Browsers,     \* the browsers of the account's owner, or of somebody else
    Requests,     \* slots for requests under way
    MaxSessions,  \* bound: sessions ever issued
    MaxLinks      \* bound: links ever issued

ASSUME AccountsBounded == Browsers # {} /\ MaxSessions \in Nat

VARIABLES
    version,   \* users.pw_version; before the first there is no password
    links,     \* email_tokens
    sessions,  \* sessions
    jar,       \* the session cookie of a browser, 0 for none
    request    \* where each request is, and what it has read

accountVars == <<version, links, sessions, jar, request>>

None == 0
Sessions == 1..MaxSessions
Kinds == {"page", "logout", "login", "reset"}
\* "authenticated" and "rotating": what authenticate() read; "dead": it answered None;
\* "verified": verify_login() gave a credential; "leaving": logout has revoked the first.
Stages == {"idle", "sent", "rotating", "authenticated", "dead", "verified", "leaving", "answered"}
\* What the answer does to the cookie: nothing, set it, clear it.
Effects == {"keep", "set", "clear"}

AccountsTypeOK ==
    /\ version \in Nat
    /\ links \in Seq([open : BOOLEAN, version : Nat])
    /\ sessions \in Seq([live : BOOLEAN, rotate_required : BOOLEAN,
                         replaced : BOOLEAN, heir_of : Sessions \cup {None}, version : Nat])
    /\ jar \in [Browsers -> Sessions \cup {None}]
    /\ request \in [Requests -> [at : Stages, kind : Kinds, browser : Browsers,
                                 cookie : Sessions \cup {None}, new : Sessions \cup {None},
                                 credential : Nat, link : Nat, effect : Effects]]

Idle == [at |-> "idle", kind |-> "page", browser |-> CHOOSE b \in Browsers : TRUE,
         cookie |-> None, new |-> None, credential |-> 0, link |-> 0, effect |-> "keep"]
Link(v) == [open |-> TRUE, version |-> v]

\* create_account(): no password, and a link to set one; or an account in use for a while.
AccountsInit ==
    /\ \/ version = 0 /\ links = <<Link(0)>>
       \/ version = 1 /\ links = <<>>
    /\ sessions = <<>>
    /\ jar = [b \in Browsers |-> None]
    /\ request = [r \in Requests |-> Idle]

Live(s) == s # None /\ sessions[s].live

RevokeSessions(table) == [s \in DOMAIN table |-> [table[s] EXCEPT !.live = FALSE]]
RevokeLinks(table) == [l \in DOMAIN table |-> [table[l] EXCEPT !.open = FALSE]]

\* Mutant of IssueSession: only a session that is still live is marked as replaced.
IssueSessionLive(table, replacing, v) ==
    LET old == IF replacing = None THEN table
               ELSE [table EXCEPT ![replacing] =
                        [@ EXCEPT !.live = FALSE, !.replaced = table[replacing].live]]
    IN Append(old, [live |-> TRUE, rotate_required |-> FALSE, replaced |-> FALSE,
                    heir_of |-> IF replacing # None /\ sessions[replacing].live
                                THEN replacing ELSE None, version |-> v])

\* _issue_session(): a new row, and the one it replaces is over and says so.  heir_of is
\* history: the session it replaces, if that was live before this transaction.
IssueSession(table, replacing, v) ==
    LET old == IF replacing = None THEN table
               ELSE [table EXCEPT ![replacing].live = FALSE, ![replacing].replaced = TRUE]
    IN Append(old, [live |-> TRUE, rotate_required |-> FALSE, replaced |-> FALSE,
                    heir_of |-> IF Live(replacing) THEN replacing ELSE None, version |-> v])
Room == Len(sessions) < MaxSessions

----------------------------------------------------------------------------
(* The administrator, and time. *)

\* issue_reset(): an older link stops working.
IssueReset ==
    /\ Len(links) < MaxLinks
    /\ links' = Append(RevokeLinks(links), Link(version))
    /\ UNCHANGED <<version, sessions, jar, request>>

\* set_plan(): every session that is not revoked rotates on its next use.
SetPlan ==
    /\ sessions' = [s \in DOMAIN sessions |->
                       [sessions[s] EXCEPT !.rotate_required = @ \/ sessions[s].live]]
    /\ UNCHANGED <<version, links, jar, request>>

Expire ==
    /\ \/ \E s \in DOMAIN sessions :
            /\ sessions' = [sessions EXCEPT ![s].live = FALSE] /\ UNCHANGED links
       \/ \E l \in DOMAIN links :
            /\ links' = [links EXCEPT ![l].open = FALSE] /\ UNCHANGED sessions
    /\ UNCHANGED <<version, jar, request>>

----------------------------------------------------------------------------
(* A request. *)

Send(r) ==
    /\ request[r].at = "idle"
    /\ \E b \in Browsers, kind \in Kinds, l \in {0} \cup DOMAIN links :
          /\ kind = "reset" <=> l # 0
          /\ request' = [request EXCEPT ![r] =
                [Idle EXCEPT !.at = "sent", !.kind = kind, !.browser = b, !.cookie = jar[b],
                             !.link = l]]
    /\ UNCHANGED <<version, links, sessions, jar>>

Step(r, at) == request' = [request EXCEPT ![r].at = at]
Answers(r, effect, new) ==
    request' = [request EXCEPT ![r] = [@ EXCEPT !.at = "answered", !.effect = effect, !.new = new]]

\* authenticate(), the read: live, live but to be rotated or touched, or dead.
Authenticate(r) ==
    LET cookie == request[r].cookie
    IN /\ request[r].at = "sent" /\ request[r].kind \in {"page", "logout"}
       /\ \/ ~Live(cookie) /\ Step(r, "dead")
          \/ Live(cookie) /\ ~sessions[cookie].rotate_required /\ Step(r, "authenticated")
          \/ Live(cookie) /\ Step(r, "rotating")
       /\ UNCHANGED <<version, links, sessions, jar>>

\* authenticate(), the write: it reads again; a rotation ends the old token as the new starts.
Rotate(r) ==
    LET cookie == request[r].cookie
    IN /\ request[r].at = "rotating"
       /\ \/ /\ ~Live(cookie)
             /\ Step(r, "dead") /\ UNCHANGED sessions
          \/ /\ Live(cookie) /\ ~sessions[cookie].rotate_required
             /\ Step(r, "authenticated") /\ UNCHANGED sessions
          \/ /\ Live(cookie) /\ sessions[cookie].rotate_required /\ Room
             /\ sessions' = IssueSession(sessions, cookie, sessions[cookie].version)
             /\ request' = [request EXCEPT ![r].at = "authenticated", ![r].new = Len(sessions) + 1]
       /\ UNCHANGED <<version, links, jar>>

\* finish(): a rotated session's cookie is handed over.
Page(r) ==
    /\ request[r].at = "authenticated" /\ request[r].kind = "page"
    /\ Answers(r, IF request[r].new = None THEN "keep" ELSE "set", request[r].new)
    /\ UNCHANGED <<version, links, sessions, jar>>

\* finish() without a session: a dead cookie is cleared, unless it was superseded.
TurnAway(r) ==
    LET cookie == request[r].cookie
    IN /\ request[r].at = "dead"
       /\ Answers(r, IF cookie = None \/ sessions[cookie].replaced THEN "keep" ELSE "clear", None)
       /\ UNCHANGED <<version, links, sessions, jar>>

\* logout_post(): the session it came with, then the one it was rotated to.
Logout(r) ==
    /\ \/ /\ request[r].at = "authenticated" /\ request[r].kind = "logout"
          /\ sessions' = [sessions EXCEPT ![request[r].cookie].live = FALSE]
          /\ IF request[r].new = None THEN Answers(r, "clear", None) ELSE Step(r, "leaving")
       \/ /\ request[r].at = "leaving"
          /\ sessions' = [sessions EXCEPT ![request[r].new].live = FALSE]
          /\ Answers(r, "clear", None)
    /\ UNCHANGED <<version, links, jar>>

\* verify_login(): the password is hashed outside any transaction.
Verify(r) ==
    /\ request[r].at = "sent" /\ request[r].kind = "login"
    /\ \/ /\ version > 0
          /\ request' = [request EXCEPT ![r].at = "verified", ![r].credential = version]
       \/ Answers(r, "keep", None)
    /\ UNCHANGED <<version, links, sessions, jar>>

\* Mutant of StartSession: the credential is not looked at again.
StartSessionUnchecked(r) ==
    /\ request[r].at = "verified" /\ Room
    /\ sessions' = IssueSession(sessions, request[r].cookie, request[r].credential)
    /\ Answers(r, "set", Len(sessions) + 1)
    /\ UNCHANGED <<version, links, jar>>

\* start_session(): only for the credential that was verified.
StartSession(r) ==
    LET cookie == request[r].cookie
    IN /\ request[r].at = "verified"
       /\ \/ /\ request[r].credential = version /\ Room
             /\ sessions' = IssueSession(sessions, cookie, request[r].credential)
             /\ Answers(r, "set", Len(sessions) + 1)
          \/ /\ request[r].credential # version
             /\ Answers(r, "keep", None) /\ UNCHANGED sessions
       /\ UNCHANGED <<version, links, jar>>

\* redeem_and_start_session(): the link, the password, every session and link, and the new
\* session together.
Redeem(r) ==
    LET cookie == request[r].cookie
        link == request[r].link
    IN /\ request[r].at = "sent" /\ request[r].kind = "reset"
       /\ \/ /\ ~links[link].open
             /\ Answers(r, "keep", None) /\ UNCHANGED <<version, links, sessions>>
          \/ /\ links[link].open /\ Room
             /\ version' = version + 1
             /\ links' = RevokeLinks(links)
             /\ sessions' = IssueSession(RevokeSessions(sessions), cookie, version + 1)
             /\ Answers(r, "set", Len(sessions) + 1)
       /\ UNCHANGED jar

\* The answer arrives, in whatever order; or never.
Arrive(r) ==
    /\ request[r].at = "answered"
    /\ jar' = CASE request[r].effect = "keep" -> jar
                [] request[r].effect = "set" -> [jar EXCEPT ![request[r].browser] = request[r].new]
                [] request[r].effect = "clear" -> [jar EXCEPT ![request[r].browser] = None]
    /\ request' = [request EXCEPT ![r] = Idle]
    /\ UNCHANGED <<version, links, sessions>>

\* The process dies or the connection breaks: nothing reaches the browser.
Lose(r) ==
    /\ request[r].at # "idle"
    /\ request' = [request EXCEPT ![r] = Idle]
    /\ UNCHANGED <<version, links, sessions, jar>>

AccountsNext ==
    \/ IssueReset \/ SetPlan \/ Expire
    \/ \E r \in Requests :
          \/ Send(r) \/ Authenticate(r) \/ Rotate(r) \/ Page(r) \/ TurnAway(r) \/ Logout(r)
          \/ Verify(r) \/ StartSession(r) \/ Redeem(r) \/ Arrive(r) \/ Lose(r)

AccountsSpec == AccountsInit /\ [][AccountsNext]_accountVars

----------------------------------------------------------------------------
(* What the accounts promise. *)

\* A reset is final: whatever was under way when it committed, a session that is live rests
\* on the password it set, and so does the only link that opens.
ResetIsFinal ==
    /\ \A s \in DOMAIN sessions : Live(s) => sessions[s].version = version
    /\ \A l, m \in DOMAIN links : links[l].open =>
          /\ links[l].version = version
          /\ links[m].open => l = m

\* Answers that cross: one that clears the cookie takes a live session from the browser only
\* if it answers a sign-out, or came with another session than the one, live till then, that
\* was exchanged for it.
CookieSurvives ==
    [][\A b \in Browsers : Live(jar[b]) /\ jar'[b] = None =>
          \E r \in Requests :
             /\ request[r].at = "answered" /\ request[r].browser = b
             /\ request[r].kind = "logout" \/ sessions[jar[b]].heir_of # request[r].cookie]_accountVars
=============================================================================
