---------------------------- MODULE BrowserSession ----------------------------
(***************************************************************************)
(* The web session of one account in one browser: the rows of              *)
(* iam.sessions and their rotation (control/src/modules/auth), the cookie  *)
(* jar that all tabs share, and the session code of each tab               *)
(* (frontend/src/lib/session-refresh.ts, axios-instance.ts and             *)
(* providers/auth-provider.tsx).  Requests are served statement by         *)
(* statement, their answers arrive late, get lost, or find the tab gone.   *)
(*                                                                         *)
(* A row is a pair of a token family and a slot.  A row that neither the   *)
(* cookie nor a request names can never be presented again and is left     *)
(* out, and its slot serves for a new row: rotations and sign-ins need no  *)
(* bound.                                                                  *)
(***************************************************************************)
EXTENDS Naturals, FiniteSets

CONSTANTS
  Tabs,       \* tabs of the browser
  Ghosts,     \* places for requests of pages that have gone
  Fams,       \* token families
  Slots,      \* rows of a family that may be named at one time
  NoRow,      \* no session row
  WebLocks,   \* the browser has navigator.locks
  MaxTrouble  \* bound: sign-outs, administrative operations and faults

Procs == Tabs \cup Ghosts
Rows == Fams \X Slots

ASSUME SessionAssumption ==
  /\ Tabs \cap Ghosts = {} /\ NoRow \notin Rows /\ Slots # {}
  /\ WebLocks \in BOOLEAN /\ MaxTrouble \in Nat

VARIABLES
  status,   \* iam.users.status
  live,     \* rows of iam.sessions not revoked, while somebody has the token
  cookie,   \* the row whose token the refresh cookie carries
  tab,      \* what each tab shows ("in" has an access token), and its backoff
  req,      \* the request each tab, or gone page, has under way
  reused,   \* (history) a presented token made the server revoke a live row
  ops,      \* sign-outs, revocations and status changes so far
  faults    \* lost answers, failed or throttled requests; a page left counts twice

vars == <<status, live, cookie, tab, req, reused, ops, faults>>

\* "retry" and "timer" are the interceptor's and the 45-minute refresh, "load"
\* the one of a page without an access token.
Kinds == {"none", "login", "logout", "load", "timer", "retry"}
Refreshes == {"load", "timer", "retry"}

\* waiting for the browser lock, on its way, being served (for a refresh: row
\* locked, account read), answered.
Stages == {"waiting", "sent", "held", "answered"}

\* "denied" is 401 or 500 with the cookie cleared, "bad" 400 without, "busy" 429.
Answers == {"none", "ok", "denied", "bad", "busy", "lost"}

NoReq == [kind |-> "none", stage |-> "answered", row |-> NoRow, new |-> NoRow, ans |-> "none"]
Away == [page |-> "away", backoff |-> "none"]
Loading == [page |-> "loading", backoff |-> "none"]

Init ==
  /\ status = "ACTIVE"
  /\ live = {}
  /\ cookie = NoRow
  /\ tab = [t \in Tabs |-> Away]
  /\ req = [p \in Procs |-> NoReq]
  /\ reused = FALSE
  /\ ops = 0 /\ faults = 0

Op == ops + faults < MaxTrouble /\ ops' = ops + 1

Fault(n) == ops + faults + n <= MaxTrouble /\ faults' = faults + n

-----------------------------------------------------------------------------
(* The server.                                                              *)

Named == {cookie} \cup {req[p].row : p \in Procs} \cup {req[p].new : p \in Procs}

InFamily(f) == {f} \X Slots

\* A slot of the family for a new row.
FreshRows(f) == InFamily(f) \ (Named \cup live)

\* A family for a sign-in: nobody can present a token of it any more.
FreshFams == {f \in Fams : InFamily(f) \cap Named = {}}

Answer(p, ans, new) ==
  req' = [req EXCEPT ![p].stage = "answered", ![p].ans = ans, ![p].new = new]

\* login: the account is read, and the password compared.
Authenticate(p) ==
  /\ req[p].kind = "login" /\ req[p].stage = "sent"
  /\ IF status = "ACTIVE" THEN req' = [req EXCEPT ![p].stage = "held"]
                          ELSE Answer(p, "bad", NoRow)
  /\ UNCHANGED <<status, live, cookie, tab, reused, ops, faults>>

\* createSession: INSERT of a row in a new family.
CreateSession(p) ==
  /\ req[p].kind = "login" /\ req[p].stage = "held"
  /\ FreshFams # {}
  /\ LET f == CHOOSE x \in FreshFams : TRUE
         r == CHOOSE x \in InFamily(f) : TRUE
     IN  /\ live' = (live \ InFamily(f)) \cup {r}
         /\ Answer(p, "ok", r)
  /\ UNCHANGED <<status, cookie, tab, reused, ops, faults>>

\* No other transaction has the row locked.
Unlocked(r) == \A q \in Procs : ~(req[q].kind \in Refreshes /\ req[q].stage = "held" /\ req[q].row = r)

\* Mutant: the account's status is not looked at.
LockSessionAnyStatus(p) ==
  /\ req[p].kind \in Refreshes /\ req[p].stage = "sent"
  /\ req[p].row # NoRow
  /\ Unlocked(req[p].row)
  /\ \/ /\ req[p].row \in live
        /\ req' = [req EXCEPT ![p].stage = "held"]
        /\ UNCHANGED <<live, reused>>
     \/ /\ req[p].row \notin live
        /\ live' = live \ InFamily(req[p].row[1])
        /\ reused' = (reused \/ live' # live)
        /\ Answer(p, "denied", NoRow)
  /\ UNCHANGED <<status, cookie, tab, ops, faults>>

\* SELECT .. FOR UPDATE OF s: the row is locked and the account read.  A
\* revoked row revokes its family; an inactive account revokes the row.
LockSession(p) ==
  /\ req[p].kind \in Refreshes /\ req[p].stage = "sent"
  /\ req[p].row # NoRow
  /\ Unlocked(req[p].row)
  /\ \/ /\ req[p].row \in live /\ status = "ACTIVE"
        /\ req' = [req EXCEPT ![p].stage = "held"]
        /\ UNCHANGED <<live, reused>>
     \/ /\ req[p].row \in live /\ status # "ACTIVE"
        /\ live' = live \ {req[p].row}
        /\ Answer(p, "denied", NoRow)
        /\ UNCHANGED reused
     \/ /\ req[p].row \notin live
        /\ live' = live \ InFamily(req[p].row[1])
        /\ reused' = (reused \/ live' # live)
        /\ Answer(p, "denied", NoRow)
  /\ UNCHANGED <<status, cookie, tab, ops, faults>>

\* Mutant: the presented row is not revoked.
RotateKeeps(p) ==
  /\ req[p].kind \in Refreshes /\ req[p].stage = "held"
  /\ FreshRows(req[p].row[1]) # {}
  /\ LET r == CHOOSE x \in FreshRows(req[p].row[1]) : TRUE
     IN  /\ live' = live \cup {r}
         /\ Answer(p, "ok", r)
  /\ UNCHANGED <<status, cookie, tab, reused, ops, faults>>

\* The old row is revoked, a row of the same family inserted, and the
\* transaction commits.  A revocation of all rows that came in between waited
\* for the lock and did not see the new one.
Rotate(p) ==
  /\ req[p].kind \in Refreshes /\ req[p].stage = "held"
  /\ FreshRows(req[p].row[1]) # {}
  /\ LET r == CHOOSE x \in FreshRows(req[p].row[1]) : TRUE
     IN  /\ live' = (live \ {req[p].row}) \cup {r}
         /\ Answer(p, "ok", r)
  /\ UNCHANGED <<status, cookie, tab, reused, ops, faults>>

\* No cookie came with the request.
NoRefreshToken(p) ==
  /\ req[p].kind \in Refreshes /\ req[p].stage = "sent"
  /\ req[p].row = NoRow
  /\ Answer(p, "bad", NoRow)
  /\ UNCHANGED <<status, live, cookie, tab, reused, ops, faults>>

\* The throttler refuses the request, a statement fails and the transaction is
\* rolled back, or the answer is lost (at once, or after the work is done).
RequestFails(p) ==
  /\ Fault(1)
  /\ req[p].kind # "none"
  /\ \/ req[p].stage = "sent" /\ \E ans \in {"busy", "lost"} : Answer(p, ans, NoRow)
     \/ req[p].stage = "held" /\ Answer(p, IF req[p].kind = "login" THEN "bad" ELSE "denied", NoRow)
     \/ req[p].stage = "answered" /\ req[p].ans # "lost" /\ Answer(p, "lost", NoRow)
  /\ UNCHANGED <<status, cookie, tab, reused, ops>>
  /\ live' = live \cap Named'

\* logout is served without a guard that sets the user: no row matches.
Logout(p) ==
  /\ req[p].kind = "logout" /\ req[p].stage = "sent"
  /\ Answer(p, "denied", NoRow)
  /\ UNCHANGED <<status, live, cookie, tab, reused, ops, faults>>

\* Status changes; the revocation of an administrative one is a statement of
\* its own, and the approval screen's rejection has none.
UpdateUserStatus ==
  /\ Op
  /\ status' = IF status = "ACTIVE" THEN "SUSPENDED" ELSE "ACTIVE"
  /\ UNCHANGED <<live, cookie, tab, req, reused, faults>>

\* UPDATE .. SET revoked_at WHERE user_id: a status change, a password reset.
RevokeSessions ==
  /\ Op
  /\ live # {}
  /\ live' = {}
  /\ UNCHANGED <<status, cookie, tab, req, reused, faults>>

-----------------------------------------------------------------------------
(* The tabs.                                                                *)

Free(t) == req[t] = NoReq

Send(t, kind, stage, row) ==
  req' = [req EXCEPT ![t] = [NoReq EXCEPT !.kind = kind, !.stage = stage, !.row = row]]

\* Mutant: the tabs do not use the browser's lock.
RefreshSessionAtOnce(t, kind) ==
  /\ Free(t)
  /\ tab[t].backoff = "none"
  /\ Send(t, kind, "sent", cookie)
  /\ UNCHANGED <<status, live, cookie, tab, reused, ops, faults>>

\* refreshSession: at most one refresh per tab, none soon after a failure.
RefreshSession(t, kind) ==
  /\ Free(t)
  /\ tab[t].backoff = "none"
  /\ IF WebLocks THEN Send(t, kind, "waiting", NoRow) ELSE Send(t, kind, "sent", cookie)
  /\ UNCHANGED <<status, live, cookie, tab, reused, ops, faults>>

\* A page of the application opens without an access token.
RestoreSession(t) == tab[t].page = "loading" /\ RefreshSession(t, "load")

\* Every 45 minutes.
RefreshTimer(t) == tab[t].page = "in" /\ RefreshSession(t, "timer")

\* The access token has expired when the page calls the API.  A refresh under
\* way is shared; within the backoff the failure before decides.
Unauthorised(t) ==
  /\ tab[t].page = "in"
  /\ \/ RefreshSession(t, "retry")
     \/ /\ req[t].kind = "timer"
        /\ req' = [req EXCEPT ![t].kind = "retry"]
        /\ UNCHANGED <<status, live, cookie, tab, reused, ops, faults>>
     \/ /\ Free(t) /\ tab[t].backoff = "failed"
        /\ tab' = [tab EXCEPT ![t] = Away]
        /\ UNCHANGED <<status, live, cookie, req, reused, ops, faults>>

\* navigator.locks: one refresh of the browser at a time; the lock of a page
\* that has gone is released.  The request takes the cookie of this moment.
LockGranted(t) ==
  /\ t \in Tabs /\ req[t].stage = "waiting"
  /\ \A q \in Tabs : req[q].kind \in Refreshes => req[q].stage = "waiting"
  /\ Send(t, req[t].kind, "sent", cookie)
  /\ UNCHANGED <<status, live, cookie, tab, reused, ops, faults>>

Login(t) ==
  /\ tab[t].page = "away" /\ Free(t)
  /\ Send(t, "login", "sent", NoRow)
  /\ UNCHANGED <<status, live, cookie, tab, reused, ops, faults>>

SignOut(t) ==
  /\ Op
  /\ tab[t].page = "in" /\ Free(t)
  /\ Send(t, "logout", "sent", NoRow)
  /\ UNCHANGED <<status, live, cookie, tab, reused, faults>>

\* Mutant: the cookie of a rotated token is not set.
JarKeeps(r) == IF r.ans = "denied" THEN NoRow
               ELSE IF r.ans = "ok" /\ r.kind # "timer" THEN r.new ELSE cookie

\* What an answer does to the cookie jar, whether or not its page is there.
Jar(r) == CASE r.ans = "ok" -> r.new
            [] r.ans = "denied" -> NoRow
            [] OTHER -> cookie

\* Mutant: a page whose refresh fails is not declared signed out.
AfterRefreshLoads(t, r) ==
  IF r.ans = "ok" THEN [page |-> "in", backoff |-> "none"]
  ELSE IF r.kind = "retry" /\ r.ans # "busy" THEN Away
  ELSE tab[t]

\* The page after the answer of a refresh: a timer's failure is silent, 429
\* keeps the session, everything else ends it.  A lost answer has no status
\* and starts no backoff; within the one after 429 no call changes anything.
AfterRefresh(t, r) ==
  IF r.ans = "ok" THEN [page |-> "in", backoff |-> "none"]
  ELSE IF r.kind = "load" \/ (r.kind = "retry" /\ r.ans # "busy") THEN Away
  ELSE [tab[t] EXCEPT !.backoff = IF r.ans \in {"busy", "lost"} THEN "none" ELSE "failed"]

\* login reloads the page, and with it loses the token it just stored.
AfterLogin(r) == IF r.ans = "ok" THEN Loading ELSE Away

Deliver(t) ==
  /\ t \in Tabs /\ req[t].kind # "none" /\ req[t].stage = "answered"
  /\ cookie' = Jar(req[t])
  /\ tab' = [tab EXCEPT ![t] = CASE req[t].kind = "login" -> AfterLogin(req[t])
                                 [] req[t].kind = "logout" -> Away
                                 [] OTHER -> AfterRefresh(t, req[t])]
  /\ req' = [req EXCEPT ![t] = NoReq]
  /\ live' = live \cap Named'
  /\ UNCHANGED <<status, reused, ops, faults>>

\* The browser still takes the cookies of an answer to a page that has gone.
DeliverLate(g) ==
  /\ g \in Ghosts /\ req[g].kind # "none" /\ req[g].stage = "answered"
  /\ cookie' = Jar(req[g])
  /\ req' = [req EXCEPT ![g] = NoReq]
  /\ live' = live \cap Named'
  /\ UNCHANGED <<status, tab, reused, ops, faults>>

\* GET /auth/me fails after a refresh that succeeded: the tab is signed out.
FetchMeFails(t) ==
  /\ Fault(1)
  /\ req[t].kind = "load" /\ req[t].stage = "answered" /\ req[t].ans = "ok"
  /\ cookie' = Jar(req[t])
  /\ tab' = [tab EXCEPT ![t] = Away]
  /\ req' = [req EXCEPT ![t] = NoReq]
  /\ live' = live \cap Named'
  /\ UNCHANGED <<status, reused, ops>>

\* The user opens a page of the application.
OpenPage(t) ==
  /\ Free(t) /\ tab[t].page \in {"away", "in"}
  /\ cookie # NoRow \/ tab[t].page = "in"
  /\ tab' = [tab EXCEPT ![t] = Loading]
  /\ UNCHANGED <<status, live, cookie, req, reused, ops, faults>>

\* The page is left for another one while its request is under way.
LeavePage(t) ==
  /\ Fault(2)
  /\ req[t].kind # "none" /\ req[t].stage # "waiting"
  /\ \E g \in Ghosts :
       /\ req[g] = NoReq
       /\ req' = [req EXCEPT ![g] = req[t], ![t] = NoReq]
  /\ tab' = [tab EXCEPT ![t] = Loading]
  /\ UNCHANGED <<status, live, cookie, reused, ops>>

\* The ten seconds of the backoff pass.
BackoffOver(t) ==
  /\ tab[t].backoff # "none"
  /\ tab' = [tab EXCEPT ![t].backoff = "none"]
  /\ UNCHANGED <<status, live, cookie, req, reused, ops, faults>>

-----------------------------------------------------------------------------
Serve(p) == \/ Authenticate(p) \/ CreateSession(p)
            \/ LockSession(p) \/ Rotate(p) \/ NoRefreshToken(p)
            \/ Logout(p)

Next ==
  \/ \E p \in Procs : Serve(p) \/ RequestFails(p) \/ DeliverLate(p)
  \/ UpdateUserStatus \/ RevokeSessions
  \/ \E t \in Tabs :
       \/ RestoreSession(t) \/ RefreshTimer(t) \/ Unauthorised(t)
       \/ LockGranted(t) \/ Deliver(t) \/ FetchMeFails(t)
       \/ Login(t) \/ SignOut(t) \/ OpenPage(t) \/ LeavePage(t)
       \/ BackoffOver(t)

\* Requests are served and answered, time passes, a page that opens restores
\* its session and a signed-in page calls the API.  Nobody has to sign in, to
\* sign out or to leave; the timer is not owed, for the page may be closed.
Fairness ==
  /\ \A p \in Procs : WF_vars(Serve(p)) /\ WF_vars(DeliverLate(p))
  /\ \A t \in Tabs :
       /\ WF_vars(RestoreSession(t)) /\ SF_vars(LockGranted(t))
       /\ WF_vars(Deliver(t)) /\ SF_vars(Unauthorised(t))
       /\ WF_vars(BackoffOver(t))

Spec == Init /\ [][Next]_vars /\ Fairness

-----------------------------------------------------------------------------
(* Properties.                                                              *)

\* Every variable has its type.
TypeOK ==
  /\ status \in {"ACTIVE", "SUSPENDED"}
  /\ live \subseteq Rows
  /\ cookie \in Rows \cup {NoRow}
  /\ tab \in [Tabs -> [page : {"away", "loading", "in"},
                       backoff : {"none", "failed"}]]
  /\ req \in [Procs -> [kind : Kinds, stage : Stages, row : Rows \cup {NoRow},
                        new : Rows \cup {NoRow}, ans : Answers]]
  /\ reused \in BOOLEAN
  /\ ops \in Nat /\ faults \in Nat /\ ops + faults <= MaxTrouble

\* A family never has two rows that can be refreshed, whatever requests present
\* its tokens together, and however they fail or are repeated (refresh: the
\* row lock, the revocation and the insert are one transaction).
OneLivePerFamily == \A r, s \in live : r[1] = s[1] => r = s

\* While no answer is lost and no page left in the middle of a request, the
\* tabs of a browser with locks never make the server revoke their own family,
\* not even when one signs in or out while another refreshes (the guarantee
\* in the header of session-refresh.ts).
NoSelfReuse == WebLocks /\ faults = 0 => ~reused

\* Without a fault, a sign-out or an administrator, a signed-in tab stays
\* signed in until the user opens another page, through every refresh of
\* every tab.
SignedInStays ==
  [][\A t \in Tabs :
       WebLocks /\ faults' = 0 /\ ops' = 0 /\ tab[t].page = "in"
         => tab'[t].page \in {"in", "loading"}]_vars

\* A page that opens does not load for ever: it gets the browser's lock and an
\* answer, even when tabs keep refreshing or leave with the lock held.
PageSettles == \A t \in Tabs : tab[t].page = "loading" ~> tab[t].page # "loading"

\* Once the account stays inactive every tab ends signed out, also when the
\* sessions were not revoked with the status, or a sign-in or a refresh that
\* had read the old status added a row afterwards.
InactiveSignsOut ==
  <>[](status # "ACTIVE") => \A t \in Tabs : <>[](tab[t].page # "in")
=============================================================================
