------------------------- MODULE BrowserSession_proofs -------------------------
(***************************************************************************)
(* Proofs about the web session, for any number of tabs, pages that have   *)
(* gone, token families and rows.  A family stays a chain because whoever  *)
(* has its row locked is alone in it.  The tabs do not revoke their own    *)
(* family because one refresh is under way at a time, and the cookie is    *)
(* the live row of its family except while that refresh has been answered  *)
(* and not delivered.                                                      *)
(***************************************************************************)
EXTENDS BrowserSession, TLAPS

ReqRow == [kind : Kinds, stage : Stages, row : Rows \cup {NoRow},
           new : Rows \cup {NoRow}, ans : Answers]
TabRow == [page : {"away", "loading", "in"}, backoff : {"none", "failed"}]

-----------------------------------------------------------------------------
(* The invariants.                                                          *)

\* What a request looks like: a new row comes with the answer "ok" and with
\* nothing else; only a refresh waits for the browser's lock.
Shaped(r) ==
  /\ r.kind = "none" => r.row = NoRow
  /\ r.kind \in Refreshes /\ r.stage = "held" => r.row # NoRow
  /\ r.ans = "ok" <=> r.new # NoRow
  /\ r.ans # "none" => r.stage = "answered" /\ r.kind # "none"
  /\ r.ans = "ok" => r.kind # "logout"
  /\ r.kind \in {"login", "logout"} => r.row = NoRow
  /\ r.stage = "waiting" => r.kind \in Refreshes /\ r.row = NoRow

ShapeInv == \A p \in Procs : Shaped(req[p])

\* A refresh that has its row locked.
Holds(p) == req[p].kind \in Refreshes /\ req[p].stage = "held"

\* No live row of the family but r.
AloneIn(r) == \A s \in live : s[1] = r[1] => s = r

ChainInv ==
  /\ OneLivePerFamily
  /\ \A p \in Procs : Holds(p) => AloneIn(req[p].row)
  /\ \A p, q \in Procs : Holds(p) /\ Holds(q) /\ req[p].row[1] = req[q].row[1] => p = q

\* A refresh that has the browser's lock.
Under(p) == req[p].kind \in Refreshes /\ req[p].stage # "waiting"

\* A refresh has been answered with a row that the cookie does not carry yet.
Rotated == \E p \in Procs : Under(p) /\ req[p].new # NoRow

\* The family of a row that a sign-in was given, and nobody else knows.
Private(p) ==
  /\ cookie # NoRow => cookie[1] # req[p].new[1]
  /\ \A q \in Procs :
       /\ req[q].row # NoRow => req[q].row[1] # req[p].new[1]
       /\ q # p /\ req[q].new # NoRow => req[q].new[1] # req[p].new[1]

Calm == WebLocks /\ faults = 0

QuietInv ==
  Calm =>
    /\ ~reused
    /\ \A g \in Ghosts : req[g].kind = "none"
    /\ \A p, q \in Procs : Under(p) /\ Under(q) => p = q
    /\ \A p \in Procs : req[p].stage \in {"sent", "held"} /\ req[p].row # NoRow
                          => AloneIn(req[p].row)
    /\ \A p \in Procs : req[p].new # NoRow => AloneIn(req[p].new)
    /\ \A p \in Procs : req[p].new # NoRow /\ req[p].kind = "login" => Private(p)
    /\ cookie # NoRow => AloneIn(cookie) \/ Rotated

\* Without operations either, whoever is or will be signed in has a live row.
Steady == Calm /\ ops = 0

StayTab(t) ==
  /\ tab[t].page # "away" => cookie # NoRow
  /\ tab[t].backoff = "none"
  /\ req[t].kind = "login" => tab[t].page = "away"

StayReq(p) ==
  /\ req[p].kind # "logout"
  /\ req[p].kind \in Refreshes => cookie # NoRow
  /\ req[p].kind \in Refreshes /\ req[p].stage \in {"sent", "held"} => req[p].row \in live
  /\ req[p].kind # "none" /\ req[p].stage = "answered" => req[p].ans = "ok"
  /\ req[p].new # NoRow => req[p].new \in live

StayInv ==
  Steady =>
    /\ status = "ACTIVE"
    /\ \A t \in Tabs : StayTab(t)
    /\ \A p \in Procs : StayReq(p)
    /\ cookie # NoRow => cookie \in live \/ Rotated

-----------------------------------------------------------------------------
(* Types.                                                                   *)

\* The initial state has its types.
LEMMA InitTypes == Init => TypeOK /\ ShapeInv
<1> SUFFICES ASSUME Init PROVE TypeOK /\ ShapeInv
  OBVIOUS
<1>1. NoReq \in ReqRow /\ Away \in TabRow
  BY DEF NoReq, ReqRow, Away, TabRow, Kinds, Stages, Answers
<1>2. req \in [Procs -> ReqRow] /\ tab \in [Tabs -> TabRow]
  BY <1>1 DEF Init
<1>3. reused \in BOOLEAN
  BY DEF Init
<1>4. TypeOK
  BY <1>2, <1>3, SessionAssumption DEF Init, TypeOK, SessionAssumption, ReqRow, TabRow
<1>5. \A p \in Procs : req[p] = NoReq
  BY DEF Init
<1>6. Shaped(NoReq)
  BY DEF Shaped, NoReq, Refreshes
<1> QED BY <1>4, <1>5, <1>6 DEF ShapeInv

\* The requests and tabs of a state, one by one.
LEMMA Fields ==
  ASSUME TypeOK
  PROVE  /\ req \in [Procs -> ReqRow] /\ tab \in [Tabs -> TabRow]
         /\ NoReq \in ReqRow /\ Away \in TabRow /\ Loading \in TabRow
         /\ Tabs \subseteq Procs /\ Ghosts \subseteq Procs
BY DEF TypeOK, ReqRow, TabRow, NoReq, Away, Loading, Procs, Kinds, Stages, Answers

\* An answer changes the request it answers and no other.
LEMMA Answered ==
  ASSUME TypeOK, NEW p \in Procs, NEW a \in Answers, NEW n \in Rows \cup {NoRow},
         Answer(p, a, n)
  PROVE  /\ req' \in [Procs -> ReqRow]
         /\ req'[p].kind = req[p].kind /\ req'[p].row = req[p].row
         /\ req'[p].stage = "answered" /\ req'[p].new = n /\ req'[p].ans = a
         /\ \A q \in Procs : q # p => req'[q] = req[q]
BY Fields DEF Answer, ReqRow, Stages

\* The lock changes the stage of the request and nothing else.
LEMMA Held ==
  ASSUME TypeOK, NEW p \in Procs, req' = [req EXCEPT ![p].stage = "held"]
  PROVE  /\ req' \in [Procs -> ReqRow]
         /\ req'[p].kind = req[p].kind /\ req'[p].row = req[p].row
         /\ req'[p].stage = "held" /\ req'[p].new = req[p].new /\ req'[p].ans = req[p].ans
         /\ \A q \in Procs : q # p => req'[q] = req[q]
BY Fields DEF ReqRow, Stages

\* Sending a request replaces the one of the tab.
LEMMA Sent ==
  ASSUME TypeOK, NEW t \in Tabs, NEW k \in Kinds, NEW g \in Stages,
         NEW r \in Rows \cup {NoRow}, Send(t, k, g, r)
  PROVE  /\ req' \in [Procs -> ReqRow]
         /\ req'[t].kind = k /\ req'[t].stage = g /\ req'[t].row = r
         /\ req'[t].new = NoRow /\ req'[t].ans = "none"
         /\ \A q \in Procs : q # t => req'[q] = req[q]
BY Fields DEF Send, ReqRow, NoReq, Answers

\* Delivering an answer leaves the tab without a request.
LEMMA Cleared ==
  ASSUME TypeOK, NEW p \in Procs, req' = [req EXCEPT ![p] = NoReq]
  PROVE  /\ req' \in [Procs -> ReqRow]
         /\ req'[p] = NoReq
         /\ \A q \in Procs : q # p => req'[q] = req[q]
BY Fields

\* The rows of a family, and the slot taken for a new one.
LEMMA NewRows ==
  ASSUME NEW f \in Fams
  PROVE  /\ InFamily(f) \subseteq Rows
         /\ (CHOOSE x \in InFamily(f) : TRUE) \in InFamily(f)
         /\ \A r \in InFamily(f) : r[1] = f
         /\ \A r \in Rows : r[1] = f => r \in InFamily(f)
         /\ FreshRows(f) \subseteq InFamily(f)
         /\ FreshRows(f) # {} => (CHOOSE x \in FreshRows(f) : TRUE) \in FreshRows(f)
<1>1. InFamily(f) \subseteq Rows
  BY DEF InFamily, Rows
<1>2. PICK s \in Slots : TRUE
  BY SessionAssumption DEF SessionAssumption
<1>3. <<f, s>> \in InFamily(f)
  BY DEF InFamily
<1>4. (CHOOSE x \in InFamily(f) : TRUE) \in InFamily(f)
  BY <1>3, Zenon
<1>5. \A r \in InFamily(f) : r[1] = f
  BY DEF InFamily
<1>6. \A r \in Rows : r[1] = f => r \in InFamily(f)
  BY DEF InFamily, Rows
<1>7. FreshRows(f) \subseteq InFamily(f)
  BY DEF FreshRows
<1>8. FreshRows(f) # {} => (CHOOSE x \in FreshRows(f) : TRUE) \in FreshRows(f)
  OBVIOUS
<1> QED BY <1>1, <1>4, <1>5, <1>6, <1>7, <1>8

\* A step that serves a request keeps types and shapes.
LEMMA ServeTypes ==
  ASSUME TypeOK, ShapeInv, NEW p \in Procs, Serve(p)
  PROVE  TypeOK' /\ ShapeInv'
<1> USE Fields
<1>0. Shaped(req[p]) /\ req[p] \in ReqRow
  BY DEF ShapeInv
<1>1. CASE Authenticate(p)
  <2>1. CASE status = "ACTIVE"
    <3>1. req' = [req EXCEPT ![p].stage = "held"]
      BY <1>1, <2>1 DEF Authenticate
    <3>2. Shaped(req'[p])
      BY <1>0, <1>1, <3>1, Held DEF Authenticate, Shaped, Refreshes
    <3> QED BY <1>1, <3>1, <3>2, Held DEF Authenticate, TypeOK, ReqRow, ShapeInv
  <2>2. CASE status # "ACTIVE"
    <3>1. Answer(p, "bad", NoRow)
      BY <1>1, <2>2 DEF Authenticate
    <3>2. Shaped(req'[p])
      BY <1>0, <1>1, <3>1, Answered DEF Authenticate, Shaped, Answers, Refreshes
    <3> QED BY <1>1, <3>1, <3>2, Answered DEF Authenticate, TypeOK, ReqRow, ShapeInv, Answers
  <2> QED BY <2>1, <2>2
<1>2. CASE CreateSession(p)
  <2> DEFINE f == CHOOSE x \in FreshFams : TRUE
             r == CHOOSE x \in InFamily(f) : TRUE
  <2>1. f \in Fams
    BY <1>2 DEF CreateSession, FreshFams
  <2>2. r \in Rows
    BY <2>1, NewRows
  <2>3. Answer(p, "ok", r) /\ live' = (live \ InFamily(f)) \cup {r}
    BY <1>2 DEF CreateSession
  <2> HIDE DEF f, r
  <2>4. live' \subseteq Rows
    BY <2>2, <2>3 DEF TypeOK
  <2>5. r # NoRow
    BY <2>2, SessionAssumption DEF SessionAssumption
  <2>6. Shaped(req'[p])
    BY <1>0, <1>2, <2>2, <2>3, <2>5, Answered DEF CreateSession, Shaped, Answers, Refreshes
  <2>7. TypeOK'
    BY <1>2, <2>2, <2>3, <2>4, Answered DEF CreateSession, TypeOK, ReqRow, Answers
  <2>8. ShapeInv'
    BY <2>2, <2>3, <2>6, Answered DEF ShapeInv, Answers
  <2> QED BY <2>7, <2>8
<1>3. CASE LockSession(p)
  <2>1. live' \subseteq Rows /\ reused' \in BOOLEAN
    BY <1>3 DEF LockSession, TypeOK
  <2>2. CASE req' = [req EXCEPT ![p].stage = "held"]
    <3>1. Shaped(req'[p])
      BY <1>0, <1>3, <2>2, Held DEF LockSession, Shaped, Refreshes
    <3> QED BY <1>3, <2>1, <2>2, <3>1, Held DEF LockSession, TypeOK, ReqRow, ShapeInv
  <2>3. CASE Answer(p, "denied", NoRow)
    <3>1. Shaped(req'[p])
      BY <1>0, <1>3, <2>3, Answered DEF LockSession, Shaped, Answers, Refreshes
    <3> QED BY <1>3, <2>1, <2>3, <3>1, Answered DEF LockSession, TypeOK, ReqRow, ShapeInv, Answers
  <2> QED BY <1>3, <2>2, <2>3 DEF LockSession
<1>4. CASE Rotate(p)
  <2> DEFINE f == req[p].row[1]
             r == CHOOSE x \in FreshRows(f) : TRUE
  <2>1. req[p].row \in Rows /\ f \in Fams
    BY <1>0, <1>4 DEF Rotate, Shaped, ReqRow, Rows
  <2>2. r \in Rows
    BY <1>4, <2>1, NewRows DEF Rotate
  <2>3. Answer(p, "ok", r) /\ live' = (live \ {req[p].row}) \cup {r}
    BY <1>4 DEF Rotate
  <2> HIDE DEF f, r
  <2>4. live' \subseteq Rows
    BY <2>2, <2>3 DEF TypeOK
  <2>5. r # NoRow
    BY <2>2, SessionAssumption DEF SessionAssumption
  <2>6. Shaped(req'[p])
    BY <1>0, <1>4, <2>2, <2>3, <2>5, Answered DEF Rotate, Shaped, Answers, Refreshes
  <2> QED BY <1>4, <2>2, <2>3, <2>4, <2>6, Answered
          DEF Rotate, TypeOK, ReqRow, ShapeInv, Answers
<1>5. CASE NoRefreshToken(p) \/ Logout(p)
  <2>1. Answer(p, "bad", NoRow) \/ Answer(p, "denied", NoRow)
    BY <1>5 DEF NoRefreshToken, Logout
  <2>2. Shaped(req'[p])
    BY <1>0, <1>5, <2>1, Answered DEF NoRefreshToken, Logout, Shaped, Answers, Refreshes
  <2> QED BY <1>5, <2>1, <2>2, Answered
          DEF NoRefreshToken, Logout, TypeOK, ReqRow, ShapeInv, Answers
<1> QED BY <1>1, <1>2, <1>3, <1>4, <1>5 DEF Serve

\* The counters of the bounds.
LEMMA CounterTypes ==
  ASSUME TypeOK
  PROVE  /\ Op => ops' \in Nat /\ ops' + faults <= MaxTrouble /\ ops' > 0
         /\ \A n \in {1, 2} : Fault(n) => /\ faults' \in Nat /\ ops + faults' <= MaxTrouble
                                         /\ faults' > 0
BY SessionAssumption DEF TypeOK, Op, Fault, SessionAssumption

\* The cookie after an answer, and the page of the tab, have their types.
LEMMA DeliveredTypes ==
  ASSUME TypeOK, NEW p \in Procs
  PROVE  /\ Jar(req[p]) \in Rows \cup {NoRow}
         /\ p \in Tabs => AfterRefresh(p, req[p]) \in TabRow /\ AfterLogin(req[p]) \in TabRow
<1> USE Fields
<1>1. Jar(req[p]) \in Rows \cup {NoRow}
  BY DEF Jar, TypeOK, ReqRow
<1>2. ASSUME p \in Tabs PROVE AfterRefresh(p, req[p]) \in TabRow
  <2>1. tab[p] \in TabRow
    BY <1>2
  <2>2. \A b \in {"none", "failed"} : [tab[p] EXCEPT !.backoff = b] \in TabRow
    BY <2>1 DEF TabRow
  <2>3. [page |-> "in", backoff |-> "none"] \in TabRow
    BY DEF TabRow
  <2> QED BY <2>2, <2>3 DEF AfterRefresh
<1>3. AfterLogin(req[p]) \in TabRow
  BY DEF AfterLogin
<1> QED BY <1>1, <1>2, <1>3

\* Requests that fail, and operations, keep types and shapes.
LEMMA FailTypes ==
  ASSUME TypeOK, ShapeInv
  PROVE  /\ \A p \in Procs : RequestFails(p) => TypeOK' /\ ShapeInv'
         /\ UpdateUserStatus => TypeOK' /\ ShapeInv'
         /\ RevokeSessions => TypeOK' /\ ShapeInv'
<1> USE Fields
<1>1. ASSUME NEW p \in Procs, RequestFails(p) PROVE TypeOK' /\ ShapeInv'
  <2>1. Shaped(req[p]) /\ req[p] \in ReqRow
    BY DEF ShapeInv
  <2>2. PICK a \in {"busy", "lost", "bad", "denied"} : Answer(p, a, NoRow)
    BY <1>1 DEF RequestFails
  <2>3. Shaped(req'[p])
    BY <1>1, <2>1, <2>2, Answered DEF RequestFails, Shaped, Answers, Refreshes
  <2>4. ShapeInv'
    BY <2>2, <2>3, Answered DEF ShapeInv, Answers
  <2>5. faults' \in Nat /\ ops + faults' <= MaxTrouble
    BY <1>1, CounterTypes DEF RequestFails
  <2>6. TypeOK'
    BY <1>1, <2>2, <2>5, Answered DEF RequestFails, TypeOK, ReqRow, Answers
  <2> QED BY <2>4, <2>6
<1>2. ASSUME UpdateUserStatus PROVE TypeOK' /\ ShapeInv'
  BY <1>2, CounterTypes DEF UpdateUserStatus, TypeOK, ShapeInv
<1>3. ASSUME RevokeSessions PROVE TypeOK' /\ ShapeInv'
  BY <1>3, CounterTypes DEF RevokeSessions, TypeOK, ShapeInv
<1> QED BY <1>1, <1>2, <1>3

\* What the three ways of taking an answer have in common.
TakesAnswer(p) ==
  /\ req[p].kind # "none" /\ req[p].stage = "answered"
  /\ req' = [req EXCEPT ![p] = NoReq]
  /\ cookie' = Jar(req[p])
  /\ live' = live \cap Named'
  /\ UNCHANGED <<status, reused, ops>>
  /\ faults' \in Nat /\ ops + faults' <= MaxTrouble
  /\ tab' \in [Tabs -> TabRow]

\* An answer is taken by its page, by nobody, or in vain.
LEMMA AnswerTaken ==
  ASSUME TypeOK, NEW p \in Procs
  PROVE  /\ Deliver(p) => TakesAnswer(p) /\ UNCHANGED faults
         /\ DeliverLate(p) => TakesAnswer(p) /\ UNCHANGED <<tab, faults>>
         /\ p \in Tabs => (FetchMeFails(p) => TakesAnswer(p) /\ faults' > 0)
<1> USE Fields
<1>1. ASSUME Deliver(p) PROVE TakesAnswer(p) /\ UNCHANGED faults
  <2>1. tab' \in [Tabs -> TabRow]
    BY <1>1, DeliveredTypes DEF Deliver
  <2> QED BY <1>1, <2>1 DEF Deliver, TakesAnswer, TypeOK
<1>2. ASSUME DeliverLate(p) PROVE TakesAnswer(p) /\ UNCHANGED <<tab, faults>>
  BY <1>2 DEF DeliverLate, TakesAnswer, TypeOK
<1>3. ASSUME p \in Tabs, FetchMeFails(p) PROVE TakesAnswer(p) /\ faults' > 0
  <2>1. faults' \in Nat /\ ops + faults' <= MaxTrouble /\ faults' > 0
    BY <1>3, CounterTypes DEF FetchMeFails
  <2>2. req[p].kind # "none"
    BY <1>3 DEF FetchMeFails
  <2> QED BY <1>3, <2>1, <2>2 DEF FetchMeFails, TakesAnswer
<1> QED BY <1>1, <1>2, <1>3

\* An answer that is taken keeps types and shapes.
LEMMA DeliverTypes ==
  ASSUME TypeOK, ShapeInv, NEW p \in Procs, TakesAnswer(p)
  PROVE  TypeOK' /\ ShapeInv'
<1> USE Fields
<1>1. Shaped(NoReq)
  BY DEF Shaped, NoReq, Refreshes
<1>2. ShapeInv'
  BY <1>1, Cleared DEF TakesAnswer, ShapeInv
<1>3. req' \in [Procs -> ReqRow] /\ cookie' \in Rows \cup {NoRow} /\ live' \subseteq Rows
  BY Cleared, DeliveredTypes DEF TakesAnswer, TypeOK
<1> QED BY <1>2, <1>3 DEF TakesAnswer, TypeOK, ReqRow, TabRow

\* A tab that sends a request or changes its page keeps types and shapes.
LEMMA TabTypes ==
  ASSUME TypeOK, ShapeInv, NEW t \in Tabs
  PROVE  /\ RestoreSession(t) \/ RefreshTimer(t) \/ Unauthorised(t) => TypeOK' /\ ShapeInv'
         /\ LockGranted(t) \/ Login(t) \/ SignOut(t) => TypeOK' /\ ShapeInv'
         /\ OpenPage(t) \/ LeavePage(t) \/ BackoffOver(t) => TypeOK' /\ ShapeInv'
<1> USE Fields
<1>1. ASSUME NEW k \in Refreshes, RefreshSession(t, k) PROVE TypeOK' /\ ShapeInv'
  <2>1. PICK g \in {"waiting", "sent"}, r \in {NoRow, cookie} :
          Send(t, k, g, r) /\ (g = "waiting" => r = NoRow)
    BY <1>1 DEF RefreshSession
  <2>2. k \in Kinds /\ g \in Stages /\ r \in Rows \cup {NoRow}
    BY DEF Kinds, Refreshes, Stages, TypeOK
  <2>3. Shaped(req'[t])
    BY <2>1, <2>2, Sent DEF Shaped, Refreshes
  <2>4. ShapeInv'
    BY <2>1, <2>2, <2>3, Sent DEF ShapeInv
  <2>5. TypeOK'
    BY <1>1, <2>1, <2>2, Sent DEF RefreshSession, TypeOK, ReqRow
  <2> QED BY <2>4, <2>5
<1>2. ASSUME Unauthorised(t) PROVE TypeOK' /\ ShapeInv'
  <2>1. CASE RefreshSession(t, "retry")
    BY <1>1, <2>1 DEF Refreshes
  <2>2. CASE req[t].kind = "timer" /\ req' = [req EXCEPT ![t].kind = "retry"]
             /\ UNCHANGED <<status, live, cookie, tab, reused, ops, faults>>
    <3>1. req' \in [Procs -> ReqRow]
      BY <2>2 DEF ReqRow, Kinds
    <3>2. Shaped(req'[t])
      BY <2>2 DEF ShapeInv, Shaped, Refreshes, ReqRow
    <3>3. ShapeInv'
      BY <2>2, <3>2 DEF ShapeInv
    <3> QED BY <2>2, <3>1, <3>3 DEF TypeOK, ReqRow
  <2>3. CASE tab' = [tab EXCEPT ![t] = Away]
             /\ UNCHANGED <<status, live, cookie, req, reused, ops, faults>>
    BY <2>3 DEF TypeOK, TabRow, ShapeInv
  <2> QED BY <1>2, <2>1, <2>2, <2>3 DEF Unauthorised
<1>3. ASSUME LockGranted(t) \/ Login(t) \/ SignOut(t) PROVE TypeOK' /\ ShapeInv'
  <2>1. PICK k \in Kinds, r \in {NoRow, cookie} :
          Send(t, k, "sent", r) /\ (k \notin Refreshes => r = NoRow) /\ k # "none"
    <3>1. CASE LockGranted(t)
      BY <3>1 DEF LockGranted, ShapeInv, Shaped, ReqRow, Refreshes
    <3>2. CASE Login(t) \/ SignOut(t)
      BY <3>2 DEF Login, SignOut, Kinds
    <3> QED BY <1>3, <3>1, <3>2
  <2>2. "sent" \in Stages /\ r \in Rows \cup {NoRow}
    BY DEF Stages, TypeOK
  <2>3. Shaped(req'[t])
    BY <2>1, <2>2, Sent DEF Shaped, Refreshes
  <2>4. ShapeInv'
    BY <2>1, <2>2, <2>3, Sent DEF ShapeInv
  <2>5. ops' \in Nat /\ ops' + faults <= MaxTrouble
    BY <1>3, CounterTypes DEF LockGranted, Login, SignOut, TypeOK
  <2>6. TypeOK'
    BY <1>3, <2>1, <2>2, <2>5, Sent DEF LockGranted, Login, SignOut, TypeOK, ReqRow
  <2> QED BY <2>4, <2>6
<1>4. ASSUME OpenPage(t) \/ BackoffOver(t) PROVE TypeOK' /\ ShapeInv'
  <2>1. tab' \in [Tabs -> TabRow]
    BY <1>4 DEF OpenPage, BackoffOver, TabRow
  <2> QED BY <1>4, <2>1 DEF OpenPage, BackoffOver, TypeOK, TabRow, ShapeInv
<1>5. ASSUME LeavePage(t) PROVE TypeOK' /\ ShapeInv'
  <2>1. PICK g \in Ghosts : req' = [req EXCEPT ![g] = req[t], ![t] = NoReq]
    BY <1>5 DEF LeavePage
  <2>2. Shaped(NoReq)
    BY DEF Shaped, NoReq, Refreshes
  <2>3. ShapeInv'
    BY <2>1, <2>2 DEF ShapeInv
  <2>4. faults' \in Nat /\ ops + faults' <= MaxTrouble
    BY <1>5, CounterTypes DEF LeavePage
  <2>5. req' \in [Procs -> ReqRow] /\ tab' \in [Tabs -> TabRow]
    BY <1>5, <2>1 DEF LeavePage
  <2> QED BY <1>5, <2>3, <2>4, <2>5 DEF LeavePage, TypeOK, ReqRow, TabRow
<1> QED BY <1>1, <1>2, <1>3, <1>4, <1>5 DEF RestoreSession, RefreshTimer, Refreshes

\* Every step keeps types and shapes.
LEMMA NextTypes == TypeOK /\ ShapeInv /\ [Next]_vars => TypeOK' /\ ShapeInv'
<1> SUFFICES ASSUME TypeOK, ShapeInv, [Next]_vars PROVE TypeOK' /\ ShapeInv'
  OBVIOUS
<1>1. CASE UNCHANGED vars
  BY <1>1 DEF vars, TypeOK, ShapeInv
<1>2. CASE Next
  <2>1. Tabs \subseteq Procs
    BY Fields
  <2>2. ASSUME NEW p \in Procs, Serve(p) \/ RequestFails(p) \/ DeliverLate(p)
        PROVE  TypeOK' /\ ShapeInv'
    <3>1. CASE Serve(p)
      BY <3>1, ServeTypes
    <3>2. CASE RequestFails(p)
      BY <3>2, FailTypes
    <3>3. CASE DeliverLate(p)
      BY <3>3, AnswerTaken, DeliverTypes
    <3> QED BY <2>2, <3>1, <3>2, <3>3
  <2>3. ASSUME NEW t \in Tabs,
               \/ RestoreSession(t) \/ RefreshTimer(t) \/ Unauthorised(t)
               \/ LockGranted(t) \/ Deliver(t) \/ FetchMeFails(t)
               \/ Login(t) \/ SignOut(t) \/ OpenPage(t) \/ LeavePage(t)
               \/ BackoffOver(t)
        PROVE  TypeOK' /\ ShapeInv'
    <3>1. t \in Procs
      BY <2>1
    <3>2. CASE Deliver(t) \/ FetchMeFails(t)
      BY <3>1, <3>2, AnswerTaken, DeliverTypes
    <3>3. CASE RestoreSession(t) \/ RefreshTimer(t) \/ Unauthorised(t)
      BY <3>3, TabTypes
    <3>4. CASE LockGranted(t) \/ Login(t) \/ SignOut(t)
      BY <3>4, TabTypes
    <3>5. CASE OpenPage(t) \/ LeavePage(t) \/ BackoffOver(t)
      BY <3>5, TabTypes
    <3> QED BY <2>3, <3>2, <3>3, <3>4, <3>5
  <2> QED BY <1>2, <2>2, <2>3, FailTypes DEF Next
<1> QED BY <1>1, <1>2

\* The session rows, the cookie, the tabs and the requests keep their types.
THEOREM SessionTypes == Spec => []TypeOK
<1>1. Spec => [](TypeOK /\ ShapeInv)
  BY InitTypes, NextTypes, PTL DEF Spec
<1> QED BY <1>1, PTL

-----------------------------------------------------------------------------
(* A family is a chain.                                                     *)

\* Rows that end and locks that are released do not break a chain.
LEMMA ChainShrinks ==
  ASSUME ChainInv, live' \subseteq live,
         \A p \in Procs : Holds(p)' => Holds(p) /\ req'[p].row = req[p].row
  PROVE  ChainInv'
BY DEF ChainInv, OneLivePerFamily, AloneIn

\* A request whose row is locked is alone in its family, and so is the new row
\* it gets in exchange; a sign-in starts a family that nobody names.
LEMMA ServeChain ==
  ASSUME TypeOK, ShapeInv, ChainInv, NEW p \in Procs, Serve(p)
  PROVE  ChainInv'
<1> USE Fields
<1>0. Shaped(req[p]) /\ req[p] \in ReqRow
  BY DEF ShapeInv
<1>1. CASE Authenticate(p)
  <2>1. live' = live
    BY <1>1 DEF Authenticate
  <2>2. \A q \in Procs : Holds(q)' => Holds(q) /\ req'[q].row = req[q].row
    <3>1. CASE status = "ACTIVE"
      BY <1>1, <3>1, Held DEF Authenticate, Holds, Refreshes
    <3>2. CASE status # "ACTIVE"
      BY <1>1, <3>2, Answered DEF Authenticate, Holds, Answers
    <3> QED BY <3>1, <3>2
  <2> QED BY <2>1, <2>2, ChainShrinks
<1>2. CASE CreateSession(p)
  <2> DEFINE f == CHOOSE x \in FreshFams : TRUE
             r == CHOOSE x \in InFamily(f) : TRUE
  <2>1. f \in Fams /\ InFamily(f) \cap Named = {}
    BY <1>2 DEF CreateSession, FreshFams
  <2>2. r \in Rows /\ r[1] = f
    BY <2>1, NewRows
  <2>3. Answer(p, "ok", r) /\ live' = (live \ InFamily(f)) \cup {r}
    BY <1>2 DEF CreateSession
  <2> HIDE DEF f, r
  <2>4. \A s \in live' : s = r \/ (s \in live /\ s[1] # f)
    BY <2>1, <2>3, NewRows DEF TypeOK
  <2>5. \A q \in Procs : Holds(q)' => Holds(q) /\ req'[q].row = req[q].row
    BY <2>2, <2>3, Answered DEF Holds, Answers
  <2>6. \A q \in Procs : Holds(q) => req[q].row \in Rows /\ req[q].row[1] # f
    <3> SUFFICES ASSUME NEW q \in Procs, Holds(q) PROVE req[q].row \in Rows /\ req[q].row[1] # f
      OBVIOUS
    <3>1. req[q].row \in Rows
      BY DEF Holds, ShapeInv, Shaped, ReqRow
    <3>2. req[q].row \in Named
      BY DEF Named
    <3> QED BY <2>1, <3>1, <3>2, NewRows
  <2> QED BY <2>2, <2>4, <2>5, <2>6 DEF ChainInv, OneLivePerFamily, AloneIn
<1>3. CASE LockSession(p)
  <2>1. CASE req' = [req EXCEPT ![p].stage = "held"] /\ live' = live /\ req[p].row \in live
    <3>1. \A q \in Procs : q # p => ~(Holds(q) /\ req[q].row = req[p].row)
      BY <1>3 DEF LockSession, Unlocked, Holds
    <3>2. AloneIn(req[p].row)
      BY <2>1 DEF ChainInv, OneLivePerFamily, AloneIn
    <3>3. \A q \in Procs : q # p => ~(Holds(q) /\ req[q].row[1] = req[p].row[1])
      BY <2>1, <3>1 DEF ChainInv, AloneIn
    <3>4. \A q \in Procs : /\ req'[q].row = req[q].row
                           /\ q # p => (Holds(q)' <=> Holds(q))
      BY <2>1, Held DEF Holds
    <3> QED BY <2>1, <3>2, <3>3, <3>4 DEF ChainInv, OneLivePerFamily, AloneIn
  <2>2. CASE Answer(p, "denied", NoRow) /\ live' \subseteq live
    <3>1. \A q \in Procs : Holds(q)' => Holds(q) /\ req'[q].row = req[q].row
      BY <2>2, Answered DEF Holds, Answers
    <3> QED BY <2>2, <3>1, ChainShrinks
  <2> QED BY <1>3, <2>1, <2>2 DEF LockSession
<1>4. CASE Rotate(p)
  <2> DEFINE f == req[p].row[1]
             r == CHOOSE x \in FreshRows(f) : TRUE
  <2>1. req[p].row \in Rows /\ f \in Fams
    BY <1>0, <1>4 DEF Rotate, Shaped, ReqRow, Rows
  <2>2. r \in Rows /\ r[1] = f
    BY <1>4, <2>1, NewRows DEF Rotate
  <2>3. Answer(p, "ok", r) /\ live' = (live \ {req[p].row}) \cup {r}
    BY <1>4 DEF Rotate
  <2>4. Holds(p) /\ AloneIn(req[p].row)
    BY <1>4 DEF Rotate, Holds, ChainInv
  <2>5. \A s \in live' : s = r \/ (s \in live /\ s[1] # f)
    BY <2>3, <2>4 DEF AloneIn
  <2>6. \A q \in Procs : Holds(q)' => q # p /\ Holds(q) /\ req'[q].row = req[q].row
    BY <2>2, <2>3, Answered DEF Holds, Answers
  <2>7. \A q \in Procs : Holds(q) /\ q # p => req[q].row[1] # f
    BY <2>4 DEF ChainInv
  <2> HIDE DEF f, r
  <2> QED BY <2>2, <2>5, <2>6, <2>7 DEF ChainInv, OneLivePerFamily, AloneIn
<1>5. CASE NoRefreshToken(p) \/ Logout(p)
  <2>1. Answer(p, "bad", NoRow) \/ Answer(p, "denied", NoRow)
    BY <1>5 DEF NoRefreshToken, Logout
  <2>2. \A q \in Procs : Holds(q)' => Holds(q) /\ req'[q].row = req[q].row
    BY <2>1, Answered DEF Holds, Answers
  <2>3. live' = live
    BY <1>5 DEF NoRefreshToken, Logout
  <2> QED BY <2>2, <2>3, ChainShrinks
<1> QED BY <1>1, <1>2, <1>3, <1>4, <1>5 DEF Serve

\* The steps of tabs lock no row and add none.
LEMMA TabChain ==
  ASSUME TypeOK, ShapeInv, ChainInv, NEW t \in Tabs
  PROVE  /\ RestoreSession(t) \/ RefreshTimer(t) \/ Unauthorised(t) => ChainInv'
         /\ LockGranted(t) \/ Login(t) \/ SignOut(t) => ChainInv'
         /\ OpenPage(t) \/ LeavePage(t) \/ BackoffOver(t) => ChainInv'
<1> USE Fields
<1>1. ASSUME NEW k \in Kinds, NEW g \in {"waiting", "sent"}, NEW r \in Rows \cup {NoRow},
             Send(t, k, g, r), live' = live
      PROVE  ChainInv'
  <2>1. \A q \in Procs : Holds(q)' => Holds(q) /\ req'[q].row = req[q].row
    BY <1>1, Sent DEF Holds, Stages
  <2> QED BY <1>1, <2>1, ChainShrinks
<1>2. ASSUME NEW k \in Refreshes, RefreshSession(t, k) PROVE ChainInv'
  BY <1>1, <1>2 DEF RefreshSession, Kinds, Refreshes, TypeOK
<1>3. ASSUME Unauthorised(t) PROVE ChainInv'
  <2>1. CASE RefreshSession(t, "retry")
    BY <1>2, <2>1 DEF Refreshes
  <2>2. CASE req[t].kind = "timer" /\ req' = [req EXCEPT ![t].kind = "retry"] /\ live' = live
    <3>1. \A q \in Procs : Holds(q)' => Holds(q) /\ req'[q].row = req[q].row
      BY <2>2 DEF Holds, Refreshes, ReqRow
    <3> QED BY <2>2, <3>1, ChainShrinks
  <2>3. CASE UNCHANGED <<req, live>>
    BY <2>3, ChainShrinks DEF Holds
  <2> QED BY <1>3, <2>1, <2>2, <2>3 DEF Unauthorised
<1>4. ASSUME LockGranted(t) \/ Login(t) \/ SignOut(t) PROVE ChainInv'
  <2>1. req[t].kind \in Kinds /\ cookie \in Rows \cup {NoRow}
    BY DEF ReqRow, TypeOK
  <2> QED BY <1>1, <1>4, <2>1 DEF LockGranted, Login, SignOut, Kinds
<1>5. ASSUME OpenPage(t) \/ BackoffOver(t) PROVE ChainInv'
  BY <1>5, ChainShrinks DEF OpenPage, BackoffOver, Holds
<1>6. ASSUME LeavePage(t) PROVE ChainInv'
  <2>1. PICK g \in Ghosts : req[g] = NoReq /\ req' = [req EXCEPT ![g] = req[t], ![t] = NoReq]
    BY <1>6 DEF LeavePage
  <2>2. live' = live /\ t # g
    BY <1>6, SessionAssumption DEF LeavePage, SessionAssumption
  <2>3. req'[t] = NoReq /\ req'[g] = req[t]
    BY <2>1, <2>2
  <2>4. \A q \in Procs \ {t, g} : req'[q] = req[q]
    BY <2>1
  <2>5. ~Holds(t)' /\ (Holds(g)' => Holds(t) /\ req'[g].row = req[t].row)
    BY <2>3 DEF Holds, NoReq, Refreshes
  <2>6. \A q \in Procs \ {t, g} : Holds(q)' => Holds(q) /\ req'[q].row = req[q].row
    BY <2>4 DEF Holds
  <2> QED BY <2>2, <2>5, <2>6 DEF ChainInv, OneLivePerFamily, AloneIn
<1> QED BY <1>2, <1>3, <1>4, <1>5, <1>6 DEF RestoreSession, RefreshTimer, Refreshes

\* Every step keeps the chains.
LEMMA NextChain == TypeOK /\ ShapeInv /\ ChainInv /\ [Next]_vars => ChainInv'
<1> SUFFICES ASSUME TypeOK, ShapeInv, ChainInv, [Next]_vars PROVE ChainInv'
  OBVIOUS
<1> USE Fields
<1>1. CASE UNCHANGED vars
  BY <1>1, ChainShrinks DEF vars, Holds
<1>2. ASSUME NEW p \in Procs, RequestFails(p) PROVE ChainInv'
  <2>1. PICK a \in {"busy", "lost", "bad", "denied"} : Answer(p, a, NoRow)
    BY <1>2 DEF RequestFails
  <2>2. \A q \in Procs : Holds(q)' => Holds(q) /\ req'[q].row = req[q].row
    BY <2>1, Answered DEF Holds, Answers
  <2>3. live' \subseteq live
    BY <1>2 DEF RequestFails
  <2> QED BY <2>2, <2>3, ChainShrinks
<1>3. ASSUME NEW p \in Procs, TakesAnswer(p) PROVE ChainInv'
  <2>1. \A q \in Procs : Holds(q)' => Holds(q) /\ req'[q].row = req[q].row
    BY <1>3, Cleared DEF TakesAnswer, Holds, NoReq, Refreshes
  <2>2. live' \subseteq live
    BY <1>3 DEF TakesAnswer
  <2> QED BY <2>1, <2>2, ChainShrinks
<1>4. ASSUME UpdateUserStatus \/ RevokeSessions PROVE ChainInv'
  BY <1>4, ChainShrinks DEF UpdateUserStatus, RevokeSessions, Holds
<1>5. ASSUME NEW t \in Tabs, Deliver(t) \/ FetchMeFails(t) PROVE ChainInv'
  BY <1>3, <1>5, AnswerTaken
<1>6. ASSUME NEW p \in Procs, DeliverLate(p) PROVE ChainInv'
  BY <1>3, <1>6, AnswerTaken
<1> QED BY <1>1, <1>2, <1>4, <1>5, <1>6, ServeChain, TabChain DEF Next

\* A family never has two rows that can be refreshed.
THEOREM OneLive == Spec => []OneLivePerFamily
<1>1. Init => ChainInv
  BY DEF Init, ChainInv, OneLivePerFamily, AloneIn, Holds, NoReq, Refreshes
<1>2. Spec => [](TypeOK /\ ShapeInv /\ ChainInv)
  BY <1>1, InitTypes, NextTypes, NextChain, PTL DEF Spec
<1>3. ChainInv => OneLivePerFamily
  BY DEF ChainInv
<1> QED BY <1>2, <1>3, PTL

-----------------------------------------------------------------------------
(* Tabs do not revoke their own family.                                     *)

\* A step that takes no new row into use, and under which no refresh gets or
\* loses the browser's lock.
Idle(p) ==
  /\ req'[p].row = req[p].row
  /\ req'[p].new \in {req[p].new, NoRow}
  /\ Under(p)' <=> Under(p)
  /\ Under(p) => req'[p].new = req[p].new
  /\ req'[p].stage \in {"sent", "held"} /\ req[p].row # NoRow
       => req[p].stage \in {"sent", "held"}
  /\ req'[p].kind = "login" /\ req[p].new # NoRow => req[p].kind = "login"
  /\ p \in Ghosts /\ req[p].kind = "none" => req'[p].kind = "none"

\* Such a step disturbs nothing.
LEMMA QuietKeeps ==
  ASSUME TypeOK, QuietInv, live' \subseteq live, Calm' => ~reused', cookie' = cookie,
         Calm' => Calm, \A p \in Procs : Idle(p)
  PROVE  QuietInv'
<1> SUFFICES ASSUME Calm' PROVE QuietInv'
  BY DEF QuietInv
<1> USE Fields DEF QuietInv
<1>1. \A g \in Ghosts : req'[g].kind = "none"
  BY DEF Idle
<1>2. \A p, q \in Procs : Under(p)' /\ Under(q)' => p = q
  BY DEF Idle
<1>3. \A x : AloneIn(x) => AloneIn(x)'
  BY DEF AloneIn
<1>4. \A p \in Procs : req'[p].stage \in {"sent", "held"} /\ req'[p].row # NoRow
                          => AloneIn(req[p].row)'
  BY <1>3 DEF Idle
<1>5. \A p \in Procs : req'[p].new # NoRow => AloneIn(req[p].new)'
  BY <1>3 DEF Idle
<1>6. \A p \in Procs : req'[p].new # NoRow /\ req'[p].kind = "login" => Private(p)'
  BY DEF Idle, Private
<1>7. cookie' # NoRow => AloneIn(cookie)' \/ Rotated'
  BY <1>3 DEF Idle, Rotated
<1> QED BY <1>1, <1>2, <1>4, <1>5, <1>6, <1>7

\* A sign-in answers with a row of a family that nobody names.
LEMMA CreateQuiet ==
  ASSUME TypeOK, ShapeInv, QuietInv, NEW p \in Procs, CreateSession(p)
  PROVE  QuietInv'
<1> SUFFICES ASSUME Calm PROVE QuietInv'
  BY DEF QuietInv, Calm, CreateSession
<1> USE Fields
<1>1. PICK f \in Fams : /\ f = CHOOSE x \in FreshFams : TRUE
                        /\ InFamily(f) \cap Named = {}
  BY DEF CreateSession, FreshFams
<1>2. PICK r \in Rows : r = (CHOOSE x \in InFamily(f) : TRUE) /\ r[1] = f
  BY NewRows
<1>3. Answer(p, "ok", r) /\ live' = (live \ InFamily(f)) \cup {r}
  BY <1>1, <1>2 DEF CreateSession
<1>4. \A s \in live' : s = r \/ (s \in live /\ s[1] # f)
  BY <1>1, <1>3, NewRows DEF TypeOK
<1>5. /\ req'[p].kind = "login" /\ req'[p].stage = "answered"
      /\ req'[p].row = req[p].row /\ req'[p].new = r
      /\ \A q \in Procs : q # p => req'[q] = req[q]
  BY <1>2, <1>3, Answered DEF CreateSession, Answers
<1>6. \A x \in Rows : x \in Named => x[1] # f
  BY <1>1, NewRows
<1>7. /\ cookie # NoRow => cookie[1] # f
      /\ \A q \in Procs : /\ req[q].row # NoRow => req[q].row[1] # f
                          /\ req[q].new # NoRow => req[q].new[1] # f
  <2>1. cookie # NoRow => cookie[1] # f
    BY <1>6 DEF Named, TypeOK
  <2>2. ASSUME NEW q \in Procs
        PROVE  /\ req[q].row \in Named /\ req[q].row \in Rows \cup {NoRow}
               /\ req[q].new \in Named /\ req[q].new \in Rows \cup {NoRow}
    BY DEF Named, ReqRow
  <2> QED BY <1>6, <2>1, <2>2
<1>8. \A x : AloneIn(x) /\ x[1] # f => AloneIn(x)'
  BY <1>2, <1>4 DEF AloneIn
<1>9. AloneIn(r)'
  BY <1>2, <1>4 DEF AloneIn
<1>10. \A q \in Procs : q # p => (Under(q)' <=> Under(q))
  BY <1>5 DEF Under
<1>11. ~Under(p) /\ ~Under(p)'
  BY <1>5 DEF Under, CreateSession, Refreshes
<1>12. Rotated => Rotated'
  BY <1>5, <1>10, <1>11 DEF Rotated
<1>13. ~reused' /\ cookie' = cookie
  BY DEF CreateSession, QuietInv
<1>14. \A g \in Ghosts : req'[g].kind = "none"
  BY <1>5 DEF QuietInv, CreateSession
<1>15. \A q, s \in Procs : Under(q)' /\ Under(s)' => q = s
  BY <1>10, <1>11 DEF QuietInv
<1>16. \A q \in Procs : req'[q].stage \in {"sent", "held"} /\ req'[q].row # NoRow
                          => AloneIn(req[q].row)'
  BY <1>5, <1>7, <1>8 DEF QuietInv
<1>17. \A q \in Procs : req'[q].new # NoRow => AloneIn(req[q].new)'
  BY <1>5, <1>7, <1>8, <1>9 DEF QuietInv
<1>18. \A q \in Procs : req'[q].new # NoRow /\ req'[q].kind = "login" => Private(q)'
  <2>1. Private(p)'
    BY <1>2, <1>5, <1>7, <1>13 DEF Private
  <2>2. ASSUME NEW q \in Procs, q # p, req'[q].new # NoRow, req'[q].kind = "login"
        PROVE  Private(q)'
    <3>1. req'[q] = req[q] /\ Private(q) /\ req[q].new[1] # f
      BY <1>5, <1>7, <2>2 DEF QuietInv
    <3>2. \A s \in Procs : req'[s].row = req[s].row /\ (s # p => req'[s].new = req[s].new)
      BY <1>5
    <3>3. req'[p].new[1] = f
      BY <1>2, <1>5
    <3> QED BY <1>13, <3>1, <3>2, <3>3 DEF Private
  <2> QED BY <2>1, <2>2
<1>19. cookie' # NoRow => AloneIn(cookie)' \/ Rotated'
  BY <1>7, <1>8, <1>12, <1>13 DEF QuietInv
<1> QED BY <1>13, <1>14, <1>15, <1>16, <1>17, <1>18, <1>19 DEF QuietInv

\* A rotation answers the one refresh under way; every other row in flight is a
\* sign-in's, of a family of its own.
LEMMA RotateQuiet ==
  ASSUME TypeOK, ShapeInv, ChainInv, QuietInv, NEW p \in Procs, Rotate(p)
  PROVE  QuietInv'
<1> SUFFICES ASSUME Calm PROVE QuietInv'
  BY DEF QuietInv, Calm, Rotate
<1> USE Fields
<1>1. PICK f \in Fams : f = req[p].row[1] /\ req[p].row \in Rows /\ req[p].row # NoRow
  BY DEF Rotate, ShapeInv, Shaped, ReqRow, Rows
<1>2. PICK r \in Rows : r = (CHOOSE x \in FreshRows(f) : TRUE) /\ r[1] = f /\ r # NoRow
  BY <1>1, NewRows, SessionAssumption DEF Rotate, SessionAssumption
<1>3. Answer(p, "ok", r) /\ live' = (live \ {req[p].row}) \cup {r}
  BY <1>1, <1>2 DEF Rotate
<1>4. AloneIn(req[p].row)
  BY DEF Rotate, Holds, ChainInv
<1>5. \A s \in live' : s = r \/ (s \in live /\ s[1] # f)
  BY <1>1, <1>3, <1>4 DEF AloneIn
<1>6. /\ req'[p].kind = req[p].kind /\ req'[p].stage = "answered"
      /\ req'[p].row = req[p].row /\ req'[p].new = r
      /\ \A q \in Procs : q # p => req'[q] = req[q]
  BY <1>2, <1>3, Answered DEF Answers
<1>7. Under(p) /\ Under(p)'
  BY <1>6 DEF Under, Rotate
<1>8. \A q \in Procs : q # p => ~Under(q) /\ ~Under(q)'
  BY <1>6, <1>7 DEF QuietInv, Under
<1>9. \A q \in Procs : q # p /\ req[q].new # NoRow => req[q].kind = "login" /\ req[q].new[1] # f
  <2> SUFFICES ASSUME NEW q \in Procs, q # p, req[q].new # NoRow
               PROVE  req[q].kind = "login" /\ req[q].new[1] # f
    OBVIOUS
  <2>1. req[q].stage = "answered" /\ req[q].kind \notin {"none", "logout"} /\ req[q].kind \in Kinds
    BY DEF ShapeInv, Shaped, ReqRow
  <2>2. req[q].kind = "login"
    BY <1>8, <2>1 DEF Under, Kinds, Refreshes
  <2> QED BY <1>1, <2>2 DEF QuietInv, Private
<1>10. \A q \in Procs : q # p /\ req[q].row # NoRow => req[q].stage = "answered"
  <2> SUFFICES ASSUME NEW q \in Procs, q # p, req[q].row # NoRow PROVE req[q].stage = "answered"
    OBVIOUS
  <2>1. req[q].kind \in Kinds /\ Shaped(req[q])
    BY DEF ShapeInv, ReqRow
  <2>2. req[q].kind \in Refreshes /\ req[q].stage # "waiting"
    BY <2>1 DEF Shaped, Kinds, Refreshes
  <2> QED BY <1>8, <2>2 DEF Under
<1>11. \A x : AloneIn(x) /\ x[1] # f => AloneIn(x)'
  BY <1>2, <1>5 DEF AloneIn
<1>12. AloneIn(r)'
  BY <1>2, <1>5 DEF AloneIn
<1>13. Rotated'
  BY <1>2, <1>6, <1>7 DEF Rotated
<1>14. ~reused' /\ cookie' = cookie
  BY DEF Rotate, QuietInv
<1>15. \A g \in Ghosts : req'[g].kind = "none"
  BY <1>6 DEF QuietInv
<1>16. \A q, s \in Procs : Under(q)' /\ Under(s)' => q = s
  BY <1>8
<1>17. \A q \in Procs : req'[q].stage \in {"sent", "held"} /\ req'[q].row # NoRow
                          => AloneIn(req[q].row)'
  BY <1>6, <1>10
<1>18. \A q \in Procs : req'[q].new # NoRow => AloneIn(req[q].new)'
  BY <1>6, <1>9, <1>11, <1>12 DEF QuietInv
<1>19. \A q \in Procs : req'[q].new # NoRow /\ req'[q].kind = "login" => Private(q)'
  <2>1. req'[p].kind # "login"
    BY <1>6 DEF Rotate, Refreshes
  <2>2. ASSUME NEW q \in Procs, q # p, req'[q].new # NoRow, req'[q].kind = "login"
        PROVE  Private(q)'
    <3>1. req'[q] = req[q] /\ Private(q) /\ req[q].new[1] # f
      BY <1>6, <1>9, <2>2 DEF QuietInv
    <3>2. \A s \in Procs : req'[s].row = req[s].row /\ (s # p => req'[s].new = req[s].new)
      BY <1>6
    <3>3. req'[p].new[1] = f
      BY <1>2, <1>6
    <3> QED BY <1>14, <3>1, <3>2, <3>3 DEF Private
  <2> QED BY <2>1, <2>2
<1> QED BY <1>13, <1>14, <1>15, <1>16, <1>17, <1>18, <1>19 DEF QuietInv

\* The refresh that gets the browser's lock is the only one, so the cookie it
\* takes is the live row of its family.
LEMMA GrantedQuiet ==
  ASSUME TypeOK, ShapeInv, QuietInv, NEW t \in Tabs, LockGranted(t)
  PROVE  QuietInv'
<1> SUFFICES ASSUME Calm PROVE QuietInv'
  BY DEF QuietInv, Calm, LockGranted
<1> USE Fields
<1>1. Shaped(req[t]) /\ req[t].kind \in Refreshes /\ req[t].new = NoRow /\ req[t].kind \in Kinds
  BY DEF LockGranted, ShapeInv, Shaped, ReqRow
<1>2. cookie' = cookie /\ live' = live /\ reused' = reused /\ cookie \in Rows \cup {NoRow}
  BY DEF LockGranted, TypeOK
<1>3. /\ req'[t].kind = req[t].kind /\ req'[t].stage = "sent" /\ req'[t].row = cookie
      /\ req'[t].new = NoRow
      /\ \A q \in Procs : q # t => req'[q] = req[q]
  BY <1>1, <1>2, Sent DEF LockGranted, Stages
<1>4. \A q \in Procs : ~Under(q)
  BY DEF Under, LockGranted, QuietInv, Procs, Refreshes
<1>5. cookie # NoRow => AloneIn(cookie)
  BY <1>4 DEF Rotated, QuietInv
<1>6. \A x : AloneIn(x) => AloneIn(x)'
  BY <1>2 DEF AloneIn
<1>7. \A q \in Procs : Under(q)' => q = t
  BY <1>3, <1>4 DEF Under
<1>8. \A g \in Ghosts : req'[g].kind = "none"
  BY <1>3, SessionAssumption DEF QuietInv, SessionAssumption
<1>9. \A q \in Procs : req'[q].stage \in {"sent", "held"} /\ req'[q].row # NoRow
                         => AloneIn(req[q].row)'
  BY <1>3, <1>5, <1>6 DEF QuietInv
<1>10. \A q \in Procs : req'[q].new # NoRow => AloneIn(req[q].new)'
  BY <1>3, <1>6 DEF QuietInv
<1>11. \A q \in Procs : req'[q].new # NoRow /\ req'[q].kind = "login" => Private(q)'
  <2> SUFFICES ASSUME NEW q \in Procs, req'[q].new # NoRow, req'[q].kind = "login"
               PROVE  Private(q)'
    OBVIOUS
  <2>1. q # t /\ req'[q] = req[q] /\ Private(q)
    BY <1>3 DEF QuietInv
  <2>2. \A s \in Procs : req'[s].new = req[s].new
    BY <1>1, <1>3
  <2>3. \A s \in Procs : req'[s].row \in {req[s].row, cookie}
    BY <1>3
  <2> QED BY <1>2, <2>1, <2>2, <2>3 DEF Private
<1>12. cookie' # NoRow => AloneIn(cookie)'
  BY <1>2, <1>5, <1>6
<1> QED BY <1>2, <1>7, <1>8, <1>9, <1>10, <1>11, <1>12 DEF QuietInv

\* An answer that is taken brings the cookie up to date.
LEMMA TakenQuiet ==
  ASSUME TypeOK, ShapeInv, QuietInv, NEW p \in Procs, TakesAnswer(p), faults' = faults
  PROVE  QuietInv'
<1> SUFFICES ASSUME Calm PROVE QuietInv'
  BY DEF QuietInv, Calm
<1> USE Fields
<1>1. req'[p] = NoReq /\ \A q \in Procs : q # p => req'[q] = req[q]
  BY Cleared DEF TakesAnswer
<1>2. NoReq.kind = "none" /\ NoReq.stage = "answered" /\ NoReq.row = NoRow /\ NoReq.new = NoRow
  BY DEF NoReq
<1>3. live' \subseteq live /\ ~reused'
  BY DEF TakesAnswer, QuietInv
<1>4. \A x : AloneIn(x) => AloneIn(x)'
  BY <1>3 DEF AloneIn
<1>5. \A q \in Procs : Under(q)' => q # p /\ Under(q)
  BY <1>1, <1>2 DEF Under, Refreshes
<1>6. \A g \in Ghosts : req'[g].kind = "none"
  BY <1>1, <1>2 DEF QuietInv
<1>7. \A q \in Procs : req'[q].stage \in {"sent", "held"} /\ req'[q].row # NoRow
                         => AloneIn(req[q].row)'
  BY <1>1, <1>2, <1>4 DEF QuietInv
<1>8. \A q \in Procs : req'[q].new # NoRow => AloneIn(req[q].new)'
  BY <1>1, <1>2, <1>4 DEF QuietInv
<1>9. /\ req[p].ans = "ok" => cookie' = req[p].new /\ req[p].new # NoRow
      /\ req[p].ans = "denied" => cookie' = NoRow
      /\ req[p].ans \notin {"ok", "denied"} => cookie' = cookie /\ req[p].new = NoRow
  BY DEF TakesAnswer, Jar, ShapeInv, Shaped
<1>10. \A q \in Procs : req'[q].new # NoRow /\ req'[q].kind = "login" => Private(q)'
  <2> SUFFICES ASSUME NEW q \in Procs, req'[q].new # NoRow, req'[q].kind = "login"
               PROVE  Private(q)'
    OBVIOUS
  <2>1. q # p /\ req'[q] = req[q] /\ Private(q)
    BY <1>1, <1>2 DEF QuietInv
  <2>2. cookie' # NoRow => cookie'[1] # req[q].new[1]
    BY <1>9, <2>1 DEF Private
  <2>3. \A s \in Procs : req'[s].row \in {req[s].row, NoRow} /\ req'[s].new \in {req[s].new, NoRow}
    BY <1>1, <1>2
  <2> QED BY <2>1, <2>2, <2>3 DEF Private
<1>11. cookie' # NoRow => AloneIn(cookie)' \/ Rotated'
  <2>1. CASE req[p].ans = "ok"
    BY <1>4, <1>9, <2>1 DEF QuietInv
  <2>2. CASE req[p].ans \notin {"ok", "denied"}
    <3>1. Rotated => Rotated'
      BY <1>1, <1>9, <2>2 DEF Rotated, Under
    <3> QED BY <1>4, <1>9, <2>2, <3>1 DEF QuietInv
  <2> QED BY <1>9, <2>1, <2>2
<1> QED BY <1>3, <1>5, <1>6, <1>7, <1>8, <1>10, <1>11 DEF QuietInv

\* The other steps that serve a request take no row into use.  A row that is
\* presented and no longer live was the last of its family.
LEMMA ServeQuiet ==
  ASSUME TypeOK, ShapeInv, ChainInv, QuietInv, NEW p \in Procs, Serve(p)
  PROVE  QuietInv'
<1> USE Fields
<1>0. Shaped(req[p]) /\ req[p] \in ReqRow /\ req[p].kind \in Kinds
  BY DEF ShapeInv, ReqRow
<1>1. CASE Authenticate(p) \/ LockSession(p) \/ NoRefreshToken(p) \/ Logout(p)
  <2>1. req[p].stage = "sent" /\ req[p].new = NoRow
    BY <1>0, <1>1 DEF Authenticate, LockSession, NoRefreshToken, Logout, Shaped
  <2>2. /\ req'[p].kind = req[p].kind /\ req'[p].row = req[p].row
        /\ req'[p].stage \in {"held", "answered"} /\ req'[p].new = NoRow
        /\ \A q \in Procs : q # p => req'[q] = req[q]
    <3>1. CASE req' = [req EXCEPT ![p].stage = "held"]
      BY <2>1, <3>1, Held
    <3>2. CASE Answer(p, "bad", NoRow) \/ Answer(p, "denied", NoRow)
      BY <3>2, Answered DEF Answers
    <3> QED BY <1>1, <3>1, <3>2 DEF Authenticate, LockSession, NoRefreshToken, Logout
  <2>3. \A q \in Procs : Idle(q)
    BY <1>0, <2>1, <2>2 DEF Idle, Under
  <2>4. live' \subseteq live /\ cookie' = cookie /\ faults' = faults
    BY <1>1 DEF Authenticate, LockSession, NoRefreshToken, Logout
  <2>5. Calm => ~reused'
    <3>1. CASE ~LockSession(p)
      BY <1>1, <3>1 DEF Authenticate, NoRefreshToken, Logout, QuietInv
    <3>2. CASE LockSession(p) /\ req[p].row \notin live
      <4>1. req[p].row \in Rows /\ req[p].row[1] \in Fams
        BY <1>0, <3>2 DEF LockSession, ReqRow, Rows
      <4>2. Calm => AloneIn(req[p].row)
        BY <3>2 DEF LockSession, QuietInv
      <4>3. Calm => live \cap InFamily(req[p].row[1]) = {}
        <5>1. \A s \in InFamily(req[p].row[1]) : s[1] = req[p].row[1]
          BY <4>1, NewRows
        <5> SUFFICES ASSUME Calm, NEW s \in live, s \in InFamily(req[p].row[1]) PROVE FALSE
          OBVIOUS
        <5>2. s = req[p].row
          BY <4>2, <5>1 DEF AloneIn
        <5> QED BY <3>2, <5>2
      <4>4. live' = live \ InFamily(req[p].row[1]) /\ reused' = (reused \/ live' # live)
        BY <3>2 DEF LockSession
      <4> QED BY <4>3, <4>4 DEF QuietInv
    <3>3. CASE LockSession(p) /\ req[p].row \in live
      BY <3>3 DEF LockSession, QuietInv
    <3> QED BY <3>1, <3>2, <3>3
  <2>6. Calm' <=> Calm
    BY <2>4 DEF Calm
  <2> QED BY <2>3, <2>4, <2>5, <2>6, QuietKeeps
<1> QED BY <1>1, CreateQuiet, RotateQuiet DEF Serve

\* A tab that sends a request without a row does nothing to the others.
LEMMA SendQuiet ==
  ASSUME TypeOK, ShapeInv, QuietInv, NEW t \in Tabs, NEW k \in Kinds, NEW g \in Stages,
         Send(t, k, g, NoRow), req[t].kind = "none", k \in Refreshes => g = "waiting",
         UNCHANGED <<live, cookie, reused, faults>>
  PROVE  QuietInv'
<1> USE Fields
<1>1. req[t].row = NoRow /\ req[t].new = NoRow
  BY DEF ShapeInv, Shaped
<1>2. /\ req'[t].kind = k /\ req'[t].stage = g /\ req'[t].row = NoRow /\ req'[t].new = NoRow
      /\ \A q \in Procs : q # t => req'[q] = req[q]
  BY Sent
<1>3. ~Under(t) /\ ~Under(t)'
  BY <1>2 DEF Under, Refreshes
<1>4. t \notin Ghosts
  BY SessionAssumption DEF SessionAssumption
<1>5. Idle(t)
  BY <1>1, <1>2, <1>3, <1>4 DEF Idle
<1>6. \A q \in Procs : q # t => Idle(q)
  BY <1>2 DEF Idle, Under
<1>7. Calm' <=> Calm
  BY DEF Calm
<1>8. Calm => ~reused'
  BY DEF QuietInv
<1> QED BY <1>5, <1>6, <1>7, <1>8, QuietKeeps

\* The steps of tabs.
LEMMA TabQuiet ==
  ASSUME TypeOK, ShapeInv, QuietInv, NEW t \in Tabs
  PROVE  /\ RestoreSession(t) \/ RefreshTimer(t) \/ Unauthorised(t) => QuietInv'
         /\ Login(t) \/ SignOut(t) => QuietInv'
         /\ OpenPage(t) \/ BackoffOver(t) => QuietInv'
<1> USE Fields
<1>1. Free(t) => req[t].kind = "none"
  BY DEF Free, NoReq
<1>2. ASSUME NEW k \in Refreshes, RefreshSession(t, k) PROVE QuietInv'
  <2>1. CASE WebLocks
    BY <1>1, <1>2, <2>1, SendQuiet DEF RefreshSession, Kinds, Refreshes, Stages
  <2>2. CASE ~WebLocks
    BY <2>2 DEF QuietInv, Calm
  <2> QED BY <2>1, <2>2
<1>3. ASSUME UNCHANGED <<req, live, cookie, reused, faults>> PROVE QuietInv'
  BY <1>3 DEF QuietInv, Calm, Under, AloneIn, Private, Rotated
<1>4. ASSUME Unauthorised(t) PROVE QuietInv'
  <2>1. CASE RefreshSession(t, "retry")
    BY <1>2, <2>1 DEF Refreshes
  <2>2. CASE /\ req[t].kind = "timer" /\ req' = [req EXCEPT ![t].kind = "retry"]
             /\ UNCHANGED <<live, cookie, reused, faults>>
    <3>1. /\ req'[t].kind = "retry" /\ req'[t].stage = req[t].stage
          /\ req'[t].row = req[t].row /\ req'[t].new = req[t].new
          /\ \A q \in Procs : q # t => req'[q] = req[q]
      BY <2>2 DEF ReqRow
    <3>2. \A q \in Procs : Idle(q)
      BY <2>2, <3>1 DEF Idle, Under, Refreshes
    <3>3. (Calm' <=> Calm) /\ (Calm => ~reused')
      BY <2>2 DEF Calm, QuietInv
    <3> QED BY <2>2, <3>2, <3>3, QuietKeeps
  <2>3. CASE UNCHANGED <<req, live, cookie, reused, faults>>
    BY <1>3, <2>3
  <2> QED BY <1>4, <2>1, <2>2, <2>3 DEF Unauthorised
<1>5. ASSUME Login(t) \/ SignOut(t) PROVE QuietInv'
  BY <1>1, <1>5, SendQuiet DEF Login, SignOut, Kinds, Refreshes, Stages
<1>6. ASSUME OpenPage(t) \/ BackoffOver(t) PROVE QuietInv'
  BY <1>3, <1>6 DEF OpenPage, BackoffOver
<1> QED BY <1>2, <1>4, <1>5, <1>6 DEF RestoreSession, RefreshTimer, Refreshes

\* Every step keeps the tabs quiet.
LEMMA NextQuiet ==
  TypeOK /\ ShapeInv /\ ChainInv /\ QuietInv /\ [Next]_vars => QuietInv'
<1> SUFFICES ASSUME TypeOK, ShapeInv, ChainInv, QuietInv, [Next]_vars PROVE QuietInv'
  OBVIOUS
<1> USE Fields
<1>1. ASSUME UNCHANGED <<req, cookie, reused, faults>>, live' \subseteq live PROVE QuietInv'
  <2>1. \A q \in Procs : Idle(q)
    BY <1>1 DEF Idle, Under
  <2>2. (Calm' <=> Calm) /\ (Calm => ~reused')
    BY <1>1 DEF Calm, QuietInv
  <2> QED BY <1>1, <2>1, <2>2, QuietKeeps
<1>2. CASE UNCHANGED vars
  BY <1>1, <1>2 DEF vars
<1>3. ASSUME faults' > 0 PROVE QuietInv'
  BY <1>3 DEF QuietInv, Calm
<1>4. ASSUME NEW p \in Procs, RequestFails(p) PROVE QuietInv'
  BY <1>3, <1>4, CounterTypes DEF RequestFails
<1>5. ASSUME NEW t \in Tabs, FetchMeFails(t) \/ LeavePage(t) PROVE QuietInv'
  BY <1>3, <1>5, CounterTypes DEF FetchMeFails, LeavePage
<1>6. ASSUME UpdateUserStatus \/ RevokeSessions PROVE QuietInv'
  BY <1>1, <1>6 DEF UpdateUserStatus, RevokeSessions
<1>7. ASSUME NEW p \in Procs, Deliver(p) \/ DeliverLate(p) PROVE QuietInv'
  BY <1>7, AnswerTaken, TakenQuiet
<1> QED BY <1>2, <1>4, <1>5, <1>6, <1>7, ServeQuiet, TabQuiet, GrantedQuiet DEF Next

\* The initial state is quiet.
LEMMA InitQuiet == Init => ChainInv /\ QuietInv
<1>1. Init => ChainInv
  BY DEF Init, ChainInv, OneLivePerFamily, AloneIn, Holds, NoReq, Refreshes
<1>2. Init => QuietInv
  <2> SUFFICES ASSUME Init PROVE QuietInv
    OBVIOUS
  <2>1. \A p \in Procs : /\ req[p].kind = "none" /\ req[p].row = NoRow /\ req[p].new = NoRow
                         /\ ~Under(p)
    BY DEF Init, NoReq, Under, Refreshes
  <2>2. Ghosts \subseteq Procs
    BY DEF Procs
  <2> QED BY <2>1, <2>2 DEF Init, QuietInv
<1> QED BY <1>1, <1>2

\* Without faults the tabs of a browser with locks never make the server revoke
\* their own family.
THEOREM QuietTabs == Spec => []NoSelfReuse
<1>1. Spec => [](TypeOK /\ ShapeInv /\ ChainInv /\ QuietInv)
  BY InitTypes, InitQuiet, NextTypes, NextChain, NextQuiet, PTL DEF Spec
<1>2. QuietInv => NoSelfReuse
  BY DEF QuietInv, NoSelfReuse, Calm
<1> QED BY <1>1, <1>2, PTL

-----------------------------------------------------------------------------
(* A signed-in tab stays signed in.                                         *)

\* Only a step without a fault and without an operation can be steady.
LEMMA SteadyBefore ==
  ASSUME TypeOK, [Next]_vars
  PROVE  Steady' => /\ Steady
                    /\ \A p \in Procs : ~RequestFails(p)
                    /\ \A t \in Tabs : ~FetchMeFails(t) /\ ~LeavePage(t) /\ ~SignOut(t)
                    /\ ~UpdateUserStatus /\ ~RevokeSessions
<1> SUFFICES ASSUME Steady'
             PROVE  /\ Steady
                    /\ \A p \in Procs : ~RequestFails(p)
                    /\ \A t \in Tabs : ~FetchMeFails(t) /\ ~LeavePage(t) /\ ~SignOut(t)
                    /\ ~UpdateUserStatus /\ ~RevokeSessions
  OBVIOUS
<1>1. WebLocks /\ faults' = 0 /\ ops' = 0
  BY DEF Steady, Calm
<1>2. /\ \A p \in Procs : ~RequestFails(p)
      /\ \A t \in Tabs : ~FetchMeFails(t) /\ ~LeavePage(t)
  BY <1>1, CounterTypes DEF RequestFails, FetchMeFails, LeavePage
<1>3. (\A t \in Tabs : ~SignOut(t)) /\ ~UpdateUserStatus /\ ~RevokeSessions
  BY <1>1, CounterTypes DEF SignOut, UpdateUserStatus, RevokeSessions
<1>4. ops' = ops /\ faults' = faults
  <2>1. CASE UNCHANGED vars
    BY <2>1 DEF vars
  <2>2. ASSUME NEW p \in Procs, Serve(p) PROVE ops' = ops /\ faults' = faults
    BY <2>2 DEF Serve, Authenticate, CreateSession, LockSession, Rotate, NoRefreshToken, Logout
  <2>3. ASSUME NEW p \in Procs, DeliverLate(p) \/ Deliver(p) PROVE ops' = ops /\ faults' = faults
    BY <2>3 DEF DeliverLate, Deliver
  <2>4. ASSUME NEW t \in Tabs,
               \/ RestoreSession(t) \/ RefreshTimer(t) \/ Unauthorised(t)
               \/ LockGranted(t) \/ Login(t) \/ OpenPage(t) \/ BackoffOver(t)
        PROVE  ops' = ops /\ faults' = faults
    BY <2>4 DEF RestoreSession, RefreshTimer, Unauthorised, RefreshSession, LockGranted, Login,
                OpenPage, BackoffOver
  <2> QED BY <1>2, <1>3, <2>1, <2>2, <2>3, <2>4 DEF Next, Procs
<1> QED BY <1>1, <1>2, <1>3, <1>4 DEF Steady, Calm

\* Serving a request ends no row that is still needed: the one it ends is the one
\* it exchanges.
LEMMA ServeStay ==
  ASSUME TypeOK, ShapeInv, ChainInv, QuietInv, StayInv, Steady, NEW p \in Procs, Serve(p)
  PROVE  StayInv'
<1> USE Fields
<1>0. Shaped(req[p]) /\ req[p] \in ReqRow /\ req[p].kind \in Kinds /\ StayReq(p)
  BY DEF ShapeInv, ReqRow, StayInv
<1>1. CASE Authenticate(p) \/ LockSession(p)
  <2>1. req' = [req EXCEPT ![p].stage = "held"] /\ UNCHANGED <<status, live, cookie, tab>>
    <3>1. LockSession(p) => req[p].row \in live
      BY <1>0 DEF LockSession, StayReq
    <3>2. status = "ACTIVE"
      BY DEF StayInv
    <3> QED BY <1>1, <3>1, <3>2 DEF Authenticate, LockSession
  <2>2. req[p].stage = "sent" /\ req[p].new = NoRow
    BY <1>0, <1>1 DEF Authenticate, LockSession, Shaped
  <2>3. /\ req'[p].kind = req[p].kind /\ req'[p].row = req[p].row
        /\ req'[p].stage = "held" /\ req'[p].new = req[p].new
        /\ \A q \in Procs : q # p => req'[q] = req[q]
    BY <2>1, Held
  <2>4. \A q \in Procs : StayReq(q)'
    BY <2>1, <2>2, <2>3 DEF StayInv, StayReq
  <2>5. \A t \in Tabs : StayTab(t)'
    BY <2>1, <2>3 DEF StayInv, StayTab
  <2>6. Rotated => Rotated'
    BY <2>2, <2>3 DEF Rotated, Under
  <2> QED BY <2>1, <2>4, <2>5, <2>6 DEF StayInv
<1>2. CASE CreateSession(p)
  <2>1. PICK f \in Fams : /\ f = CHOOSE x \in FreshFams : TRUE
                          /\ InFamily(f) \cap Named = {}
    BY <1>2 DEF CreateSession, FreshFams
  <2>2. PICK r \in Rows : r = CHOOSE x \in InFamily(f) : TRUE
    BY NewRows
  <2>3. /\ Answer(p, "ok", r) /\ live' = (live \ InFamily(f)) \cup {r}
        /\ UNCHANGED <<status, cookie, tab>>
    BY <1>2, <2>1, <2>2 DEF CreateSession
  <2>4. /\ req'[p].kind = "login" /\ req'[p].stage = "answered" /\ req'[p].ans = "ok"
        /\ req'[p].row = req[p].row /\ req'[p].new = r
        /\ \A q \in Procs : q # p => req'[q] = req[q]
    BY <1>2, <2>2, <2>3, Answered DEF CreateSession, Answers
  <2>5. \A x \in Named : x \in live => x \in live'
    BY <2>1, <2>3
  <2>6. \A q \in Procs : req[q].row \in Named /\ req[q].new \in Named
    BY DEF Named
  <2>7. \A q \in Procs : StayReq(q)'
    BY <2>3, <2>4, <2>5, <2>6 DEF StayInv, StayReq, Refreshes
  <2>8. \A t \in Tabs : StayTab(t)'
    BY <1>2, <2>3, <2>4 DEF StayInv, StayTab, CreateSession
  <2>9. Rotated => Rotated'
    BY <1>2, <2>4 DEF Rotated, Under, CreateSession, Refreshes
  <2>10. cookie \in Named
    BY DEF Named
  <2> QED BY <2>3, <2>5, <2>7, <2>8, <2>9, <2>10 DEF StayInv
<1>3. CASE Rotate(p)
  <2>1. PICK f \in Fams : f = req[p].row[1] /\ req[p].row \in Rows /\ req[p].row # NoRow
    BY <1>0, <1>3 DEF Rotate, Shaped, ReqRow, Rows
  <2>2. PICK r \in Rows : r = (CHOOSE x \in FreshRows(f) : TRUE) /\ r # NoRow
    BY <1>3, <2>1, NewRows, SessionAssumption DEF Rotate, SessionAssumption
  <2>3. /\ Answer(p, "ok", r) /\ live' = (live \ {req[p].row}) \cup {r}
        /\ UNCHANGED <<status, cookie, tab>>
    BY <1>3, <2>1, <2>2 DEF Rotate
  <2>4. /\ req'[p].kind = req[p].kind /\ req'[p].stage = "answered" /\ req'[p].ans = "ok"
        /\ req'[p].row = req[p].row /\ req'[p].new = r
        /\ \A q \in Procs : q # p => req'[q] = req[q]
    BY <2>2, <2>3, Answered DEF Answers
  <2>5. Under(p) /\ Under(p)' /\ Calm
    BY <1>3, <2>4 DEF Under, Rotate, Steady
  <2>6. \A q \in Procs : q # p => ~Under(q)
    BY <2>5 DEF QuietInv
  <2>7. \A q \in Procs : q # p /\ req[q].new # NoRow => req[q].new # req[p].row
    <3> SUFFICES ASSUME NEW q \in Procs, q # p, req[q].new # NoRow
                 PROVE  req[q].new # req[p].row
      OBVIOUS
    <3>1. req[q].stage = "answered" /\ req[q].kind \notin {"none", "logout"} /\ req[q].kind \in Kinds
      BY DEF ShapeInv, Shaped, ReqRow
    <3>2. req[q].kind = "login"
      BY <2>6, <3>1 DEF Under, Kinds, Refreshes
    <3> QED BY <2>1, <2>5, <3>2 DEF QuietInv, Private
  <2>8. \A q \in Procs : StayReq(q)'
    <3>1. StayReq(p)'
      BY <1>0, <2>3, <2>4 DEF StayReq
    <3>2. ASSUME NEW q \in Procs, q # p PROVE StayReq(q)'
      <4>1. req'[q] = req[q] /\ StayReq(q) /\ ~Under(q)
        BY <2>4, <2>6, <3>2 DEF StayInv
      <4>2. req[q].new # NoRow => req[q].new \in live'
        BY <2>3, <2>7, <3>2, <4>1 DEF StayReq
      <4> QED BY <2>3, <4>1, <4>2 DEF StayReq, Under
    <3> QED BY <3>1, <3>2
  <2>9. \A t \in Tabs : StayTab(t)'
    BY <2>3, <2>4 DEF StayInv, StayTab
  <2>10. Rotated'
    BY <2>2, <2>4, <2>5 DEF Rotated
  <2> QED BY <2>3, <2>8, <2>9, <2>10 DEF StayInv
<1>4. CASE NoRefreshToken(p) \/ Logout(p)
  <2>1. NoRow \notin live
    BY SessionAssumption DEF SessionAssumption, TypeOK
  <2> QED BY <1>0, <1>4, <2>1 DEF NoRefreshToken, Logout, StayReq
<1> QED BY <1>1, <1>2, <1>3, <1>4 DEF Serve

\* Every answer is a good one, and its row is live: the cookie stays good and
\* the page stays, or becomes, signed in.
LEMMA DeliverStay ==
  ASSUME TypeOK, ShapeInv, QuietInv, StayInv, Steady, NEW t \in Tabs, Deliver(t)
  PROVE  /\ StayInv'
         /\ tab[t].page = "in" => tab'[t].page = "in"
         /\ \A u \in Tabs : u # t => tab'[u] = tab[u]
<1> USE Fields
<1>1. req'[t] = NoReq /\ \A q \in Procs : q # t => req'[q] = req[q]
  BY Cleared DEF Deliver
<1>2. /\ NoReq.kind = "none" /\ NoReq.stage = "answered" /\ NoReq.row = NoRow
      /\ NoReq.new = NoRow
  BY DEF NoReq
<1>3. StayReq(t) /\ StayTab(t) /\ Shaped(req[t]) /\ req[t].kind \in Kinds
  BY DEF StayInv, ShapeInv, ReqRow
<1>4. req[t].ans = "ok" /\ req[t].new # NoRow /\ req[t].new \in live
  BY <1>3 DEF Deliver, StayReq, Shaped
<1>5. cookie' = req[t].new /\ status' = status
  BY <1>4 DEF Deliver, Jar
<1>6. cookie' \in live' /\ cookie' # NoRow
  BY <1>4, <1>5 DEF Deliver, Named
<1>7. \A q \in Procs : req'[q].row \in Named' /\ req'[q].new \in Named'
  BY DEF Named
<1>8. \A x : x \in live /\ x \in Named' => x \in live'
  BY DEF Deliver
<1>9. \A q \in Procs : StayReq(q)'
  <2>1. StayReq(t)'
    BY <1>1, <1>2 DEF StayReq, Refreshes
  <2>2. ASSUME NEW q \in Procs, q # t PROVE StayReq(q)'
    <3>1. req'[q] = req[q] /\ StayReq(q)
      BY <1>1, <2>2 DEF StayInv
    <3> QED BY <1>6, <1>7, <1>8, <3>1 DEF StayReq
  <2> QED BY <2>1, <2>2
<1>10. tab'[t] \in {[page |-> "in", backoff |-> "none"], Loading}
       /\ (req[t].kind # "login" => tab'[t] = [page |-> "in", backoff |-> "none"])
  <2>1. CASE req[t].kind = "login"
    BY <1>4, <2>1 DEF Deliver, AfterLogin
  <2>2. CASE req[t].kind \in Refreshes
    BY <1>4, <2>2 DEF Deliver, AfterRefresh, Refreshes
  <2> QED BY <1>3, <2>1, <2>2 DEF StayReq, Deliver, Kinds, Refreshes
<1>11. \A u \in Tabs : u # t => tab'[u] = tab[u]
  BY DEF Deliver
<1>12. \A u \in Tabs : StayTab(u)'
  <2>1. StayTab(t)'
    BY <1>1, <1>2, <1>6, <1>10 DEF StayTab, Loading
  <2>2. ASSUME NEW u \in Tabs, u # t PROVE StayTab(u)'
    <3>1. StayTab(u) /\ req'[u] = req[u]
      BY <1>1, <2>2 DEF StayInv
    <3> QED BY <1>6, <1>11, <2>2, <3>1 DEF StayTab
  <2> QED BY <2>1, <2>2
<1>13. StayInv'
  BY <1>5, <1>6, <1>9, <1>12 DEF StayInv
<1>14. tab[t].page = "in" => tab'[t].page = "in"
  BY <1>3, <1>10 DEF StayTab
<1> QED BY <1>11, <1>13, <1>14

\* A tab whose page is not away has a cookie to refresh with, and a refresh that
\* gets the lock takes a live one.
LEMMA TabStay ==
  ASSUME TypeOK, ShapeInv, QuietInv, StayInv, Steady, NEW t \in Tabs,
         \/ RestoreSession(t) \/ RefreshTimer(t) \/ Unauthorised(t)
         \/ LockGranted(t) \/ Login(t) \/ OpenPage(t) \/ BackoffOver(t)
  PROVE  /\ StayInv'
         /\ \A u \in Tabs : tab'[u] = tab[u] \/ tab'[u] = Loading
<1> USE Fields
<1>0. /\ StayTab(t) /\ StayReq(t) /\ Shaped(req[t]) /\ req[t].kind \in Kinds
      /\ WebLocks /\ Calm /\ status = "ACTIVE"
  BY DEF StayInv, ShapeInv, ReqRow, Steady, Calm
<1>1. ASSUME NEW k \in Kinds, NEW g \in {"waiting", "sent"}, NEW r \in Rows \cup {NoRow},
             Send(t, k, g, r), UNCHANGED <<status, live, cookie, tab>>, ~Under(t),
             k = "login" => tab[t].page = "away",
             k \in Refreshes => cookie # NoRow /\ (g = "sent" => r \in live), k # "logout"
      PROVE  StayInv' /\ \A u \in Tabs : tab'[u] = tab[u]
  <2>1. /\ req'[t].kind = k /\ req'[t].stage = g /\ req'[t].row = r /\ req'[t].new = NoRow
        /\ \A q \in Procs : q # t => req'[q] = req[q]
    BY <1>1, Sent DEF Stages
  <2>2. \A q \in Procs : StayReq(q)'
    BY <1>1, <2>1 DEF StayInv, StayReq
  <2>3. \A u \in Tabs : StayTab(u)'
    BY <1>1, <2>1 DEF StayInv, StayTab
  <2>4. Rotated => Rotated'
    BY <1>1, <2>1 DEF Rotated, Under
  <2> QED BY <1>1, <2>2, <2>3, <2>4 DEF StayInv
<1>2. ASSUME NEW k \in Refreshes, RefreshSession(t, k), tab[t].page # "away"
      PROVE  StayInv' /\ \A u \in Tabs : tab'[u] = tab[u]
  <2>1. Send(t, k, "waiting", NoRow) /\ UNCHANGED <<status, live, cookie, tab>>
    BY <1>0, <1>2 DEF RefreshSession
  <2>2. ~Under(t)
    BY <1>2 DEF RefreshSession, Free, NoReq, Under, Refreshes
  <2>3. k \in Kinds /\ k # "login" /\ k # "logout" /\ cookie # NoRow
    BY <1>0, <1>2 DEF Kinds, Refreshes, StayTab
  <2> QED BY <1>1, <2>1, <2>2, <2>3
<1>3. CASE RestoreSession(t) \/ RefreshTimer(t)
  BY <1>2, <1>3 DEF RestoreSession, RefreshTimer, Refreshes
<1>4. CASE Unauthorised(t)
  <2>1. CASE RefreshSession(t, "retry")
    BY <1>2, <1>4, <2>1 DEF Unauthorised, Refreshes
  <2>2. CASE /\ req[t].kind = "timer" /\ req' = [req EXCEPT ![t].kind = "retry"]
             /\ UNCHANGED <<status, live, cookie, tab>>
    <3>1. /\ req'[t].kind = "retry" /\ req'[t].stage = req[t].stage /\ req'[t].ans = req[t].ans
          /\ req'[t].row = req[t].row /\ req'[t].new = req[t].new
          /\ \A q \in Procs : q # t => req'[q] = req[q]
      BY <2>2 DEF ReqRow
    <3>2. \A q \in Procs : StayReq(q)'
      BY <2>2, <3>1 DEF StayInv, StayReq, Refreshes
    <3>3. \A u \in Tabs : StayTab(u)'
      BY <2>2, <3>1 DEF StayInv, StayTab
    <3>4. Rotated => Rotated'
      BY <2>2, <3>1 DEF Rotated, Under, Refreshes
    <3> QED BY <2>2, <3>2, <3>3, <3>4 DEF StayInv
  <2>3. tab[t].backoff # "failed"
    BY <1>0 DEF StayTab
  <2> QED BY <1>4, <2>1, <2>2, <2>3 DEF Unauthorised
<1>5. CASE LockGranted(t)
  <2>1. /\ Send(t, req[t].kind, "sent", cookie) /\ UNCHANGED <<status, live, cookie, tab>>
        /\ cookie \in Rows \cup {NoRow}
    BY <1>5 DEF LockGranted, TypeOK
  <2>2. req[t].kind \in Refreshes /\ cookie # NoRow
    BY <1>0, <1>5 DEF LockGranted, Shaped, StayReq
  <2>3. \A q \in Procs : ~Under(q)
    BY <1>0, <1>5 DEF Under, LockGranted, QuietInv, Procs, Refreshes
  <2>4. cookie \in live
    BY <2>2, <2>3 DEF StayInv, Rotated
  <2>5. req[t].kind # "login" /\ req[t].kind # "logout"
    BY <2>2 DEF Refreshes
  <2> QED BY <1>0, <1>1, <2>1, <2>2, <2>3, <2>4, <2>5
<1>6. CASE Login(t)
  <2>1. Send(t, "login", "sent", NoRow) /\ UNCHANGED <<status, live, cookie, tab>>
    BY <1>6 DEF Login
  <2>2. ~Under(t) /\ tab[t].page = "away"
    BY <1>6 DEF Login, Free, NoReq, Under, Refreshes
  <2> QED BY <1>1, <2>1, <2>2 DEF Kinds, Refreshes
<1>7. CASE OpenPage(t)
  <2>1. UNCHANGED <<status, live, cookie, req>> /\ cookie # NoRow /\ req[t].kind = "none"
    BY <1>0, <1>7 DEF OpenPage, StayTab, Free, NoReq
  <2>2. tab'[t] = Loading /\ \A u \in Tabs : u # t => tab'[u] = tab[u]
    BY <1>7 DEF OpenPage
  <2>3. \A u \in Tabs : StayTab(u)'
    BY <2>1, <2>2 DEF StayInv, StayTab, Loading
  <2>4. \A q \in Procs : StayReq(q)'
    BY <2>1 DEF StayInv, StayReq
  <2>5. Rotated => Rotated'
    BY <2>1 DEF Rotated, Under
  <2> QED BY <2>1, <2>2, <2>3, <2>4, <2>5 DEF StayInv
<1>8. ~BackoffOver(t)
  BY <1>0 DEF BackoffOver, StayTab
<1> QED BY <1>3, <1>4, <1>5, <1>6, <1>7, <1>8

\* Every step keeps who is signed in, and signs nobody out.
LEMMA NextStay ==
  ASSUME TypeOK, ShapeInv, ChainInv, QuietInv, StayInv, [Next]_vars
  PROVE  /\ StayInv'
         /\ Steady' => \A t \in Tabs : tab[t].page = "in" => tab'[t].page \in {"in", "loading"}
<1> SUFFICES ASSUME Steady'
             PROVE  /\ StayInv'
                    /\ \A t \in Tabs : tab[t].page = "in" => tab'[t].page \in {"in", "loading"}
  BY DEF StayInv
<1> USE Fields
<1>1. Steady
  BY SteadyBefore
<1>2. CASE UNCHANGED vars
  <2>1. (\A q \in Procs : StayReq(q)') /\ (\A u \in Tabs : StayTab(u)')
    BY <1>1, <1>2 DEF vars, StayInv, StayReq, StayTab
  <2>2. Rotated => Rotated'
    BY <1>2 DEF vars, Rotated, Under
  <2>3. StayInv'
    BY <1>1, <1>2, <2>1, <2>2 DEF vars, StayInv
  <2> QED BY <1>2, <2>3 DEF vars
<1>3. ASSUME NEW p \in Procs, Serve(p)
      PROVE  /\ StayInv'
             /\ \A t \in Tabs : tab[t].page = "in" => tab'[t].page \in {"in", "loading"}
  <2>1. tab' = tab
    BY <1>3 DEF Serve, Authenticate, CreateSession, LockSession, Rotate, NoRefreshToken, Logout
  <2> QED BY <1>1, <1>3, <2>1, ServeStay
<1>4. ASSUME NEW t \in Tabs, Deliver(t)
      PROVE  /\ StayInv'
             /\ \A u \in Tabs : tab[u].page = "in" => tab'[u].page \in {"in", "loading"}
  BY <1>1, <1>4, DeliverStay
<1>5. \A p \in Procs : ~DeliverLate(p)
  BY <1>1 DEF DeliverLate, QuietInv, Steady
<1>6. ASSUME NEW t \in Tabs,
             \/ RestoreSession(t) \/ RefreshTimer(t) \/ Unauthorised(t)
             \/ LockGranted(t) \/ Login(t) \/ OpenPage(t) \/ BackoffOver(t)
      PROVE  /\ StayInv'
             /\ \A u \in Tabs : tab[u].page = "in" => tab'[u].page \in {"in", "loading"}
  <2>1. StayInv' /\ \A u \in Tabs : tab'[u] = tab[u] \/ tab'[u] = Loading
    BY <1>1, <1>6, TabStay
  <2> QED BY <2>1 DEF Loading
<1> QED BY <1>2, <1>3, <1>4, <1>5, <1>6, SteadyBefore DEF Next

\* Without a fault, a sign-out or an administrator a signed-in tab stays signed
\* in until the user opens another page, through every refresh of every tab.
THEOREM StaySignedIn == Spec => SignedInStays
<1> DEFINE Inv == TypeOK /\ ShapeInv /\ ChainInv /\ QuietInv /\ StayInv
<1>1. Init => StayInv
  <2> SUFFICES ASSUME Init PROVE StayInv
    OBVIOUS
  <2>1. \A p \in Procs : StayReq(p)
    BY DEF Init, StayReq, NoReq, Refreshes
  <2>2. \A t \in Tabs : StayTab(t)
    BY DEF Init, StayTab, NoReq, Away, Procs
  <2> QED BY <2>1, <2>2 DEF Init, StayInv
<1>2. Inv /\ [Next]_vars
        => [\A t \in Tabs : WebLocks /\ faults' = 0 /\ ops' = 0 /\ tab[t].page = "in"
              => tab'[t].page \in {"in", "loading"}]_vars
  BY NextStay DEF Steady, Calm
<1>3. Inv /\ [Next]_vars => Inv'
  BY NextTypes, NextChain, NextQuiet, NextStay
<1> QED BY <1>1, <1>2, <1>3, InitTypes, InitQuiet, PTL DEF Spec, SignedInStays
=============================================================================
