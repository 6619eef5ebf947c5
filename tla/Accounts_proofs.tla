---------------------------- MODULE Accounts_proofs ----------------------------
(***************************************************************************)
(* Proofs about the account for any number of requests, links and          *)
(* challenges.  Types are inductive.  A link is used once because the      *)
(* request that holds it found it unused and no other request holds it.    *)
(* Old sessions are accounted for because whatever may still insert one,   *)
(* a request or a challenge, is marked when the password changes.          *)
(***************************************************************************)
EXTENDS Accounts, FiniteSetTheorems, TLAPS

Row == [status : Statuses, pw : Passwords, fails : 0 .. MaxFailures,
        locked : BOOLEAN, mfa : {"off", "pending", "on"}]
LinkRow == [issued : BOOLEAN, uses : Nat]
ChalRow == [open : BOOLEAN, tries : 0 .. MaxOtp + 1, guesses : Nat, origin : Origins]
ReqRow == [step : Steps, origin : Origins, seen : 0 .. MaxFailures,
           link : SUBSET Links, chal : SUBSET Chals]

\* The initial state has its types.
LEMMA InitTypes == Init => TypeOK
BY AccountsAssumption
DEF Init, TypeOK, AccountsAssumption, Statuses, Passwords, Origins, NoReq, Steps

\* Writing the failure counter and the lock keeps the row's type.
LEMMA LockTypes ==
  ASSUME NEW u \in Row, NEW n \in 0 .. MaxFailures, NEW b \in BOOLEAN
  PROVE  [u EXCEPT !.fails = n, !.locked = b] \in Row
BY DEF Row

\* Approving an account keeps the row's type.
LEMMA ApproveTypes ==
  ASSUME NEW u \in Row, NEW n \in 0 .. MaxFailures, NEW b \in BOOLEAN
  PROVE  [u EXCEPT !.status = "ACTIVE", !.fails = n, !.locked = b] \in Row
BY DEF Row, Statuses

\* The counters of a statement's bounds stay within them.
LEMMA CounterTypes ==
  ASSUME TypeOK
  PROVE  /\ Op => ops' \in 0 .. MaxOps
         /\ Fault => faults' \in 0 .. MaxFaults
BY AccountsAssumption DEF TypeOK, Op, Fault, AccountsAssumption

\* Marking a request or a challenge keeps its type.
LEMMA OvertakeTypes ==
  ASSUME TypeOK, NEW r \in Reqs
  PROVE  /\ OvertakeReqs(r) \in [Reqs -> ReqRow]
         /\ OvertakeChals \in [Chals -> ChalRow]
<1>1. \A o \in Origins : Overtaken(o) \in Origins
  BY DEF Origins, Overtaken
<1>2. \A q \in Reqs : req[q] \in ReqRow
  BY DEF TypeOK, ReqRow
<1>3. \A c \in Chals : chal[c] \in ChalRow
  BY DEF TypeOK, ChalRow
<1>4. \A x \in ReqRow : [x EXCEPT !.origin = Overtaken(@)] \in ReqRow
  BY <1>1 DEF ReqRow
<1>5. \A x \in ChalRow : [x EXCEPT !.origin = Overtaken(@)] \in ChalRow
  BY <1>1 DEF ChalRow
<1> QED BY <1>2, <1>3, <1>4, <1>5 DEF OvertakeReqs, OvertakeChals

\* Counting a refused code keeps the types of the challenges.
LEMMA FailedCodeTypes ==
  ASSUME TypeOK
  PROVE  FailedCode \in [Chals -> ChalRow]
<1>1. \A c \in Chals : chal[c] \in ChalRow
  BY DEF TypeOK, ChalRow
<1>2. \A n \in 0 .. MaxOtp + 1 : AtMost(n + 1, MaxOtp + 1) \in 0 .. MaxOtp + 1
  BY AccountsAssumption DEF AtMost, AccountsAssumption
<1>3. \A x \in ChalRow : [x EXCEPT !.tries = AtMost(@ + 1, MaxOtp + 1)] \in ChalRow
  BY <1>2 DEF ChalRow
<1> QED BY <1>1, <1>3 DEF FailedCode

\* Every step of a request that signs in keeps the types.
LEMMA SignInTypes ==
  ASSUME TypeOK, NEW r \in Reqs, SignIn(r)
  PROVE  TypeOK'
<1> USE AccountsAssumption DEF AccountsAssumption
<1>r. req[r] \in ReqRow /\ NoReq \in ReqRow
  BY DEF TypeOK, ReqRow, NoReq, Steps, Origins, Passwords
<1>1. ASSUME NEW right \in BOOLEAN, LoginReads(r, right) PROVE TypeOK'
  BY <1>1 DEF LoginReads, Begin, TypeOK, NoReq, Steps, Origins, Passwords
<1>2. ASSUME LoginFails(r) PROVE TypeOK'
  <2>1. user' \in Row
    <3>1. user \in Row /\ req[r].seen \in 0 .. MaxFailures
      BY <1>r DEF TypeOK, Row, ReqRow
    <3>2. AtMost(req[r].seen + 1, MaxFailures) \in 0 .. MaxFailures
      BY <3>1 DEF AtMost
    <3>3. (req[r].seen + 1 >= MaxFailures) \in BOOLEAN
      OBVIOUS
    <3>4. user' = [user EXCEPT !.fails = AtMost(req[r].seen + 1, MaxFailures),
                               !.locked = (req[r].seen + 1 >= MaxFailures)]
      BY <1>2, Zenon DEF LoginFails
    <3> QED BY <3>1, <3>2, <3>3, <3>4, LockTypes, Zenon
  <2>2. req' \in [Reqs -> ReqRow]
    BY <1>2, <1>r DEF LoginFails, End, TypeOK, ReqRow
  <2> QED BY <1>2, <2>1, <2>2 DEF LoginFails, TypeOK, Row, ReqRow
<1>3. ASSUME CheckMfa(r) PROVE TypeOK'
  <2>1. chal' \in [Chals -> ChalRow]
    <3>1. CASE UNCHANGED chal
      BY <3>1 DEF TypeOK, ChalRow
    <3>2. CASE chal' = FailedCode
      BY <3>2, FailedCodeTypes
    <3>3. ASSUME NEW c \in Chals,
                 chal' = [chal EXCEPT ![c] = [open |-> TRUE, tries |-> 0, guesses |-> 0,
                                              origin |-> req[r].origin]]
          PROVE  chal' \in [Chals -> ChalRow]
      <4>1. [open |-> TRUE, tries |-> 0, guesses |-> 0, origin |-> req[r].origin] \in ChalRow
        BY <1>r DEF ChalRow, ReqRow
      <4> QED BY <3>3, <4>1 DEF TypeOK, ChalRow
    <3> QED BY <1>3, <3>1, <3>2, <3>3 DEF CheckMfa
  <2>2. req' \in [Reqs -> ReqRow]
    BY <1>3, <1>r DEF CheckMfa, Goto, End, TypeOK, ReqRow, Steps
  <2> QED BY <1>3, <2>1, <2>2 DEF CheckMfa, TypeOK, ChalRow, ReqRow
<1>4. ASSUME NEW c \in Chals, OtpReads(r, c) PROVE TypeOK'
  BY <1>4 DEF OtpReads, Begin, TypeOK, NoReq, Steps
<1>5. ASSUME OtpSucceeds(r) PROVE TypeOK'
  BY <1>5 DEF OtpSucceeds, Goto, TypeOK, Steps
<1>6. ASSUME OtpFails(r) PROVE TypeOK'
  <2>1. PICK logged \in BOOLEAN :
          /\ IF logged THEN UNCHANGED faults ELSE Fault
          /\ chal' = [c \in Chals |->
               [(IF logged THEN FailedCode[c] ELSE chal[c]) EXCEPT
                  !.guesses = IF chal[c].open /\ c \in req[r].chal THEN @ + 1 ELSE @]]
    BY <1>6 DEF OtpFails
  <2>2. \A c \in Chals : (IF logged THEN FailedCode[c] ELSE chal[c]) \in ChalRow
    BY FailedCodeTypes DEF TypeOK, ChalRow
  <2>3. \A x \in ChalRow, b \in BOOLEAN : [x EXCEPT !.guesses = IF b THEN @ + 1 ELSE @] \in ChalRow
    BY DEF ChalRow
  <2>4. \A c \in Chals : (chal[c].open /\ c \in req[r].chal) \in BOOLEAN
    BY DEF TypeOK
  <2>5. chal' \in [Chals -> ChalRow]
    BY <2>1, <2>2, <2>3, <2>4
  <2>6. faults' \in 0 .. MaxFaults
    BY <2>1, CounterTypes DEF TypeOK
  <2>7. req' \in [Reqs -> ReqRow]
    BY <1>6, <1>r DEF OtpFails, End, TypeOK, ReqRow
  <2> QED BY <1>6, <2>5, <2>6, <2>7 DEF OtpFails, TypeOK, ChalRow, ReqRow
<1>7. ASSUME ClearFailures(r) PROVE TypeOK'
  <2>1. user' \in Row
    <3>1. user \in Row /\ 0 \in 0 .. MaxFailures
      BY DEF TypeOK, Row
    <3>2. user' = [user EXCEPT !.fails = 0, !.locked = FALSE]
      BY <1>7 DEF ClearFailures
    <3> QED BY <3>1, <3>2, LockTypes, Zenon
  <2>2. req' \in [Reqs -> ReqRow]
    BY <1>7 DEF ClearFailures, Goto, TypeOK, ReqRow, Steps
  <2> QED BY <1>7, <2>1, <2>2 DEF ClearFailures, TypeOK, Row, ReqRow
<1>8. ASSUME CreateSession(r) PROVE TypeOK'
  BY <1>8, <1>r DEF CreateSession, End, TypeOK, ReqRow
<1> QED BY <1>1, <1>2, <1>3, <1>4, <1>5, <1>6, <1>7, <1>8 DEF SignIn

\* Every step of a request that changes the password keeps the types.
LEMMA PasswordTypes ==
  ASSUME TypeOK, NEW r \in Reqs, Password(r)
  PROVE  TypeOK'
<1> USE AccountsAssumption DEF AccountsAssumption
<1>r. req[r] \in ReqRow /\ NoReq \in ReqRow
  BY DEF TypeOK, ReqRow, NoReq, Steps, Origins, Passwords
<1>o. OvertakeReqs(r) \in [Reqs -> ReqRow] /\ OvertakeChals \in [Chals -> ChalRow]
  BY OvertakeTypes
<1>1. ASSUME NEW l \in Links, ResetReads(r, l) PROVE TypeOK'
  <2>1. [NoReq EXCEPT !.step = "reset", !.link = {l}] \in ReqRow
    BY <1>r DEF ReqRow, NoReq, Steps
  <2>2. req' \in [Reqs -> ReqRow]
    BY <1>1, <2>1 DEF ResetReads, Begin, TypeOK, ReqRow
  <2> QED BY <1>1, <2>2 DEF ResetReads, TypeOK, ReqRow
<1>2. ASSUME ResetPassword(r) PROVE TypeOK'
  <2>1. user' \in Row /\ live' \subseteq Origins
    BY <1>2 DEF ResetPassword, TypeOK, Row, Passwords
  <2>2. link' \in [Links -> LinkRow]
    BY <1>2 DEF ResetPassword, TypeOK, LinkRow
  <2>3. req' \in [Reqs -> ReqRow] /\ chal' \in [Chals -> ChalRow]
    BY <1>2, <1>r, <1>o DEF ResetPassword
  <2> QED BY <1>2, <2>1, <2>2, <2>3 DEF ResetPassword, TypeOK, Row, LinkRow, ChalRow, ReqRow
<1>3. ASSUME ChangeReads(r) PROVE TypeOK'
  BY <1>3, CounterTypes DEF ChangeReads, Begin, TypeOK, NoReq, Steps, Origins, Passwords
<1>4. ASSUME ChangePassword(r) PROVE TypeOK'
  <2>1. user' \in Row
    BY <1>4 DEF ChangePassword, TypeOK, Row, Passwords
  <2>2. req' \in [Reqs -> ReqRow] /\ chal' \in [Chals -> ChalRow]
    BY <1>4, <1>o DEF ChangePassword, ReqRow, Steps
  <2> QED BY <1>4, <2>1, <2>2 DEF ChangePassword, TypeOK, Row, ChalRow, ReqRow
<1>5. ASSUME DeleteSessions(r) PROVE TypeOK'
  <2>1. req' \in [Reqs -> ReqRow]
    BY <1>5, <1>r, <1>o DEF DeleteSessions
  <2> QED BY <1>5, <2>1 DEF DeleteSessions, TypeOK, ReqRow
<1> QED BY <1>1, <1>2, <1>3, <1>4, <1>5 DEF Password

\* Every step keeps the types.
LEMMA NextTypes == TypeOK /\ [Next]_vars => TypeOK'
<1> SUFFICES ASSUME TypeOK, [Next]_vars PROVE TypeOK'
  OBVIOUS
<1> USE AccountsAssumption DEF AccountsAssumption
<1>n. NoReq \in ReqRow
  BY DEF ReqRow, NoReq, Steps, Origins, Passwords
<1>1. ASSUME NEW r \in Reqs, SignIn(r) \/ Password(r) PROVE TypeOK'
  BY <1>1, SignInTypes, PasswordTypes
<1>2. ASSUME NEW r \in Reqs, RequestFails(r) PROVE TypeOK'
  BY <1>2, <1>n, CounterTypes DEF RequestFails, End, TypeOK, ReqRow
<1>3. ASSUME NEW r \in Reqs, NEW o \in live, RefreshReads(r, o) PROVE TypeOK'
  <2>1. [NoReq EXCEPT !.step = "rotate", !.origin = o] \in ReqRow
    BY <1>n DEF TypeOK, ReqRow, NoReq, Steps
  <2>2. req' \in [Reqs -> ReqRow]
    BY <1>3, <2>1 DEF RefreshReads, Begin, TypeOK, ReqRow
  <2>3. live' \subseteq Origins
    BY <1>3 DEF RefreshReads, Without, TypeOK
  <2> QED BY <1>3, <2>2, <2>3 DEF RefreshReads, TypeOK, ReqRow
<1>4. ASSUME NEW r \in Reqs, Rotate(r) PROVE TypeOK'
  <2>1. req[r].origin \in Origins
    BY DEF TypeOK
  <2>2. live' \subseteq Origins
    BY <1>4, <2>1 DEF Rotate, Without, TypeOK
  <2> QED BY <1>4, <1>n, <2>2 DEF Rotate, End, TypeOK, ReqRow
<1>5. ASSUME NEW r \in Reqs, NEW s \in Statuses \ {"PENDING"}, UpdateUserStatus(r, s) PROVE TypeOK'
  <2>1. [NoReq EXCEPT !.step = "revoke"] \in ReqRow
    BY <1>n DEF ReqRow, NoReq, Steps
  <2>2. req' \in [Reqs -> ReqRow]
    BY <1>5, <2>1 DEF UpdateUserStatus, Begin, TypeOK, ReqRow
  <2>3. user' \in Row
    BY <1>5 DEF UpdateUserStatus, TypeOK, Row
  <2>4. ops' \in 0 .. MaxOps
    BY <1>5, CounterTypes DEF UpdateUserStatus
  <2> QED BY <1>5, <2>2, <2>3, <2>4 DEF UpdateUserStatus, TypeOK, Row, ReqRow
<1>6. ASSUME NEW r \in Reqs, RevokeSessions(r) PROVE TypeOK'
  BY <1>6, <1>n DEF RevokeSessions, End, TypeOK, ReqRow
<1>7. ASSUME NEW o \in live, SessionEnds(o) PROVE TypeOK'
  BY <1>7 DEF SessionEnds, TypeOK
<1>8. ASSUME NEW c \in Chals, ChallengeExpires(c) PROVE TypeOK'
  <2>1. [open |-> FALSE, tries |-> 0, guesses |-> 0, origin |-> [born |-> 0, over |-> FALSE]] \in ChalRow
    BY DEF ChalRow, Origins, Passwords
  <2>2. chal' \in [Chals -> ChalRow]
    BY <1>8, <2>1 DEF ChallengeExpires, TypeOK, ChalRow
  <2> QED BY <1>8, <2>2 DEF ChallengeExpires, TypeOK, ChalRow
<1>9. ASSUME LockExpires PROVE TypeOK'
  BY <1>9 DEF LockExpires, TypeOK
<1>10. ASSUME NEW l \in Links, NEW admin \in BOOLEAN, IssueLink(l, admin) PROVE TypeOK'
  <2>1. user' \in Row
    <3>1. user \in Row /\ 0 \in 0 .. MaxFailures
      BY DEF TypeOK, Row
    <3>2. user' = [user EXCEPT !.fails = 0, !.locked = FALSE] \/ user' = user
      BY <1>10, Zenon DEF IssueLink
    <3> QED BY <3>1, <3>2, LockTypes, Zenon
  <2>2. link' \in [Links -> LinkRow]
    BY <1>10 DEF IssueLink, TypeOK, LinkRow
  <2>3. ops' \in 0 .. MaxOps
    BY <1>10, CounterTypes DEF IssueLink
  <2> QED BY <1>10, <2>1, <2>2, <2>3 DEF IssueLink, TypeOK, Row, LinkRow
<1>11. ASSUME NEW m \in {"off", "pending", "on"}, SetMfa(m) PROVE TypeOK'
  BY <1>11, CounterTypes DEF SetMfa, TypeOK
<1>12. ASSUME NEW approve \in BOOLEAN, DecideUser(approve) PROVE TypeOK'
  <2>1. user' \in Row
    <3>1. user \in Row /\ 0 \in 0 .. MaxFailures
      BY DEF TypeOK, Row
    <3>2. \/ user' = [user EXCEPT !.status = "ACTIVE", !.fails = 0, !.locked = FALSE]
          \/ user' = [user EXCEPT !.status = "SUSPENDED"]
      BY <1>12, Zenon DEF DecideUser
    <3>3. [user EXCEPT !.status = "SUSPENDED"] \in Row
      BY <3>1 DEF Row, Statuses
    <3> QED BY <3>1, <3>2, <3>3, ApproveTypes, Zenon
  <2>2. ops' \in 0 .. MaxOps
    BY <1>12, CounterTypes DEF DecideUser
  <2> QED BY <1>12, <2>1, <2>2 DEF DecideUser, TypeOK, Row
<1>13. CASE UNCHANGED vars
  BY <1>13 DEF vars, TypeOK
<1> QED
  BY <1>1, <1>2, <1>3, <1>4, <1>5, <1>6, <1>7, <1>8, <1>9, <1>10, <1>11, <1>12, <1>13 DEF Next

\* The account, its sessions, links, challenges and requests have their types
\* in every reachable state.
THEOREM AccountTypes == Spec => []TypeOK
<1> QED BY InitTypes, NextTypes, PTL DEF Spec
-----------------------------------------------------------------------------
(* Reset links.                                                             *)

\* A request that holds a link holds it alone, and found it unused.
LinkInv ==
  /\ ResetOnce
  /\ \A r \in Reqs, l \in Links : l \in req[r].link => link[l].uses = 0
  /\ \A r, q \in Reqs, l \in Links : l \in req[r].link /\ l \in req[q].link => r = q

\* No request takes up a link and no link is used.
LinksKept ==
  /\ \A q \in Reqs : req'[q].link \subseteq req[q].link
  /\ \A l \in Links : link'[l].uses = link[l].uses

\* A request that starts without a link, ends or goes on takes none up.
LEMMA RequestLinks ==
  ASSUME TypeOK, NEW r \in Reqs
  PROVE  /\ \A rec : Begin(r, rec) /\ rec.link = {} => \A q \in Reqs : req'[q].link \subseteq req[q].link
         /\ End(r) => \A q \in Reqs : req'[q].link \subseteq req[q].link
         /\ \A step \in Steps : Goto(r, step) => \A q \in Reqs : req'[q].link \subseteq req[q].link
<1>1. NoReq.link = {}
  BY DEF NoReq
<1>2. req \in [Reqs -> ReqRow]
  BY DEF TypeOK, ReqRow
<1>3. ASSUME NEW rec, Begin(r, rec), rec.link = {}
      PROVE  \A q \in Reqs : req'[q].link \subseteq req[q].link
  BY <1>2, <1>3 DEF Begin
<1>4. ASSUME End(r) PROVE \A q \in Reqs : req'[q].link \subseteq req[q].link
  BY <1>1, <1>2, <1>4 DEF End
<1>5. ASSUME NEW step \in Steps, Goto(r, step)
      PROVE  \A q \in Reqs : req'[q].link \subseteq req[q].link
  BY <1>2, <1>5 DEF Goto, ReqRow
<1> QED BY <1>3, <1>4, <1>5

\* Marking requests changes nothing but their origins.
LEMMA OvertakeKeeps ==
  ASSUME TypeOK, NEW r \in Reqs, NEW q \in Reqs
  PROVE  /\ OvertakeReqs(r)[q].link = req[q].link
         /\ OvertakeReqs(r)[q].chal = req[q].chal
         /\ OvertakeReqs(r)[q].step = req[q].step
         /\ q # r /\ req[q].step # "none" => OvertakeReqs(r)[q].origin.over
<1>1. req[q] \in ReqRow /\ req[q].origin \in Origins
  BY DEF TypeOK, ReqRow
<1>2. CASE q # r /\ req[q].step # "none"
  <2>1. OvertakeReqs(r)[q] = [req[q] EXCEPT !.origin = Overtaken(req[q].origin)]
    BY <1>2 DEF OvertakeReqs
  <2>2. Overtaken(req[q].origin).over
    BY <1>1 DEF Overtaken, Origins
  <2> QED BY <1>1, <2>1, <2>2 DEF ReqRow
<1>3. CASE ~(q # r /\ req[q].step # "none")
  BY <1>3 DEF OvertakeReqs
<1> QED BY <1>2, <1>3

\* Signing in concerns no link.
LEMMA SignInLinks ==
  ASSUME TypeOK, NEW r \in Reqs, SignIn(r)
  PROVE  LinksKept
<1> USE DEF LinksKept, NoReq, Steps
<1>1. ASSUME NEW right \in BOOLEAN, LoginReads(r, right) PROVE LinksKept
  BY <1>1, RequestLinks DEF LoginReads
<1>2. ASSUME LoginFails(r) PROVE LinksKept
  BY <1>2, RequestLinks DEF LoginFails
<1>3. ASSUME CheckMfa(r) PROVE LinksKept
  BY <1>3, RequestLinks DEF CheckMfa
<1>4. ASSUME NEW c \in Chals, OtpReads(r, c) PROVE LinksKept
  BY <1>4, RequestLinks DEF OtpReads
<1>5. ASSUME OtpSucceeds(r) PROVE LinksKept
  BY <1>5, RequestLinks DEF OtpSucceeds
<1>6. ASSUME OtpFails(r) PROVE LinksKept
  BY <1>6, RequestLinks DEF OtpFails
<1>7. ASSUME ClearFailures(r) PROVE LinksKept
  BY <1>7, RequestLinks DEF ClearFailures
<1>8. ASSUME CreateSession(r) PROVE LinksKept
  BY <1>8, RequestLinks DEF CreateSession
<1> QED BY <1>1, <1>2, <1>3, <1>4, <1>5, <1>6, <1>7, <1>8 DEF SignIn

\* The two steps of a reset keep the invariant of the links.
LEMMA ResetLinks ==
  ASSUME TypeOK, LinkInv, NEW r \in Reqs,
         ResetPassword(r) \/ \E l \in Links : ResetReads(r, l)
  PROVE  LinkInv'
<1>0. req \in [Reqs -> ReqRow] /\ link \in [Links -> LinkRow]
  BY DEF TypeOK, ReqRow, LinkRow
<1>1. ASSUME NEW l \in Links, ResetReads(r, l) PROVE LinkInv'
  <2>1. \A q \in Reqs : req'[q].link = IF q = r THEN {l} ELSE req[q].link
    BY <1>0, <1>1 DEF ResetReads, Begin, NoReq
  <2>2. \A q \in Reqs : l \notin req[q].link
    BY <1>1 DEF ResetReads
  <2>3. link' = link /\ link[l].uses = 0
    BY <1>1 DEF ResetReads
  <2> QED BY <2>1, <2>2, <2>3 DEF LinkInv, ResetOnce
<1>2. ASSUME ResetPassword(r) PROVE LinkInv'
  <2>1. \A q \in Reqs : req'[q].link = IF q = r THEN {} ELSE req[q].link
    <3>1. OvertakeReqs(r) \in [Reqs -> ReqRow]
      BY OvertakeTypes
    <3>2. \A q \in Reqs : req'[q] = IF q = r THEN NoReq ELSE OvertakeReqs(r)[q]
      BY <1>2, <3>1 DEF ResetPassword
    <3>3. \A q \in Reqs : OvertakeReqs(r)[q].link = req[q].link
      BY OvertakeKeeps
    <3>4. NoReq.link = {}
      BY DEF NoReq
    <3> QED BY <3>2, <3>3, <3>4
  <2>2. \A l \in Links : link'[l].uses = IF l \in req[r].link THEN link[l].uses + 1 ELSE link[l].uses
    BY <1>0, <1>2 DEF ResetPassword, LinkRow
  <2> QED BY <2>1, <2>2 DEF LinkInv, ResetOnce
<1> QED BY <1>1, <1>2

\* Every step keeps the invariant of the links.
LEMMA NextLinks == TypeOK /\ LinkInv /\ [Next]_vars => LinkInv'
<1> SUFFICES ASSUME TypeOK, LinkInv, [Next]_vars PROVE LinkInv'
  OBVIOUS
<1>0. req \in [Reqs -> ReqRow] /\ link \in [Links -> LinkRow]
  BY DEF TypeOK, ReqRow, LinkRow
<1>k. LinksKept => LinkInv'
  BY DEF LinkInv, LinksKept, ResetOnce
<1>1. ASSUME NEW r \in Reqs, SignIn(r) PROVE LinkInv'
  BY <1>1, <1>k, SignInLinks
<1>2. ASSUME NEW r \in Reqs, ResetPassword(r) \/ \E l \in Links : ResetReads(r, l) PROVE LinkInv'
  BY <1>2, ResetLinks
<1>3. ASSUME NEW r \in Reqs, ChangeReads(r) PROVE LinkInv'
  BY <1>3, <1>k, RequestLinks DEF ChangeReads, LinksKept, NoReq
<1>4. ASSUME NEW r \in Reqs, ChangePassword(r) \/ DeleteSessions(r) PROVE LinkInv'
  <2>1. OvertakeReqs(r) \in [Reqs -> ReqRow]
    BY OvertakeTypes
  <2>2. \A q \in Reqs : req'[q].link \subseteq OvertakeReqs(r)[q].link
    BY <1>4, <2>1 DEF ChangePassword, DeleteSessions, NoReq, ReqRow
  <2>3. LinksKept
    BY <1>4, <2>2, OvertakeKeeps DEF LinksKept, ChangePassword, DeleteSessions
  <2> QED BY <2>3, <1>k
<1>5. ASSUME NEW r \in Reqs, RequestFails(r) \/ RevokeSessions(r) \/ Rotate(r) PROVE LinkInv'
  BY <1>5, <1>k, RequestLinks DEF RequestFails, RevokeSessions, Rotate, LinksKept
<1>6. ASSUME NEW r \in Reqs, NEW o \in live, RefreshReads(r, o) PROVE LinkInv'
  BY <1>6, <1>k, RequestLinks DEF RefreshReads, LinksKept, NoReq
<1>7. ASSUME NEW r \in Reqs, NEW s \in Statuses \ {"PENDING"}, UpdateUserStatus(r, s) PROVE LinkInv'
  BY <1>7, <1>k, RequestLinks DEF UpdateUserStatus, LinksKept, NoReq
<1>8. ASSUME NEW l \in Links, NEW admin \in BOOLEAN, IssueLink(l, admin) PROVE LinkInv'
  BY <1>0, <1>8, <1>k DEF IssueLink, LinksKept, LinkRow
<1>9. ASSUME UNCHANGED <<req, link>> PROVE LinkInv'
  BY <1>9, <1>k DEF LinksKept
<1>10. ASSUME \/ \E o \in live : SessionEnds(o)
              \/ \E c \in Chals : ChallengeExpires(c)
              \/ LockExpires
              \/ \E m \in {"off", "pending", "on"} : SetMfa(m)
              \/ \E approve \in BOOLEAN : DecideUser(approve)
              \/ UNCHANGED vars
       PROVE  UNCHANGED <<req, link>>
  BY <1>10 DEF SessionEnds, ChallengeExpires, LockExpires, SetMfa, DecideUser, vars
<1> QED
  BY <1>1, <1>2, <1>3, <1>4, <1>5, <1>6, <1>7, <1>8, <1>9, <1>10 DEF Next, Password

\* A reset link changes the password at most once, for any number of requests
\* that present it (resetPassword).
THEOREM LinkUsedOnce == Spec => []ResetOnce
<1>1. Init => LinkInv
  BY DEF Init, LinkInv, ResetOnce, NoReq
<1>2. LinkInv => ResetOnce
  BY DEF LinkInv
<1> QED BY <1>1, <1>2, NextLinks, AccountTypes, PTL DEF Spec
-----------------------------------------------------------------------------
(* Sessions of earlier passwords.                                           *)

\* An origin that is of password p or was marked.
Accounted(o, p) == o.born = p \/ o.over

\* changePassword is between its statements, or a statement has failed.
Exempt == faults > 0 \/ \E r \in Reqs : req[r].step = "delete"

\* Steps of a request that may lead to a new session.
Carrying == {"right", "code", "clear", "insert"}

\* Whatever can still open a session is accounted for; a session, and the
\* refresh of one, may be exempt.
OldInv ==
  /\ \A o \in live : Accounted(o, user.pw) \/ Exempt
  /\ \A r \in Reqs : req[r].step \in Carrying => Accounted(req[r].origin, user.pw)
  /\ \A r \in Reqs : req[r].step = "rotate" => Accounted(req[r].origin, user.pw) \/ Exempt
  /\ \A c \in Chals : chal[c].open => Accounted(chal[c].origin, user.pw)

\* A step that leaves the password, and the requests between the statements of
\* changePassword, as they are keeps what is accounted for and exempt.
LEMMA KeepsAccounts ==
  ASSUME TypeOK, user'.pw = user.pw,
         faults' \in Nat, faults' >= faults,
         \A r \in Reqs : req[r].step = "delete" => req'[r].step = "delete"
  PROVE  user'.pw = user.pw /\ (Exempt => Exempt')
BY DEF Exempt, TypeOK

\* What a request does to its own record, and leaves of the others.
LEMMA RequestSteps ==
  ASSUME TypeOK, NEW r \in Reqs
  PROVE  /\ \A rec : Begin(r, rec) => \A q \in Reqs : req'[q] = IF q = r THEN rec ELSE req[q]
         /\ \A rec : Begin(r, rec) => req[r].step = "none"
         /\ End(r) => \A q \in Reqs : req'[q] = IF q = r THEN NoReq ELSE req[q]
         /\ \A step \in Steps : Goto(r, step) =>
              \A q \in Reqs : /\ req'[q].step = IF q = r THEN step ELSE req[q].step
                             /\ req'[q].origin = req[q].origin
<1>1. req \in [Reqs -> ReqRow]
  BY DEF TypeOK, ReqRow
<1>2. \A rec : Begin(r, rec) => \A q \in Reqs : req'[q] = IF q = r THEN rec ELSE req[q]
  BY <1>1 DEF Begin
<1>3. \A rec : Begin(r, rec) => req[r].step = "none"
  BY DEF Begin, NoReq
<1>4. End(r) => \A q \in Reqs : req'[q] = IF q = r THEN NoReq ELSE req[q]
  BY <1>1 DEF End
<1>5. \A step \in Steps : Goto(r, step) =>
        \A q \in Reqs : /\ req'[q].step = IF q = r THEN step ELSE req[q].step
                       /\ req'[q].origin = req[q].origin
  BY <1>1 DEF Goto, ReqRow
<1> QED BY <1>2, <1>3, <1>4, <1>5

\* Counting a refused code leaves which challenges are open and their origins.
LEMMA FailedCodeKeeps ==
  ASSUME TypeOK, NEW c \in Chals
  PROVE  FailedCode[c].open = chal[c].open /\ FailedCode[c].origin = chal[c].origin
<1>1. chal[c] \in ChalRow
  BY DEF TypeOK, ChalRow
<1> QED BY <1>1 DEF FailedCode, ChalRow

\* Signing in keeps the accounts.
LEMMA SignInOld ==
  ASSUME TypeOK, OldInv, NEW r \in Reqs, SignIn(r)
  PROVE  OldInv'
<1>f. faults \in Nat /\ MaxFaults \in Nat
  BY AccountsAssumption DEF TypeOK, AccountsAssumption
<1>s. Carrying \subseteq Steps /\ "delete" \notin Carrying /\ "rotate" \notin Carrying /\ "none" \notin Carrying
  BY DEF Carrying, Steps
<1>n. NoReq.step = "none"
  BY DEF NoReq
<1>1. ASSUME NEW right \in BOOLEAN, LoginReads(r, right) PROVE OldInv'
  <2>1. PICK rec : /\ Begin(r, rec)
                   /\ rec.step \in {"right", "wrong"}
                   /\ rec.origin = [born |-> user.pw, over |-> FALSE]
    <3> DEFINE x == [NoReq EXCEPT !.step = IF right THEN "right" ELSE "wrong",
                                  !.origin = [born |-> user.pw, over |-> FALSE],
                                  !.seen = user.fails]
    <3>1. Begin(r, x)
      BY <1>1 DEF LoginReads
    <3>2. x.step \in {"right", "wrong"} /\ x.origin = [born |-> user.pw, over |-> FALSE]
      BY DEF NoReq
    <3> QED BY <3>1, <3>2
  <2>2. UNCHANGED <<user, live, chal, faults>>
    BY <1>1 DEF LoginReads
  <2>3. \A q \in Reqs : req'[q] = IF q = r THEN rec ELSE req[q]
    BY <2>1, RequestSteps
  <2>4. \A q \in Reqs : req[q].step = "delete" => req'[q].step = "delete"
    BY <2>1, <2>3, RequestSteps
  <2>5. user'.pw = user.pw /\ (Exempt => Exempt')
    BY <1>f, <2>2, <2>4, KeepsAccounts
  <2>6. Accounted(rec.origin, user'.pw)
    BY <2>1, <2>2 DEF Accounted
  <2> QED BY <2>1, <2>2, <2>3, <2>5, <2>6 DEF OldInv, Carrying
<1>2. ASSUME LoginFails(r) PROVE OldInv'
  <2>1. user'.pw = user.pw /\ UNCHANGED <<live, chal, faults>>
    BY <1>2 DEF LoginFails, TypeOK
  <2>2. \A q \in Reqs : req'[q] = IF q = r THEN NoReq ELSE req[q]
    BY <1>2, RequestSteps DEF LoginFails
  <2>3. \A q \in Reqs : req[q].step = "delete" => req'[q].step = "delete"
    BY <1>2, <2>2 DEF LoginFails
  <2>4. user'.pw = user.pw /\ (Exempt => Exempt')
    BY <1>f, <2>1, <2>3, KeepsAccounts
  <2> QED BY <1>s, <1>n, <2>1, <2>2, <2>4 DEF OldInv
<1>3. ASSUME CheckMfa(r) PROVE OldInv'
  <2>1. UNCHANGED <<user, live, faults>> /\ req[r].step = "right"
    BY <1>3 DEF CheckMfa
  <2>2. \A q \in Reqs : \/ req'[q] = req[q]
                        \/ q = r /\ req'[q].step = "none"
                        \/ q = r /\ req'[q].step \in Carrying /\ req'[q].origin = req[q].origin
    <3>1. CASE End(r)
      BY <3>1, <1>n, RequestSteps
    <3>2. ASSUME NEW step \in {"clear", "insert"}, Goto(r, step)
          PROVE  \A q \in Reqs : \/ req'[q] = req[q]
                                 \/ q = r /\ req'[q].step \in Carrying /\ req'[q].origin = req[q].origin
      BY <3>2 DEF Goto, TypeOK, Carrying
    <3> QED BY <1>3, <3>1, <3>2 DEF CheckMfa
  <2>3. \A q \in Reqs : req[q].step = "delete" => req'[q].step = "delete"
    BY <2>1, <2>2
  <2>4. user'.pw = user.pw /\ (Exempt => Exempt')
    BY <1>f, <2>1, <2>3, KeepsAccounts
  <2>5. Accounted(req[r].origin, user.pw)
    BY <2>1 DEF OldInv, Carrying
  <2>6. \A c \in Chals : chal'[c].open =>
          (chal[c].open /\ chal'[c].origin = chal[c].origin) \/ chal'[c].origin = req[r].origin
    <3>1. CASE UNCHANGED chal
      BY <3>1
    <3>2. CASE chal' = FailedCode
      BY <3>2, FailedCodeKeeps
    <3>3. ASSUME NEW c \in Chals,
                 chal' = [chal EXCEPT ![c] = [open |-> TRUE, tries |-> 0, guesses |-> 0,
                                              origin |-> req[r].origin]]
          PROVE  \A x \in Chals : chal'[x].open =>
                   (chal[x].open /\ chal'[x].origin = chal[x].origin) \/ chal'[x].origin = req[r].origin
      BY <3>3 DEF TypeOK
    <3> QED BY <1>3, <3>1, <3>2, <3>3 DEF CheckMfa
  <2>7. \A c \in Chals : chal'[c].open => Accounted(chal'[c].origin, user'.pw)
    BY <2>4, <2>5, <2>6 DEF OldInv
  <2>8. \A q \in Reqs : req'[q].step \in Carrying => Accounted(req'[q].origin, user'.pw)
    BY <1>s, <2>2, <2>4, <2>5 DEF OldInv
  <2>9. \A q \in Reqs : req'[q].step = "rotate" => Accounted(req'[q].origin, user'.pw) \/ Exempt'
    BY <1>s, <2>2, <2>4 DEF OldInv
  <2> QED BY <2>1, <2>4, <2>7, <2>8, <2>9 DEF OldInv, Accounted
<1>4. ASSUME NEW c \in Chals, OtpReads(r, c) PROVE OldInv'
  <2>1. PICK rec : Begin(r, rec) /\ rec.step = "code" /\ rec.origin = chal[c].origin
    <3> DEFINE x == [NoReq EXCEPT !.step = "code", !.origin = chal[c].origin, !.chal = {c}]
    <3>1. Begin(r, x)
      BY <1>4 DEF OtpReads
    <3>2. x.step = "code" /\ x.origin = chal[c].origin
      BY DEF NoReq
    <3> QED BY <3>1, <3>2
  <2>2. UNCHANGED <<user, live, chal, faults>> /\ chal[c].open
    BY <1>4 DEF OtpReads
  <2>3. \A q \in Reqs : req'[q] = IF q = r THEN rec ELSE req[q]
    BY <2>1, RequestSteps
  <2>4. \A q \in Reqs : req[q].step = "delete" => req'[q].step = "delete"
    BY <2>1, <2>3, RequestSteps
  <2>5. user'.pw = user.pw /\ (Exempt => Exempt')
    BY <1>f, <2>2, <2>4, KeepsAccounts
  <2>6. Accounted(rec.origin, user'.pw)
    BY <2>1, <2>2, <2>5 DEF OldInv
  <2> QED BY <2>1, <2>2, <2>3, <2>5, <2>6 DEF OldInv, Carrying
<1>5. ASSUME OtpSucceeds(r) \/ ClearFailures(r) PROVE OldInv'
  <2>1. user'.pw = user.pw /\ UNCHANGED <<live, chal, faults>> /\ req[r].step \in Carrying
    BY <1>5 DEF OtpSucceeds, ClearFailures, TypeOK, Carrying
  <2>2. PICK step \in Carrying : Goto(r, step)
    BY <1>5 DEF OtpSucceeds, ClearFailures, Carrying
  <2>3. \A q \in Reqs : /\ req'[q].step = IF q = r THEN step ELSE req[q].step
                        /\ req'[q].origin = req[q].origin
    BY <1>s, <2>2, RequestSteps
  <2>4. \A q \in Reqs : req[q].step = "delete" => req'[q].step = "delete"
    BY <1>s, <2>1, <2>3
  <2>5. user'.pw = user.pw /\ (Exempt => Exempt')
    BY <1>f, <2>1, <2>4, KeepsAccounts
  <2>6. \A q \in Reqs : req'[q].step \in Carrying => Accounted(req'[q].origin, user'.pw)
    BY <2>1, <2>3, <2>5 DEF OldInv
  <2>7. \A q \in Reqs : req'[q].step = "rotate" => Accounted(req'[q].origin, user'.pw) \/ Exempt'
    BY <1>s, <2>2, <2>3, <2>5 DEF OldInv
  <2> QED BY <2>1, <2>5, <2>6, <2>7 DEF OldInv, Accounted
<1>6. ASSUME OtpFails(r) PROVE OldInv'
  <2>1. UNCHANGED <<user, live>> /\ req[r].step = "code"
    BY <1>6 DEF OtpFails
  <2>2. \A q \in Reqs : req'[q] = IF q = r THEN NoReq ELSE req[q]
    BY <1>6, RequestSteps DEF OtpFails
  <2>3. faults' \in Nat /\ faults' >= faults
    BY <1>6, <1>f DEF OtpFails, Fault
  <2>4. \A q \in Reqs : req[q].step = "delete" => req'[q].step = "delete"
    BY <2>1, <2>2
  <2>5. user'.pw = user.pw /\ (Exempt => Exempt')
    BY <2>1, <2>3, <2>4, KeepsAccounts
  <2>6. \A c \in Chals : chal'[c].open = chal[c].open /\ chal'[c].origin = chal[c].origin
    <3>1. PICK logged \in BOOLEAN :
            chal' = [c \in Chals |->
               [(IF logged THEN FailedCode[c] ELSE chal[c]) EXCEPT
                  !.guesses = IF chal[c].open /\ c \in req[r].chal THEN @ + 1 ELSE @]]
      BY <1>6 DEF OtpFails
    <3>2. ASSUME NEW x \in ChalRow, NEW n
          PROVE  [x EXCEPT !.guesses = n].open = x.open /\ [x EXCEPT !.guesses = n].origin = x.origin
      BY DEF ChalRow
    <3>3. \A c \in Chals : FailedCode[c] \in ChalRow /\ chal[c] \in ChalRow
      BY FailedCodeTypes DEF TypeOK, ChalRow
    <3>4. ASSUME NEW c \in Chals
          PROVE  chal'[c].open = chal[c].open /\ chal'[c].origin = chal[c].origin
      <4>1. PICK n : chal'[c] = [(IF logged THEN FailedCode[c] ELSE chal[c]) EXCEPT !.guesses = n]
        BY <3>1
      <4>2. CASE logged
        <5>1. chal'[c] = [FailedCode[c] EXCEPT !.guesses = n]
          BY <4>1, <4>2, Zenon
        <5>2. chal'[c].open = FailedCode[c].open /\ chal'[c].origin = FailedCode[c].origin
          BY <3>2, <3>3, <5>1, Zenon
        <5> QED BY <5>2, FailedCodeKeeps, Zenon
      <4>3. CASE ~logged
        <5>1. chal'[c] = [chal[c] EXCEPT !.guesses = n]
          BY <4>1, <4>3, Zenon
        <5>2. chal[c] \in ChalRow
          BY <3>3
        <5> QED BY <3>2, <5>1, <5>2
      <4> QED BY <4>2, <4>3
    <3> QED BY <3>4
  <2> QED BY <1>s, <1>n, <2>1, <2>2, <2>5, <2>6 DEF OldInv
<1>7. ASSUME CreateSession(r) PROVE OldInv'
  <2>1. UNCHANGED <<user, chal, faults>> /\ req[r].step \in Carrying /\ live' = live \cup {req[r].origin}
    BY <1>7 DEF CreateSession, Carrying
  <2>2. \A q \in Reqs : req'[q] = IF q = r THEN NoReq ELSE req[q]
    BY <1>7, RequestSteps DEF CreateSession
  <2>3. \A q \in Reqs : req[q].step = "delete" => req'[q].step = "delete"
    BY <1>s, <2>1, <2>2
  <2>4. user'.pw = user.pw /\ (Exempt => Exempt')
    BY <1>f, <2>1, <2>3, KeepsAccounts
  <2>5. Accounted(req[r].origin, user.pw)
    BY <2>1 DEF OldInv
  <2> QED BY <1>s, <1>n, <2>1, <2>2, <2>4, <2>5 DEF OldInv
<1> QED BY <1>1, <1>2, <1>3, <1>4, <1>5, <1>6, <1>7 DEF SignIn

\* Whoever was under way when the password changed or the sessions were
\* deleted is marked.
LEMMA PasswordOld ==
  ASSUME TypeOK, OldInv, NEW r \in Reqs, Password(r)
  PROVE  OldInv'
<1>f. faults \in Nat
  BY AccountsAssumption DEF TypeOK, AccountsAssumption
<1>s. "delete" \notin Carrying /\ "rotate" \notin Carrying /\ "none" \notin Carrying
  BY DEF Carrying
<1>n. NoReq.step = "none"
  BY DEF NoReq
<1>t. OvertakeReqs(r) \in [Reqs -> ReqRow]
  BY OvertakeTypes
<1>o. \A q \in Reqs : /\ OvertakeReqs(r)[q].step = req[q].step
                      /\ q # r /\ req[q].step # "none" => OvertakeReqs(r)[q].origin.over
  BY OvertakeKeeps
<1>c. \A c \in Chals : OvertakeChals[c].open => OvertakeChals[c].origin.over
  <2> SUFFICES ASSUME NEW c \in Chals, OvertakeChals[c].open PROVE OvertakeChals[c].origin.over
    OBVIOUS
  <2>1. chal[c] \in ChalRow /\ chal[c].origin \in Origins
    BY DEF TypeOK, ChalRow
  <2>2. CASE chal[c].open
    <3>1. OvertakeChals[c] = [chal[c] EXCEPT !.origin = Overtaken(chal[c].origin)]
      BY <2>2 DEF OvertakeChals
    <3>2. Overtaken(chal[c].origin).over
      BY <2>1 DEF Overtaken, Origins
    <3> QED BY <2>1, <3>1, <3>2 DEF ChalRow
  <2>3. CASE ~chal[c].open
    BY <2>3 DEF OvertakeChals
  <2> QED BY <2>2, <2>3
<1>1. ASSUME (\E l \in Links : ResetReads(r, l)) \/ ChangeReads(r) PROVE OldInv'
  <2>1. PICK rec : Begin(r, rec) /\ rec.step \in {"reset", "change"}
    <3>1. CASE ChangeReads(r)
      <4> DEFINE x == [NoReq EXCEPT !.step = "change"]
      <4>1. Begin(r, x) /\ x.step = "change"
        BY <3>1 DEF ChangeReads, NoReq
      <4> QED BY <4>1
    <3>2. ASSUME NEW l \in Links, ResetReads(r, l)
          PROVE  \E rec : Begin(r, rec) /\ rec.step \in {"reset", "change"}
      <4> DEFINE x == [NoReq EXCEPT !.step = "reset", !.link = {l}]
      <4>1. Begin(r, x) /\ x.step = "reset"
        BY <3>2 DEF ResetReads, NoReq
      <4> QED BY <4>1
    <3> QED BY <1>1, <3>1, <3>2
  <2>2. UNCHANGED <<user, live, chal, faults>>
    BY <1>1 DEF ResetReads, ChangeReads
  <2>3. \A q \in Reqs : req'[q] = IF q = r THEN rec ELSE req[q]
    BY <2>1, RequestSteps
  <2>4. \A q \in Reqs : req[q].step = "delete" => req'[q].step = "delete"
    BY <2>1, <2>3, RequestSteps
  <2>5. user'.pw = user.pw /\ (Exempt => Exempt')
    BY <1>f, <2>2, <2>4, KeepsAccounts
  <2> QED BY <2>1, <2>2, <2>3, <2>5 DEF OldInv, Carrying
<1>2. ASSUME ResetPassword(r) PROVE OldInv'
  <2>1. live' = {} /\ chal' = OvertakeChals
    BY <1>2 DEF ResetPassword
  <2>2. \A q \in Reqs : req'[q] = IF q = r THEN NoReq ELSE OvertakeReqs(r)[q]
    BY <1>2, <1>t DEF ResetPassword
  <2>3. \A q \in Reqs : req'[q].step # "none" => req'[q].origin.over
    BY <2>2, <1>n, <1>o
  <2> QED BY <1>s, <1>c, <2>1, <2>3 DEF OldInv, Accounted
<1>3. ASSUME ChangePassword(r) PROVE OldInv'
  <2>1. chal' = OvertakeChals
    BY <1>3 DEF ChangePassword
  <2>2. \A q \in Reqs : /\ q # r => req'[q] = OvertakeReqs(r)[q]
                        /\ q = r => req'[q].step = "delete"
    BY <1>3, <1>t DEF ChangePassword, ReqRow
  <2>3. Exempt'
    BY <2>2 DEF Exempt
  <2>4. \A q \in Reqs : req'[q].step \in Carrying => req'[q].origin.over
    BY <2>2, <1>o, <1>s
  <2> QED BY <1>c, <2>1, <2>3, <2>4 DEF OldInv, Accounted
<1>4. ASSUME DeleteSessions(r) PROVE OldInv'
  <2>1. live' = {} /\ chal' = chal /\ user' = user
    BY <1>4 DEF DeleteSessions
  <2>2. \A q \in Reqs : req'[q] = IF q = r THEN NoReq ELSE OvertakeReqs(r)[q]
    BY <1>4, <1>t DEF DeleteSessions
  <2>3. \A q \in Reqs : req'[q].step # "none" => req'[q].origin.over
    BY <2>2, <1>n, <1>o
  <2> QED BY <1>s, <2>1, <2>3 DEF OldInv, Accounted
<1> QED BY <1>1, <1>2, <1>3, <1>4 DEF Password

\* Every step keeps the accounts.
LEMMA NextOld == TypeOK /\ OldInv /\ [Next]_vars => OldInv'
<1> SUFFICES ASSUME TypeOK, OldInv, [Next]_vars PROVE OldInv'
  OBVIOUS
<1>f. faults \in Nat
  BY AccountsAssumption DEF TypeOK, AccountsAssumption
<1>s. "delete" \notin Carrying /\ "rotate" \notin Carrying /\ "none" \notin Carrying /\ "revoke" \notin Carrying
  BY DEF Carrying
<1>n. NoReq.step = "none"
  BY DEF NoReq
<1>1. ASSUME NEW r \in Reqs, SignIn(r) \/ Password(r) PROVE OldInv'
  BY <1>1, SignInOld, PasswordOld
<1>2. ASSUME NEW r \in Reqs, RequestFails(r) PROVE OldInv'
  <2>1. Exempt' /\ UNCHANGED <<user, live, chal>>
    BY <1>2, <1>f DEF RequestFails, Fault, Exempt
  <2>2. \A q \in Reqs : req'[q] = IF q = r THEN NoReq ELSE req[q]
    BY <1>2, RequestSteps DEF RequestFails
  <2> QED BY <1>s, <1>n, <2>1, <2>2 DEF OldInv
<1>3. ASSUME NEW r \in Reqs, NEW o \in live, RefreshReads(r, o) PROVE OldInv'
  <2>1. UNCHANGED <<user, chal, faults>> /\ live' \subseteq live
    BY <1>3 DEF RefreshReads, Without
  <2>2. CASE user.status = "ACTIVE"
    <3> DEFINE x == [NoReq EXCEPT !.step = "rotate", !.origin = o]
    <3>1. Begin(r, x) /\ x.step = "rotate" /\ x.origin = o
      BY <1>3, <2>2 DEF RefreshReads, NoReq
    <3> HIDE DEF x
    <3>2. \A q \in Reqs : req'[q] = IF q = r THEN x ELSE req[q]
      BY <3>1, RequestSteps
    <3>3. \A q \in Reqs : req[q].step = "delete" => req'[q].step = "delete"
      BY <3>1, <3>2, RequestSteps
    <3>4. user'.pw = user.pw /\ (Exempt => Exempt')
      BY <1>f, <2>1, <3>3, KeepsAccounts
    <3> QED BY <1>s, <2>1, <3>1, <3>2, <3>4 DEF OldInv
  <2>3. CASE user.status # "ACTIVE"
    <3>1. UNCHANGED req
      BY <1>3, <2>3 DEF RefreshReads
    <3>2. user'.pw = user.pw /\ (Exempt => Exempt')
      BY <1>f, <2>1, <3>1, KeepsAccounts
    <3> QED BY <2>1, <3>1, <3>2 DEF OldInv
  <2> QED BY <2>2, <2>3
<1>4. ASSUME NEW r \in Reqs, Rotate(r) PROVE OldInv'
  <2>1. /\ UNCHANGED <<user, chal, faults>>
        /\ live' \subseteq live \cup {req[r].origin}
        /\ req[r].step = "rotate"
    BY <1>4 DEF Rotate, Without
  <2>2. \A q \in Reqs : req'[q] = IF q = r THEN NoReq ELSE req[q]
    BY <1>4, RequestSteps DEF Rotate
  <2>3. \A q \in Reqs : req[q].step = "delete" => req'[q].step = "delete"
    BY <2>1, <2>2
  <2>4. user'.pw = user.pw /\ (Exempt => Exempt')
    BY <1>f, <2>1, <2>3, KeepsAccounts
  <2> QED BY <1>s, <1>n, <2>1, <2>2, <2>4 DEF OldInv
<1>5. ASSUME NEW r \in Reqs, NEW s \in Statuses \ {"PENDING"}, UpdateUserStatus(r, s) PROVE OldInv'
  <2>1. user'.pw = user.pw /\ UNCHANGED <<live, chal, faults>>
    BY <1>5 DEF UpdateUserStatus, TypeOK
  <2>2. \A q \in Reqs : \/ req'[q] = req[q]
                        \/ req'[q].step = "revoke" /\ req[q].step = "none"
    <3> DEFINE x == [NoReq EXCEPT !.step = "revoke"]
    <3>1. x.step = "revoke"
      BY DEF NoReq
    <3>2. Begin(r, x) \/ UNCHANGED req
      BY <1>5 DEF UpdateUserStatus
    <3> HIDE DEF x
    <3> QED BY <3>1, <3>2, RequestSteps
  <2>3. \A q \in Reqs : req[q].step = "delete" => req'[q].step = "delete"
    BY <2>2
  <2>4. user'.pw = user.pw /\ (Exempt => Exempt')
    BY <1>f, <2>1, <2>3, KeepsAccounts
  <2> QED BY <1>s, <2>1, <2>2, <2>4 DEF OldInv
<1>6. ASSUME NEW r \in Reqs, RevokeSessions(r) PROVE OldInv'
  <2>1. live' = {} /\ UNCHANGED <<user, chal, faults>> /\ req[r].step = "revoke"
    BY <1>6 DEF RevokeSessions
  <2>2. \A q \in Reqs : req'[q] = IF q = r THEN NoReq ELSE req[q]
    BY <1>6, RequestSteps DEF RevokeSessions
  <2>3. \A q \in Reqs : req[q].step = "delete" => req'[q].step = "delete"
    BY <2>1, <2>2
  <2>4. user'.pw = user.pw /\ (Exempt => Exempt')
    BY <1>f, <2>1, <2>3, KeepsAccounts
  <2> QED BY <1>s, <1>n, <2>1, <2>2, <2>4 DEF OldInv
<1>7. ASSUME NEW c \in Chals, ChallengeExpires(c) PROVE OldInv'
  <2>1. UNCHANGED <<user, live, req, faults>>
    BY <1>7 DEF ChallengeExpires
  <2>2. \A x \in Chals : chal'[x].open => chal'[x] = chal[x]
    BY <1>7 DEF ChallengeExpires, TypeOK
  <2>3. user'.pw = user.pw /\ (Exempt => Exempt')
    BY <1>f, <2>1, KeepsAccounts
  <2> QED BY <2>1, <2>2, <2>3 DEF OldInv
<1>8. ASSUME user'.pw = user.pw, live' \subseteq live, UNCHANGED <<chal, req, faults>> PROVE OldInv'
  <2>1. user'.pw = user.pw /\ (Exempt => Exempt')
    BY <1>f, <1>8, KeepsAccounts
  <2> QED BY <1>8, <2>1 DEF OldInv
<1>9. ASSUME \/ \E o \in live : SessionEnds(o)
             \/ LockExpires
             \/ \E l \in Links, admin \in BOOLEAN : IssueLink(l, admin)
             \/ \E m \in {"off", "pending", "on"} : SetMfa(m)
             \/ \E approve \in BOOLEAN : DecideUser(approve)
             \/ UNCHANGED vars
      PROVE  user'.pw = user.pw /\ live' \subseteq live /\ UNCHANGED <<chal, req, faults>>
  BY <1>9 DEF SessionEnds, LockExpires, IssueLink, SetMfa, DecideUser, vars, TypeOK
<1> QED BY <1>1, <1>2, <1>3, <1>4, <1>5, <1>6, <1>7, <1>8, <1>9 DEF Next

\* Sessions of an earlier password are left only by requests the change
\* overtook, between the statements of changePassword, or after a failure,
\* for any number of requests and challenges.
THEOREM OldSessions == Spec => []OldSessionsOvertaken
<1>1. Init => OldInv
  BY DEF Init, OldInv, Accounted, Carrying, NoReq
<1>2. OldInv => OldSessionsOvertaken
  BY DEF OldInv, OldSessionsOvertaken, Accounted, Exempt
<1> QED BY <1>1, <1>2, NextOld, AccountTypes, PTL DEF Spec
-----------------------------------------------------------------------------
(* Codes tried against a challenge.                                         *)

\* Requests that have read how many codes a challenge was tried with and have
\* not compared theirs yet.
Guessing(c) == {r \in Reqs : req[r].step = "code" /\ c \in req[r].chal}

\* The codes refused and those still to be compared; below the limit every
\* refused code was counted or its log failed.
GuessOK(c) ==
  /\ chal[c].guesses + Cardinality(Guessing(c)) <= MaxOtp + Cardinality(Reqs) - 1 + faults
  /\ chal[c].tries <= MaxOtp => chal[c].guesses <= chal[c].tries + faults

GuessInv == \A c \in Chals : GuessOK(c)

\* The numbers of a challenge.
LEMMA GuessNumbers ==
  ASSUME TypeOK, NEW c \in Chals
  PROVE  /\ chal[c].guesses \in Nat /\ chal[c].tries \in Nat /\ faults \in Nat
         /\ MaxOtp \in Nat /\ MaxOtp >= 1 /\ Cardinality(Reqs) \in Nat
         /\ IsFiniteSet(Guessing(c)) /\ Cardinality(Guessing(c)) \in Nat
         /\ Cardinality(Guessing(c)) <= Cardinality(Reqs)
<1>1. chal[c] \in ChalRow
  BY DEF TypeOK, ChalRow
<1>2. chal[c].guesses \in Nat /\ chal[c].tries \in Nat /\ faults \in Nat /\ MaxOtp \in Nat /\ MaxOtp >= 1
  BY <1>1, AccountsAssumption DEF TypeOK, ChalRow
<1>3. Guessing(c) \in SUBSET Reqs
  BY DEF Guessing
<1> QED BY <1>2, <1>3, AccountsAssumption, FS_Subset, FS_CardinalityType

\* A challenge that is new or gone.
LEMMA GuessReset ==
  ASSUME TypeOK', NEW c \in Chals, chal'[c].guesses = 0
  PROVE  GuessOK(c)'
<1>1. /\ chal'[c].tries \in Nat /\ faults' \in Nat
      /\ MaxOtp \in Nat /\ MaxOtp >= 1 /\ Cardinality(Reqs) \in Nat
      /\ Cardinality(Guessing(c)') \in Nat /\ Cardinality(Guessing(c)') <= Cardinality(Reqs)
  <2>1. Guessing(c)' \in SUBSET Reqs /\ chal'[c] \in ChalRow
    BY DEF Guessing, TypeOK, ChalRow
  <2>2. chal'[c].tries \in Nat /\ faults' \in Nat /\ MaxOtp \in Nat /\ MaxOtp >= 1
    BY <2>1, AccountsAssumption DEF TypeOK, ChalRow
  <2> QED BY <2>1, <2>2, AccountsAssumption, FS_Subset, FS_CardinalityType
<1> QED BY <1>1 DEF GuessOK

\* No request begins to guess, and the failures counted do not go back.
LEMMA GuessKept ==
  ASSUME TypeOK, TypeOK', NEW c \in Chals, GuessOK(c), faults <= faults',
         Guessing(c)' \subseteq Guessing(c), chal'[c].guesses = chal[c].guesses,
         chal'[c].tries <= MaxOtp => chal[c].tries <= chal'[c].tries
  PROVE  GuessOK(c)'
<1>1. /\ chal[c].guesses \in Nat /\ chal[c].tries \in Nat /\ faults \in Nat
      /\ MaxOtp \in Nat /\ Cardinality(Reqs) \in Nat
      /\ IsFiniteSet(Guessing(c)) /\ Cardinality(Guessing(c)) \in Nat
  BY GuessNumbers
<1>2. chal'[c].tries \in Nat /\ faults' \in Nat
  <2>1. chal'[c] \in ChalRow
    BY DEF TypeOK, ChalRow
  <2> QED BY <2>1, AccountsAssumption DEF TypeOK, ChalRow
<1>3. /\ Cardinality(Guessing(c)') \in Nat
      /\ Cardinality(Guessing(c)') <= Cardinality(Guessing(c))
  BY <1>1, FS_Subset, FS_CardinalityType
<1>4. /\ chal[c].guesses + Cardinality(Guessing(c)) <= MaxOtp + Cardinality(Reqs) - 1 + faults
      /\ chal[c].tries <= MaxOtp => chal[c].guesses <= chal[c].tries + faults
  BY DEF GuessOK
<1>5. chal'[c].guesses + Cardinality(Guessing(c)') <= MaxOtp + Cardinality(Reqs) - 1 + faults'
  BY <1>1, <1>2, <1>3, <1>4
<1>6. chal'[c].tries <= MaxOtp => chal'[c].guesses <= chal'[c].tries + faults'
  BY <1>1, <1>2, <1>4
<1> QED BY <1>5, <1>6 DEF GuessOK

\* A code is refused: a request less guesses, and the failure is counted or a
\* fault.
LEMMA GuessCounted ==
  ASSUME TypeOK, TypeOK', NEW c \in Chals, GuessOK(c), NEW r \in Guessing(c),
         Guessing(c)' = Guessing(c) \ {r}, chal'[c].guesses = chal[c].guesses + 1,
         \/ faults' = faults /\ (chal'[c].tries <= MaxOtp => chal'[c].tries = chal[c].tries + 1)
         \/ faults' = faults + 1 /\ chal'[c].tries = chal[c].tries
  PROVE  GuessOK(c)'
<1>1. /\ chal[c].guesses \in Nat /\ chal[c].tries \in Nat /\ faults \in Nat
      /\ MaxOtp \in Nat /\ Cardinality(Reqs) \in Nat
      /\ IsFiniteSet(Guessing(c)) /\ Cardinality(Guessing(c)) \in Nat
  BY GuessNumbers
<1>2. Cardinality(Guessing(c)') = Cardinality(Guessing(c)) - 1
  BY <1>1, FS_RemoveElement
<1>3. /\ chal[c].guesses + Cardinality(Guessing(c)) <= MaxOtp + Cardinality(Reqs) - 1 + faults
      /\ chal[c].tries <= MaxOtp => chal[c].guesses <= chal[c].tries + faults
  BY DEF GuessOK
<1>4. chal'[c].guesses + Cardinality(Guessing(c)') <= MaxOtp + Cardinality(Reqs) - 1 + faults'
  BY <1>1, <1>2, <1>3
<1>5. chal'[c].tries <= MaxOtp => chal'[c].guesses <= chal'[c].tries + faults'
  BY <1>1, <1>3
<1> QED BY <1>4, <1>5 DEF GuessOK

\* A request that begins to guess found the count below the limit.
LEMMA GuessBegins ==
  ASSUME TypeOK, TypeOK', NEW c \in Chals, GuessOK(c), UNCHANGED <<chal, faults>>, chal[c].tries < MaxOtp
  PROVE  GuessOK(c)'
<1>1. /\ chal[c].guesses \in Nat /\ chal[c].tries \in Nat /\ faults \in Nat
      /\ MaxOtp \in Nat /\ Cardinality(Reqs) \in Nat
  BY GuessNumbers
<1>2. Cardinality(Guessing(c)') \in Nat /\ Cardinality(Guessing(c)') <= Cardinality(Reqs)
  <2>1. Guessing(c)' \in SUBSET Reqs
    BY DEF Guessing
  <2> QED BY <2>1, AccountsAssumption, FS_Subset, FS_CardinalityType
<1>3. chal[c].guesses <= chal[c].tries + faults
  BY <1>1 DEF GuessOK
<1> QED BY <1>1, <1>2, <1>3 DEF GuessOK

\* No request begins to guess.
NoNewGuess ==
  \A q \in Reqs : req'[q].step = "code" => req[q].step = "code" /\ req'[q].chal = req[q].chal

\* A request that begins with another step, ends or goes on to another.
LEMMA RequestGuess ==
  ASSUME TypeOK, NEW r \in Reqs
  PROVE  /\ \A rec : Begin(r, rec) /\ rec.step # "code" => NoNewGuess
         /\ End(r) => NoNewGuess
         /\ \A step \in Steps \ {"code"} : Goto(r, step) => NoNewGuess
<1>1. req \in [Reqs -> ReqRow] /\ NoReq.step = "none"
  BY DEF TypeOK, ReqRow, NoReq
<1>2. ASSUME NEW rec, Begin(r, rec), rec.step # "code" PROVE NoNewGuess
  BY <1>1, <1>2 DEF Begin, NoNewGuess
<1>3. ASSUME End(r) PROVE NoNewGuess
  BY <1>1, <1>3 DEF End, NoNewGuess
<1>4. ASSUME NEW step \in Steps \ {"code"}, Goto(r, step) PROVE NoNewGuess
  BY <1>1, <1>4 DEF Goto, NoNewGuess, ReqRow
<1> QED BY <1>2, <1>3, <1>4

\* The challenges and the failures logged stay as they are.
LEMMA QuietGuess ==
  ASSUME TypeOK, TypeOK', GuessInv, NoNewGuess, faults <= faults',
         \A c \in Chals :
           \/ chal'[c].guesses = 0
           \/ /\ chal'[c].guesses = chal[c].guesses
              /\ chal'[c].tries <= MaxOtp => chal[c].tries <= chal'[c].tries
  PROVE  GuessInv'
<1>1. ASSUME NEW c \in Chals PROVE GuessOK(c)'
  <2>1. GuessOK(c) /\ Guessing(c)' \subseteq Guessing(c)
    BY DEF GuessInv, NoNewGuess, Guessing
  <2> QED BY <2>1, GuessReset, GuessKept
<1> QED BY <1>1 DEF GuessInv

\* A refused code that is logged: guesses stay, failures grow up to the cap.
LEMMA FailedCodeCounts ==
  ASSUME TypeOK, NEW c \in Chals
  PROVE  /\ FailedCode[c].guesses = chal[c].guesses
         /\ FailedCode[c].tries <= MaxOtp => chal[c].tries <= FailedCode[c].tries
         /\ chal[c].open /\ FailedCode[c].tries <= MaxOtp => FailedCode[c].tries = chal[c].tries + 1
<1>1. chal[c] \in ChalRow /\ chal[c].tries \in Nat /\ MaxOtp \in Nat
  BY GuessNumbers DEF TypeOK, ChalRow
<1>2. CASE chal[c].open
  <2>1. FailedCode[c] = [chal[c] EXCEPT !.tries = AtMost(chal[c].tries + 1, MaxOtp + 1)]
    BY <1>2 DEF FailedCode
  <2>2. /\ FailedCode[c].guesses = chal[c].guesses
        /\ FailedCode[c].tries = AtMost(chal[c].tries + 1, MaxOtp + 1)
    BY <1>1, <2>1 DEF ChalRow
  <2>3. AtMost(chal[c].tries + 1, MaxOtp + 1) \in {chal[c].tries + 1, MaxOtp + 1}
    BY DEF AtMost
  <2> QED BY <1>1, <2>2, <2>3
<1>3. CASE ~chal[c].open
  BY <1>1, <1>3 DEF FailedCode
<1> QED BY <1>2, <1>3

\* What a refused code does to a challenge.
LEMMA RefusedCode ==
  ASSUME TypeOK, NEW r \in Reqs, OtpFails(r), NEW c \in Chals
  PROVE  /\ chal'[c].guesses = IF chal[c].open /\ c \in req[r].chal THEN chal[c].guesses + 1
                               ELSE chal[c].guesses
         /\ \/ faults' = faults /\ chal'[c].tries = FailedCode[c].tries
            \/ faults' = faults + 1 /\ chal'[c].tries = chal[c].tries
<1>1. PICK logged \in BOOLEAN :
        /\ IF logged THEN UNCHANGED faults ELSE Fault
        /\ chal' = [x \in Chals |->
             [(IF logged THEN FailedCode[x] ELSE chal[x]) EXCEPT
                !.guesses = IF chal[x].open /\ x \in req[r].chal THEN @ + 1 ELSE @]]
  BY DEF OtpFails
<1>2. FailedCode[c] \in ChalRow /\ chal[c] \in ChalRow /\ FailedCode[c].guesses = chal[c].guesses
  BY FailedCodeTypes, FailedCodeCounts DEF TypeOK, ChalRow
<1>3. ASSUME NEW x \in ChalRow, NEW n
      PROVE  [x EXCEPT !.guesses = n].guesses = n /\ [x EXCEPT !.guesses = n].tries = x.tries
  BY DEF ChalRow
<1>4. PICK row : row = IF logged THEN FailedCode[c] ELSE chal[c]
  OBVIOUS
<1>5. PICK n : /\ chal'[c] = [row EXCEPT !.guesses = n]
               /\ n = IF chal[c].open /\ c \in req[r].chal THEN row.guesses + 1 ELSE row.guesses
  BY <1>1, <1>4
<1>6. /\ row \in ChalRow /\ row.guesses = chal[c].guesses
      /\ \/ faults' = faults /\ row.tries = FailedCode[c].tries
         \/ faults' = faults + 1 /\ row.tries = chal[c].tries
  <2>1. CASE logged
    <3>1. row = FailedCode[c] /\ faults' = faults
      BY <1>1, <1>4, <2>1, Zenon
    <3> QED BY <1>2, <3>1
  <2>2. CASE ~logged
    <3>1. row = chal[c] /\ Fault
      BY <1>1, <1>4, <2>2, Zenon
    <3> QED BY <1>2, <3>1 DEF Fault
  <2> QED BY <2>1, <2>2
<1>7. chal'[c].guesses = n /\ chal'[c].tries = row.tries
  BY <1>3, <1>5, <1>6
<1> QED BY <1>5, <1>6, <1>7

\* Signing in keeps the count of the guesses.
LEMMA SignInGuess ==
  ASSUME TypeOK, TypeOK', GuessInv, NEW r \in Reqs, SignIn(r)
  PROVE  GuessInv'
<1>f. \A c \in Chals : chal[c].tries \in Nat /\ chal[c].guesses \in Nat
  BY GuessNumbers
<1>g. faults \in Nat /\ faults <= faults /\ faults <= faults + 1
  BY AccountsAssumption DEF TypeOK
<1>s. {"clear", "insert"} \subseteq Steps \ {"code"}
  BY DEF Steps
<1>q. ASSUME UNCHANGED <<chal, faults>>, NoNewGuess PROVE GuessInv'
  BY <1>f, <1>g, <1>q, QuietGuess
<1>1. ASSUME NEW right \in BOOLEAN, LoginReads(r, right) PROVE GuessInv'
  <2> DEFINE x == [NoReq EXCEPT !.step = IF right THEN "right" ELSE "wrong",
                                !.origin = [born |-> user.pw, over |-> FALSE],
                                !.seen = user.fails]
  <2>1. Begin(r, x) /\ UNCHANGED <<chal, faults>>
    BY <1>1 DEF LoginReads
  <2>2. x.step # "code"
    BY DEF NoReq
  <2> HIDE DEF x
  <2> QED BY <1>q, <2>1, <2>2, RequestGuess
<1>2. ASSUME LoginFails(r) \/ CreateSession(r) PROVE GuessInv'
  BY <1>2, <1>q, RequestGuess DEF LoginFails, CreateSession
<1>3. ASSUME CheckMfa(r) PROVE GuessInv'
  <2>1. NoNewGuess
    BY <1>3, <1>s, RequestGuess DEF CheckMfa
  <2>2. UNCHANGED faults
    BY <1>3 DEF CheckMfa
  <2>3. CASE UNCHANGED chal
    BY <1>q, <2>1, <2>2, <2>3
  <2>4. CASE chal' = FailedCode
    BY <1>g, <2>1, <2>2, <2>4, FailedCodeCounts, QuietGuess
  <2>5. ASSUME NEW c \in Chals,
               chal' = [chal EXCEPT ![c] = [open |-> TRUE, tries |-> 0, guesses |-> 0,
                                            origin |-> req[r].origin]]
        PROVE  GuessInv'
    <3>1. chal'[c].guesses = 0 /\ \A x \in Chals : x # c => chal'[x] = chal[x]
      BY <2>5 DEF TypeOK
    <3>2. \A x \in Chals : \/ chal'[x].guesses = 0
                           \/ /\ chal'[x].guesses = chal[x].guesses
                              /\ chal'[x].tries <= MaxOtp => chal[x].tries <= chal'[x].tries
      BY <1>f, <3>1
    <3> QED BY <1>g, <2>1, <2>2, <3>2, QuietGuess
  <2> QED BY <1>3, <2>3, <2>4, <2>5 DEF CheckMfa
<1>4. ASSUME NEW c \in Chals, OtpReads(r, c) PROVE GuessInv'
  <2> DEFINE x == [NoReq EXCEPT !.step = "code", !.origin = chal[c].origin, !.chal = {c}]
  <2>1. Begin(r, x) /\ UNCHANGED <<chal, faults>> /\ chal[c].tries < MaxOtp
    BY <1>4 DEF OtpReads
  <2>2. x.chal = {c}
    BY DEF NoReq
  <2> HIDE DEF x
  <2>3. \A q \in Reqs : req'[q] = IF q = r THEN x ELSE req[q]
    BY <2>1, RequestSteps
  <2>4. ASSUME NEW d \in Chals PROVE GuessOK(d)'
    <3>1. GuessOK(d)
      BY DEF GuessInv
    <3>2. CASE d = c
      BY <2>1, <3>1, <3>2, GuessBegins
    <3>3. CASE d # c
      <4>1. Guessing(d)' \subseteq Guessing(d)
        BY <2>2, <2>3, <3>3 DEF Guessing
      <4> QED BY <1>f, <1>g, <2>1, <3>1, <4>1, GuessKept
    <3> QED BY <3>2, <3>3
  <2> QED BY <2>4 DEF GuessInv
<1>5. ASSUME OtpSucceeds(r) \/ ClearFailures(r) PROVE GuessInv'
  BY <1>5, <1>q, <1>s, RequestGuess DEF OtpSucceeds, ClearFailures
<1>6. ASSUME OtpFails(r) PROVE GuessInv'
  <2>1. req[r].step = "code" /\ End(r)
    BY <1>6 DEF OtpFails
  <2>2. \A q \in Reqs : req'[q] = IF q = r THEN NoReq ELSE req[q]
    BY <2>1, RequestSteps
  <2>3. \A c \in Chals : Guessing(c)' = Guessing(c) \ {r}
    BY <2>2 DEF Guessing, NoReq
  <2>4. ASSUME NEW c \in Chals PROVE GuessOK(c)'
    <3>1. GuessOK(c)
      BY DEF GuessInv
    <3>2. /\ chal'[c].guesses = IF chal[c].open /\ c \in req[r].chal THEN chal[c].guesses + 1
                                ELSE chal[c].guesses
          /\ \/ faults' = faults /\ chal'[c].tries = FailedCode[c].tries
             \/ faults' = faults + 1 /\ chal'[c].tries = chal[c].tries
      BY <1>6, RefusedCode
    <3>3. /\ FailedCode[c].tries <= MaxOtp => chal[c].tries <= FailedCode[c].tries
          /\ chal[c].open /\ FailedCode[c].tries <= MaxOtp => FailedCode[c].tries = chal[c].tries + 1
      BY FailedCodeCounts
    <3>4. CASE chal[c].open /\ c \in req[r].chal
      <4>1. r \in Guessing(c) /\ chal'[c].guesses = chal[c].guesses + 1
        BY <2>1, <3>2, <3>4 DEF Guessing
      <4>2. \/ faults' = faults /\ (chal'[c].tries <= MaxOtp => chal'[c].tries = chal[c].tries + 1)
            \/ faults' = faults + 1 /\ chal'[c].tries = chal[c].tries
        BY <3>2, <3>3, <3>4
      <4> QED BY <2>3, <3>1, <4>1, <4>2, GuessCounted
    <3>5. CASE ~(chal[c].open /\ c \in req[r].chal)
      <4>1. Guessing(c)' \subseteq Guessing(c) /\ chal'[c].guesses = chal[c].guesses
        BY <2>3, <3>2, <3>5
      <4>2. faults <= faults' /\ (chal'[c].tries <= MaxOtp => chal[c].tries <= chal'[c].tries)
        BY <1>f, <1>g, <3>2, <3>3
      <4> QED BY <3>1, <4>1, <4>2, GuessKept
    <3> QED BY <3>4, <3>5
  <2> QED BY <2>4 DEF GuessInv
<1> QED BY <1>1, <1>2, <1>3, <1>4, <1>5, <1>6 DEF SignIn

\* Every step keeps the count of the guesses.
LEMMA NextGuess == TypeOK /\ TypeOK' /\ GuessInv /\ [Next]_vars => GuessInv'
<1> SUFFICES ASSUME TypeOK, TypeOK', GuessInv, [Next]_vars PROVE GuessInv'
  OBVIOUS
<1>f. \A c \in Chals : chal[c].tries \in Nat /\ chal[c].guesses \in Nat
  BY GuessNumbers
<1>g. faults \in Nat /\ faults <= faults /\ faults <= faults + 1
  BY AccountsAssumption DEF TypeOK
<1>q. ASSUME UNCHANGED chal, faults' = faults \/ faults' = faults + 1, NoNewGuess PROVE GuessInv'
  BY <1>f, <1>g, <1>q, QuietGuess
<1>1. ASSUME NEW r \in Reqs, SignIn(r) PROVE GuessInv'
  BY <1>1, SignInGuess
<1>2. ASSUME NEW r \in Reqs, NEW l \in Links, ResetReads(r, l) PROVE GuessInv'
  <2> DEFINE x == [NoReq EXCEPT !.step = "reset", !.link = {l}]
  <2>1. Begin(r, x) /\ UNCHANGED <<chal, faults>> /\ x.step # "code"
    BY <1>2 DEF ResetReads, NoReq
  <2> HIDE DEF x
  <2> QED BY <1>q, <2>1, RequestGuess
<1>3. ASSUME NEW r \in Reqs, ChangeReads(r) PROVE GuessInv'
  <2> DEFINE x == [NoReq EXCEPT !.step = "change"]
  <2>1. Begin(r, x) /\ UNCHANGED <<chal, faults>> /\ x.step # "code"
    BY <1>3 DEF ChangeReads, NoReq
  <2> HIDE DEF x
  <2> QED BY <1>q, <2>1, RequestGuess
<1>4. ASSUME NEW r \in Reqs, ResetPassword(r) \/ ChangePassword(r) \/ DeleteSessions(r) PROVE GuessInv'
  <2>1. OvertakeReqs(r) \in [Reqs -> ReqRow] /\ NoReq.step = "none"
    BY OvertakeTypes DEF NoReq
  <2>2. \A q \in Reqs : q # r => req'[q] = OvertakeReqs(r)[q]
    BY <1>4, <2>1 DEF ResetPassword, ChangePassword, DeleteSessions
  <2>3. req'[r].step # "code"
    <3>1. CASE ResetPassword(r) \/ DeleteSessions(r)
      BY <2>1, <3>1 DEF ResetPassword, DeleteSessions
    <3>2. CASE ChangePassword(r)
      BY <2>1, <3>2 DEF ChangePassword, ReqRow
    <3> QED BY <1>4, <3>1, <3>2
  <2>4. NoNewGuess
    BY <2>2, <2>3, OvertakeKeeps DEF NoNewGuess
  <2>5. UNCHANGED faults
    BY <1>4 DEF ResetPassword, ChangePassword, DeleteSessions
  <2>6. \A c \in Chals : chal'[c].guesses = chal[c].guesses /\ chal'[c].tries = chal[c].tries
    <3>1. UNCHANGED chal \/ chal' = OvertakeChals
      BY <1>4 DEF ResetPassword, ChangePassword, DeleteSessions
    <3>2. ASSUME NEW c \in Chals
          PROVE  OvertakeChals[c].guesses = chal[c].guesses /\ OvertakeChals[c].tries = chal[c].tries
      <4>1. chal[c] \in ChalRow
        BY DEF TypeOK, ChalRow
      <4>2. CASE chal[c].open
        <5>1. OvertakeChals[c] = [chal[c] EXCEPT !.origin = Overtaken(chal[c].origin)]
          BY <4>2 DEF OvertakeChals
        <5> QED BY <4>1, <5>1 DEF ChalRow
      <4>3. CASE ~chal[c].open
        BY <4>3 DEF OvertakeChals
      <4> QED BY <4>2, <4>3
    <3> QED BY <3>1, <3>2
  <2> QED BY <1>f, <1>g, <2>4, <2>5, <2>6, QuietGuess
<1>5. ASSUME NEW r \in Reqs, RequestFails(r) \/ RevokeSessions(r) \/ Rotate(r) PROVE GuessInv'
  BY <1>5, <1>q, RequestGuess DEF RequestFails, RevokeSessions, Rotate, Fault
<1>6. ASSUME NEW r \in Reqs, NEW o \in live, RefreshReads(r, o) PROVE GuessInv'
  <2> DEFINE x == [NoReq EXCEPT !.step = "rotate", !.origin = o]
  <2>1. Begin(r, x) \/ UNCHANGED req
    BY <1>6 DEF RefreshReads
  <2>2. x.step # "code" /\ UNCHANGED <<chal, faults>>
    BY <1>6 DEF NoReq, RefreshReads
  <2> HIDE DEF x
  <2>3. NoNewGuess
    BY <2>1, <2>2, RequestGuess DEF NoNewGuess
  <2> QED BY <1>q, <2>2, <2>3
<1>7. ASSUME NEW r \in Reqs, NEW s \in Statuses \ {"PENDING"}, UpdateUserStatus(r, s) PROVE GuessInv'
  <2> DEFINE x == [NoReq EXCEPT !.step = "revoke"]
  <2>1. Begin(r, x) \/ UNCHANGED req
    BY <1>7 DEF UpdateUserStatus
  <2>2. x.step # "code" /\ UNCHANGED <<chal, faults>>
    BY <1>7 DEF NoReq, UpdateUserStatus
  <2> HIDE DEF x
  <2>3. NoNewGuess
    BY <2>1, <2>2, RequestGuess DEF NoNewGuess
  <2> QED BY <1>q, <2>2, <2>3
<1>8. ASSUME NEW c \in Chals, ChallengeExpires(c) PROVE GuessInv'
  <2>1. UNCHANGED <<req, faults>>
    BY <1>8 DEF ChallengeExpires
  <2>2. chal'[c].guesses = 0 /\ \A x \in Chals : x # c => chal'[x] = chal[x]
    BY <1>8 DEF ChallengeExpires, TypeOK
  <2>3. \A x \in Chals : \/ chal'[x].guesses = 0
                         \/ /\ chal'[x].guesses = chal[x].guesses
                            /\ chal'[x].tries <= MaxOtp => chal[x].tries <= chal'[x].tries
    BY <1>f, <2>2
  <2>4. NoNewGuess
    BY <2>1 DEF NoNewGuess
  <2> QED BY <1>g, <2>1, <2>3, <2>4, QuietGuess
<1>9. ASSUME UNCHANGED <<chal, req, faults>> PROVE GuessInv'
  BY <1>9, <1>q DEF NoNewGuess
<1>10. ASSUME \/ \E o \in live : SessionEnds(o)
              \/ LockExpires
              \/ \E l \in Links, admin \in BOOLEAN : IssueLink(l, admin)
              \/ \E m \in {"off", "pending", "on"} : SetMfa(m)
              \/ \E approve \in BOOLEAN : DecideUser(approve)
              \/ UNCHANGED vars
       PROVE  UNCHANGED <<chal, req, faults>>
  BY <1>10 DEF SessionEnds, LockExpires, IssueLink, SetMfa, DecideUser, vars
<1> QED
  BY <1>1, <1>2, <1>3, <1>4, <1>5, <1>6, <1>7, <1>8, <1>9, <1>10 DEF Next, Password

\* However requests interleave, a challenge takes no more codes than the limit,
\* one for each further request under way and one for each failure to log
\* (verifyOtp).
THEOREM Guesses == Spec => []GuessesBounded
<1>1. Init => GuessInv
  <2> SUFFICES ASSUME Init, NEW c \in Chals PROVE GuessOK(c)
    BY DEF GuessInv
  <2>1. TypeOK /\ chal[c].guesses = 0
    BY InitTypes DEF Init
  <2>2. /\ chal[c].tries \in Nat /\ faults \in Nat
        /\ MaxOtp \in Nat /\ MaxOtp >= 1 /\ Cardinality(Reqs) \in Nat
        /\ Cardinality(Guessing(c)) \in Nat /\ Cardinality(Guessing(c)) <= Cardinality(Reqs)
    BY <2>1, GuessNumbers
  <2> QED BY <2>1, <2>2 DEF GuessOK
<1>2. TypeOK /\ GuessInv => GuessesBounded
  <2> SUFFICES ASSUME TypeOK, GuessInv, NEW c \in Chals
               PROVE  chal[c].guesses <= MaxOtp + Cardinality(Reqs) - 1 + faults
    BY DEF GuessesBounded
  <2>1. /\ chal[c].guesses \in Nat /\ faults \in Nat /\ MaxOtp \in Nat /\ Cardinality(Reqs) \in Nat
        /\ Cardinality(Guessing(c)) \in Nat
    BY GuessNumbers
  <2> QED BY <2>1 DEF GuessInv, GuessOK
<1> QED BY <1>1, <1>2, NextGuess, AccountTypes, PTL DEF Spec
=============================================================================
