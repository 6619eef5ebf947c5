------------------------------- MODULE Accounts -------------------------------
(***************************************************************************)
(* One account of the control plane (control/src/modules/auth): password,  *)
(* failure counter and lock, second factor, sessions, reset links, and the *)
(* administrator's operations on it.  A handler reads the account, compares*)
(* a password or a code, and writes what it concluded in later statements; *)
(* requests interleave between any two of them.                            *)
(*                                                                         *)
(* A password is the number of changes before it.  Sessions of the same    *)
(* origin are not told apart: live is the set of origins for which a       *)
(* session exists.                                                         *)
(***************************************************************************)
EXTENDS Naturals, FiniteSets

CONSTANTS
  Reqs,        \* requests served at one time
  Links,       \* password reset links
  Chals,       \* second-factor challenges
  MaxFailures, \* MAX_LOGIN_FAILURES
  MaxOtp,      \* MAX_OTP_ATTEMPTS
  MaxChanges,  \* bound: password changes
  MaxOps,      \* bound: operations on the account other than signing in
  MaxFaults    \* bound: statements that fail

ASSUME AccountsAssumption ==
  /\ IsFiniteSet(Reqs)
  /\ MaxFailures \in Nat \ {0} /\ MaxOtp \in Nat \ {0}
  /\ MaxChanges \in Nat /\ MaxOps \in Nat /\ MaxFaults \in Nat

VARIABLES
  user,     \* row of iam.users, and whether a TOTP method is enabled
  live,     \* origins of the sessions that are not revoked
  link,     \* reset links: [issued, uses]
  chal,     \* MFA_CHALLENGE events and the MFA_FAILED events since
  req,      \* requests being served
  ops, faults

vars == <<user, live, link, chal, req, ops, faults>>

Passwords == 0 .. MaxChanges
Statuses == {"PENDING", "ACTIVE", "SUSPENDED"}

\* Where a session comes from: the password that was compared, and whether the
\* request (or the challenge before it) was under way when it was changed.
Origins == [born : Passwords, over : BOOLEAN]

Steps == {"none", "wrong", "right", "code", "clear", "insert", "rotate",
          "reset", "change", "delete", "revoke"}

NoReq == [step |-> "none", origin |-> [born |-> 0, over |-> FALSE], seen |-> 0,
          link |-> {}, chal |-> {}]

\* The account just registered: PENDING, with the session of the registration.
Init ==
  /\ user = [status |-> "PENDING", pw |-> 0, fails |-> 0, locked |-> FALSE, mfa |-> "off"]
  /\ live = {[born |-> 0, over |-> FALSE]}
  /\ link = [l \in Links |-> [issued |-> FALSE, uses |-> 0]]
  /\ chal = [c \in Chals |-> [open |-> FALSE, tries |-> 0, guesses |-> 0,
                              origin |-> [born |-> 0, over |-> FALSE]]]
  /\ req = [r \in Reqs |-> NoReq]
  /\ ops = 0 /\ faults = 0

Op == ops < MaxOps /\ ops' = ops + 1
Fault == faults < MaxFaults /\ faults' = faults + 1

AtMost(n, m) == IF n < m THEN n ELSE m

Begin(r, rec) == req[r] = NoReq /\ req' = [req EXCEPT ![r] = rec]
End(r) == req' = [req EXCEPT ![r] = NoReq]
Goto(r, step) == req' = [req EXCEPT ![r].step = step]

-----------------------------------------------------------------------------
(* login and verifyOtp.                                                     *)

\* The row is read; a locked or inactive account is refused.  The password is
\* compared with the hash that was read.
LoginReads(r, right) ==
  /\ ~user.locked /\ user.status = "ACTIVE"
  /\ Begin(r, [NoReq EXCEPT !.step = IF right THEN "right" ELSE "wrong",
                            !.origin = [born |-> user.pw, over |-> FALSE],
                            !.seen = user.fails])
  /\ UNCHANGED <<user, live, link, chal, ops, faults>>

\* The counter is written from the value read: failed_login_count and
\* locked_until both, so an attempt below the limit also unlocks.
LoginFails(r) ==
  /\ req[r].step = "wrong"
  /\ LET n == req[r].seen + 1
     IN  user' = [user EXCEPT !.fails = AtMost(n, MaxFailures), !.locked = (n >= MaxFailures)]
  /\ End(r)
  /\ UNCHANGED <<live, link, chal, ops, faults>>

\* MFA_FAILED counts against every challenge that is open.
FailedCode == [c \in Chals |-> IF chal[c].open THEN [chal[c] EXCEPT !.tries = AtMost(@ + 1, MaxOtp + 1)]
                                               ELSE chal[c]]

\* The second factor: none is enabled or a valid code came along; a remembered
\* device stands for it; the code is refused; or a challenge is issued.
CheckMfa(r) ==
  /\ req[r].step = "right"
  /\ \/ Goto(r, "clear") /\ UNCHANGED chal
     \/ user.mfa = "on" /\ Goto(r, "insert") /\ UNCHANGED chal
     \/ user.mfa = "on" /\ chal' = FailedCode /\ End(r)
     \/ /\ user.mfa = "on"
        /\ \E c \in Chals :
             /\ ~chal[c].open
             /\ chal' = [chal EXCEPT ![c] = [open |-> TRUE, tries |-> 0, guesses |-> 0,
                                             origin |-> req[r].origin]]
        /\ End(r)
  /\ UNCHANGED <<user, live, link, ops, faults>>

\* Mutant: one attempt too many.
OtpReadsOneMore(r, c) ==
  /\ chal[c].open /\ user.mfa = "on" /\ chal[c].tries <= MaxOtp
  /\ Begin(r, [NoReq EXCEPT !.step = "code", !.origin = chal[c].origin, !.chal = {c}])
  /\ UNCHANGED <<user, live, link, chal, ops, faults>>

\* verifyOtp: the challenge, the method and the failures so far are read; the
\* account's status and password are not.
OtpReads(r, c) ==
  /\ chal[c].open /\ user.mfa = "on" /\ chal[c].tries < MaxOtp
  /\ Begin(r, [NoReq EXCEPT !.step = "code", !.origin = chal[c].origin, !.chal = {c}])
  /\ UNCHANGED <<user, live, link, chal, ops, faults>>

OtpSucceeds(r) ==
  /\ req[r].step = "code"
  /\ Goto(r, "clear")
  /\ UNCHANGED <<user, live, link, chal, ops, faults>>

\* A refused code is logged; a log that fails is swallowed.
OtpFails(r) ==
  /\ req[r].step = "code"
  /\ \E logged \in BOOLEAN :
       /\ IF logged THEN UNCHANGED faults ELSE Fault
       /\ chal' = [c \in Chals |->
            [(IF logged THEN FailedCode[c] ELSE chal[c]) EXCEPT
               !.guesses = IF chal[c].open /\ c \in req[r].chal THEN @ + 1 ELSE @]]
  /\ End(r)
  /\ UNCHANGED <<user, live, link, ops>>

\* Ten minutes have passed; no request of the challenge takes as long.
ChallengeExpires(c) ==
  /\ chal[c].open
  /\ \A r \in Reqs : c \notin req[r].chal
  /\ chal' = [chal EXCEPT ![c] = [@ EXCEPT !.open = FALSE, !.tries = 0, !.guesses = 0,
                                           !.origin = [born |-> 0, over |-> FALSE]]]
  /\ UNCHANGED <<user, live, link, req, ops, faults>>

\* failed_login_count = 0, locked_until = null.
ClearFailures(r) ==
  /\ req[r].step = "clear"
  /\ user' = [user EXCEPT !.fails = 0, !.locked = FALSE]
  /\ Goto(r, "insert")
  /\ UNCHANGED <<live, link, chal, ops, faults>>

CreateSession(r) ==
  /\ req[r].step = "insert"
  /\ live' = live \cup {req[r].origin}
  /\ End(r)
  /\ UNCHANGED <<user, link, chal, ops, faults>>

\* Fifteen minutes have passed; the counter stays where it is.
LockExpires ==
  /\ user.locked
  /\ user' = [user EXCEPT !.locked = FALSE]
  /\ UNCHANGED <<live, link, chal, req, ops, faults>>

-----------------------------------------------------------------------------
(* refresh and logout.                                                      *)

\* Another session of the same origin may remain when one goes.
Without(o) == {live, live \ {o}}

\* The row is locked; with an inactive account it is revoked.
RefreshReads(r, o) ==
  /\ o \in live
  /\ IF user.status = "ACTIVE"
     THEN Begin(r, [NoReq EXCEPT !.step = "rotate", !.origin = o]) /\ UNCHANGED live
     ELSE live' \in Without(o) /\ UNCHANGED req
  /\ UNCHANGED <<user, link, chal, ops, faults>>

\* The row inserted was not there for a statement that revoked all others.
Rotate(r) ==
  /\ req[r].step = "rotate"
  /\ \E o \in {req[r].origin, [req[r].origin EXCEPT !.over = FALSE]} : \E rest \in Without(o) :
       live' = rest \cup {req[r].origin}
  /\ End(r)
  /\ UNCHANGED <<user, link, chal, ops, faults>>

\* A session expires, its family is revoked after a reuse, or it is lost.
SessionEnds(o) ==
  /\ o \in live
  /\ live' = live \ {o}
  /\ UNCHANGED <<user, link, chal, req, ops, faults>>

-----------------------------------------------------------------------------
(* Passwords.                                                               *)

\* forgotPassword for an ACTIVE account, or the administrator's link, which
\* unlocks the account whatever its status.
IssueLink(l, admin) ==
  /\ Op
  /\ ~link[l].issued
  /\ admin \/ user.status = "ACTIVE"
  /\ link' = [link EXCEPT ![l].issued = TRUE]
  /\ user' = IF admin THEN [user EXCEPT !.fails = 0, !.locked = FALSE] ELSE user
  /\ UNCHANGED <<live, chal, req, faults>>

\* Requests and challenges that compared the password before it changed.
Overtaken(o) == [o EXCEPT !.over = TRUE]
OvertakeReqs(r) ==
  [q \in Reqs |-> IF q # r /\ req[q].step # "none"
                  THEN [req[q] EXCEPT !.origin = Overtaken(@)] ELSE req[q]]
OvertakeChals ==
  [c \in Chals |-> IF chal[c].open THEN [chal[c] EXCEPT !.origin = Overtaken(@)] ELSE chal[c]]

\* Mutant: the link is looked up without the lock on its jti.
ResetReadsUnlocked(r, l) ==
  /\ link[l].issued /\ link[l].uses = 0
  /\ user.status = "ACTIVE"
  /\ Begin(r, [NoReq EXCEPT !.step = "reset", !.link = {l}])
  /\ UNCHANGED <<user, live, link, chal, ops, faults>>

\* The lock on the jti is held to the end of the transaction.
ResetReads(r, l) ==
  /\ link[l].issued
  /\ \A q \in Reqs : l \notin req[q].link
  /\ link[l].uses = 0
  /\ user.status = "ACTIVE"
  /\ Begin(r, [NoReq EXCEPT !.step = "reset", !.link = {l}])
  /\ UNCHANGED <<user, live, link, chal, ops, faults>>

\* Mutant: the sessions stay.
ResetPasswordKeeps(r) ==
  /\ req[r].step = "reset" /\ user.pw < MaxChanges
  /\ user' = [user EXCEPT !.pw = @ + 1]
  /\ link' = [l \in Links |-> IF l \in req[r].link THEN [link[l] EXCEPT !.uses = @ + 1] ELSE link[l]]
  /\ req' = [OvertakeReqs(r) EXCEPT ![r] = NoReq]
  /\ chal' = OvertakeChals
  /\ UNCHANGED <<live, ops, faults>>

\* The password is changed, every session revoked, the use recorded: one
\* transaction.
ResetPassword(r) ==
  /\ req[r].step = "reset" /\ user.pw < MaxChanges
  /\ user' = [user EXCEPT !.pw = @ + 1]
  /\ live' = {}
  /\ link' = [l \in Links |-> IF l \in req[r].link THEN [link[l] EXCEPT !.uses = @ + 1] ELSE link[l]]
  /\ req' = [OvertakeReqs(r) EXCEPT ![r] = NoReq]
  /\ chal' = OvertakeChals
  /\ UNCHANGED <<ops, faults>>

\* changePassword: the current password is compared with the hash read.
ChangeReads(r) ==
  /\ Op
  /\ Begin(r, [NoReq EXCEPT !.step = "change"])
  /\ UNCHANGED <<user, live, link, chal, faults>>

ChangePassword(r) ==
  /\ req[r].step = "change" /\ user.pw < MaxChanges
  /\ user' = [user EXCEPT !.pw = @ + 1]
  /\ req' = [OvertakeReqs(r) EXCEPT ![r].step = "delete"]
  /\ chal' = OvertakeChals
  /\ UNCHANGED <<live, link, ops, faults>>

\* DELETE FROM iam.sessions, in a statement of its own.
DeleteSessions(r) ==
  /\ req[r].step = "delete"
  /\ live' = {}
  /\ req' = [OvertakeReqs(r) EXCEPT ![r] = NoReq]
  /\ UNCHANGED <<user, link, chal, ops, faults>>

-----------------------------------------------------------------------------
(* The second factor and the administrator.                                 *)

\* setupMfa replaces the secret and disables the method until verifyMfa.
SetMfa(m) ==
  /\ Op
  /\ m = "on" => user.mfa = "pending"
  /\ m = "off" => user.mfa # "off"
  /\ user.mfa # m
  /\ user' = [user EXCEPT !.mfa = m]
  /\ UNCHANGED <<live, link, chal, req, faults>>

\* updateUserStatus: an inactive status revokes the sessions in its second
\* statement.
UpdateUserStatus(r, s) ==
  /\ Op
  /\ user' = [user EXCEPT !.status = s]
  /\ IF s = "ACTIVE" THEN UNCHANGED req ELSE Begin(r, [NoReq EXCEPT !.step = "revoke"])
  /\ UNCHANGED <<live, link, chal, faults>>

RevokeSessions(r) ==
  /\ req[r].step = "revoke"
  /\ live' = {}
  /\ End(r)
  /\ UNCHANGED <<user, link, chal, ops, faults>>

\* Mutant: the approval screen uses a status of its own.
DecideUserRejects(approve) ==
  /\ Op
  /\ IF approve THEN user.status # "ACTIVE" ELSE user.status # "SUSPENDED"
  /\ user' = IF approve THEN [user EXCEPT !.status = "ACTIVE", !.fails = 0, !.locked = FALSE]
                        ELSE [user EXCEPT !.status = "REJECTED"]
  /\ UNCHANGED <<live, link, chal, req, faults>>

\* approveEntitlement for a user; a rejection leaves the sessions.
DecideUser(approve) ==
  /\ Op
  /\ IF approve THEN user.status # "ACTIVE" ELSE user.status # "SUSPENDED"
  /\ user' = IF approve THEN [user EXCEPT !.status = "ACTIVE", !.fails = 0, !.locked = FALSE]
                        ELSE [user EXCEPT !.status = "SUSPENDED"]
  /\ UNCHANGED <<live, link, chal, req, faults>>

\* A statement fails and ends its request; a transaction is rolled back.
RequestFails(r) ==
  /\ Fault
  /\ req[r] # NoReq
  /\ End(r)
  /\ UNCHANGED <<user, live, link, chal, ops>>

-----------------------------------------------------------------------------
SignIn(r) ==
  \/ \E right \in BOOLEAN : LoginReads(r, right)
  \/ LoginFails(r) \/ CheckMfa(r)
  \/ \E c \in Chals : OtpReads(r, c)
  \/ OtpSucceeds(r) \/ OtpFails(r)
  \/ ClearFailures(r) \/ CreateSession(r)

Password(r) ==
  \/ \E l \in Links : ResetReads(r, l)
  \/ ResetPassword(r)
  \/ ChangeReads(r) \/ ChangePassword(r) \/ DeleteSessions(r)

Next ==
  \/ \E r \in Reqs :
       \/ SignIn(r) \/ Password(r) \/ RequestFails(r)
       \/ \E o \in live : RefreshReads(r, o)
       \/ Rotate(r)
       \/ \E s \in Statuses \ {"PENDING"} : UpdateUserStatus(r, s)
       \/ RevokeSessions(r)
  \/ \E o \in live : SessionEnds(o)
  \/ \E c \in Chals : ChallengeExpires(c)
  \/ LockExpires
  \/ \E l \in Links, admin \in BOOLEAN : IssueLink(l, admin)
  \/ \E m \in {"off", "pending", "on"} : SetMfa(m)
  \/ \E approve \in BOOLEAN : DecideUser(approve)

Spec == Init /\ [][Next]_vars

-----------------------------------------------------------------------------
(* Properties.                                                              *)

\* Every variable has its type.
TypeOK ==
  /\ user \in [status : Statuses, pw : Passwords, fails : 0 .. MaxFailures,
               locked : BOOLEAN, mfa : {"off", "pending", "on"}]
  /\ live \subseteq Origins
  /\ link \in [Links -> [issued : BOOLEAN, uses : Nat]]
  /\ chal \in [Chals -> [open : BOOLEAN, tries : 0 .. MaxOtp + 1, guesses : Nat, origin : Origins]]
  /\ req \in [Reqs -> [step : Steps, origin : Origins, seen : 0 .. MaxFailures,
                       link : SUBSET Links, chal : SUBSET Chals]]
  /\ ops \in 0 .. MaxOps /\ faults \in 0 .. MaxFaults

\* A reset link changes the password at most once, however many requests
\* present it together and whatever fails in between (resetPassword).
ResetOnce == \A l \in Links : link[l].uses <= 1

\* A session opened with an earlier password is left only where a request or a
\* challenge was under way when the password changed, while changePassword is
\* between its two statements, or after it failed there.
OldSessionsOvertaken ==
  \A o \in live :
    o.born # user.pw =>
      o.over \/ faults > 0 \/ \E r \in Reqs : req[r].step = "delete"

\* A challenge accepts MaxOtp codes, and one more for every further request
\* that had read the count before, or whose failure could not be logged
\* (verifyOtp counts in one statement and logs in another).
GuessesBounded ==
  \A c \in Chals : chal[c].guesses <= MaxOtp + Cardinality(Reqs) - 1 + faults
=============================================================================
