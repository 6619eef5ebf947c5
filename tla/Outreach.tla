------------------------------- MODULE Outreach -------------------------------
(***************************************************************************)
(* Guests who register with a code sent by mail, the consents they give,   *)
(* and the mail campaigns whose audience is read from those consents       *)
(* (control/src/modules/guest-preview and email-campaigns).  Every         *)
(* statement of a handler is a step; requests interleave between them.     *)
(*                                                                         *)
(* There is one campaign, which may be sent again after it failed.  The    *)
(* rows of email_campaign_recipients of one address are the set of their   *)
(* statuses, since an update changes all of them.                          *)
(***************************************************************************)
EXTENDS Naturals, Sequences, FiniteSets, FiniteSetsExt

CONSTANTS
  Emails,        \* addresses, in lower case
  Subscribed,    \* those with an ACTIVE subscription
  Reqs,          \* requests of guests served at one time
  Sends,         \* send requests served at one time
  Loads,         \* what is in play together: a subset of Load
  MaxAttempts,   \* OTP_MAX_ATTEMPTS
  MaxRecipients, \* MAX_RECIPIENTS
  MaxChallenges, \* bound: challenges
  MaxFaults,     \* bound: statements that fail, processes that die
  None

Types == {"alert", "newsletter", "marketing"}
Audiences == {"all_clients", "active_subscribers", "marketing_opt_in"}

\* Requests, addresses and campaigns in play, the clients at the start, and the
\* bound on unsubscriptions and operations on users.
Load == [reqs : SUBSET Reqs, sends : SUBSET Sends, emails : SUBSET Emails,
         clients : SUBSET Emails, drafts : SUBSET (Types \X Audiences), ops : Nat]

ASSUME OutreachAssumption ==
  /\ IsFiniteSet(Emails) /\ Subscribed \subseteq Emails /\ None \notin Emails
  /\ IsFiniteSet(Reqs)
  /\ Loads \subseteq Load
  /\ MaxAttempts \in Nat \ {0} /\ MaxRecipients \in Nat
  /\ MaxChallenges \in Nat /\ MaxFaults \in Nat

VARIABLES
  users,    \* rows of iam.users: whether there is one, ACTIVE, email_verified
  chs,      \* rows of iam.registration_challenges in the order of created_at
  consents, \* rows of iam.consent_records: how many opt in, and how many do not
  unsub,    \* iam.marketing_unsubscribes
  entered,  \* addresses for which verifyOtp created a session
  req,      \* requests of guests being served
  met,      \* (history) addresses of which two verifications ran together
  camp,     \* row of control.email_campaigns
  rows,     \* statuses of the recipient rows of an address
  snd,      \* send requests being served
  mailed,   \* (history) mails of the campaign to an address: 0, 1, or 2 for more
  raced,    \* (history) two sends read the status before either wrote it
  load,     \* what is in play
  ops, faults

guests == <<users, chs, consents, unsub, entered, req, met>>
campaign == <<camp, rows, snd, mailed, raced>>
bounds == <<load, ops, faults>>
vars == <<guests, campaign, bounds>>

NoUser == [there |-> FALSE, active |-> FALSE, verified |-> FALSE]
Client == [there |-> TRUE, active |-> TRUE, verified |-> FALSE]
NoReq == [step |-> "none", email |-> None, k |-> 0, opt |-> FALSE, right |-> FALSE]
NoSend == [step |-> "none", todo |-> [e \in Emails |-> 0], gone |-> {}, done |-> {},
           to |-> None, sent |-> FALSE, failed |-> FALSE, spare |-> {}]

Init ==
  /\ load \in Loads
  /\ users = [e \in Emails |-> IF e \in load.clients THEN Client ELSE NoUser]
  /\ chs = [e \in Emails |-> <<>>]
  /\ consents = [e \in Emails |-> [yes |-> 0, no |-> 0]]
  /\ unsub = {} /\ entered = {} /\ met = {}
  /\ req = [r \in Reqs |-> NoReq]
  /\ camp = [status |-> "none", type |-> "newsletter", aud |-> "all_clients"]
  /\ rows = [e \in Emails |-> {}]
  /\ snd = [s \in Sends |-> NoSend]
  /\ mailed = [e \in Emails |-> 0] /\ raced = FALSE /\ ops = 0 /\ faults = 0

Fault == faults < MaxFaults /\ faults' = faults + 1 /\ UNCHANGED <<load, ops>>
Op == ops < load.ops /\ ops' = ops + 1 /\ UNCHANGED <<load, faults>>
Issued == MapThenSumSet(LAMBDA e : Len(chs[e]), Emails)

-----------------------------------------------------------------------------
(* Guest registration.                                                      *)

Begin(r, rec) == req[r] = NoReq /\ req' = [req EXCEPT ![r] = rec]
End(r) == req' = [req EXCEPT ![r] = NoReq]
Goto(r, step) == req' = [req EXCEPT ![r].step = step]

Pending(e) == {k \in DOMAIN chs[e] : ~chs[e][k].consumed}
CoolingDown(e) == \E k \in Pending(e) : chs[e][k].fresh

\* register: a verified address is not sent a code.
RegisterReads(r, e, opt) ==
  /\ ~users[e].verified /\ Issued < MaxChallenges
  /\ Begin(r, [NoReq EXCEPT !.step = "recent", !.email = e, !.opt = opt])
  /\ UNCHANGED <<users, chs, consents, unsub, entered, met, campaign, bounds>>

\* register: no second challenge within the cooldown.
CheckRecent(r) ==
  /\ req[r].step = "recent"
  /\ IF CoolingDown(req[r].email) THEN End(r) ELSE Goto(r, "insert")
  /\ UNCHANGED <<users, chs, consents, unsub, entered, met, campaign, bounds>>

\* resendOtp: the same cooldown.
ResendReads(r, e) ==
  /\ ~CoolingDown(e) /\ Issued < MaxChallenges
  /\ Begin(r, [NoReq EXCEPT !.step = "latest", !.email = e])
  /\ UNCHANGED <<users, chs, consents, unsub, entered, met, campaign, bounds>>

\* resendOtp: the consents are those of the newest challenge that still holds.
FindPending(r) ==
  /\ req[r].step = "latest"
  /\ LET e == req[r].email
         valid == {k \in Pending(e) : ~chs[e][k].expired}
     IN  IF valid = {} THEN End(r)
         ELSE req' = [req EXCEPT ![r].step = "insert", ![r].opt = chs[e][Max(valid)].opt]
  /\ UNCHANGED <<users, chs, consents, unsub, entered, met, campaign, bounds>>

\* The new challenge; older ones are left as they are.  Whether its mail
\* arrives is not looked at.
InsertChallenge(r) ==
  /\ req[r].step = "insert" /\ Issued < MaxChallenges
  /\ chs' = [chs EXCEPT ![req[r].email] =
       Append(@, [opt |-> req[r].opt, attempts |-> 0, uses |-> 0,
                  consumed |-> FALSE, fresh |-> TRUE, expired |-> FALSE])]
  /\ End(r)
  /\ UNCHANGED <<users, consents, unsub, entered, met, campaign, bounds>>

\* A minute, then ten minutes after a challenge was created; of consumed ones
\* nobody asks.
CooldownOver(e) ==
  /\ \E k \in Pending(e) :
       /\ chs[e][k].fresh /\ \A j \in Pending(e) : j < k => ~chs[e][j].fresh
       /\ chs' = [chs EXCEPT ![e][k].fresh = FALSE]
  /\ UNCHANGED <<users, consents, unsub, entered, req, met, campaign, bounds>>

CodeExpires(e) ==
  /\ \E k \in Pending(e) :
       /\ ~chs[e][k].fresh /\ ~chs[e][k].expired
       /\ \A j \in Pending(e) : j < k => chs[e][j].expired
       /\ chs' = [chs EXCEPT ![e][k].expired = TRUE]
  /\ UNCHANGED <<users, consents, unsub, entered, req, met, campaign, bounds>>

Verifying(r) == req[r].step \in {"try", "account", "consent", "consume"}

\* verifyOtp: the newest challenge that is not consumed, with its attempts.
VerifyReads(r, e, right) ==
  /\ Pending(e) # {}
  /\ LET k == Max(Pending(e))
         open == chs[e][k].attempts < MaxAttempts
     IN  /\ ~chs[e][k].expired
         /\ Begin(r, [NoReq EXCEPT !.step = IF open THEN "try" ELSE "exhausted",
                                   !.email = e, !.k = k, !.right = right])
  /\ met' = IF \E q \in Reqs : Verifying(q) /\ req[q].email = e THEN met \cup {e} ELSE met
  /\ UNCHANGED <<users, chs, consents, unsub, entered, campaign, bounds>>

Spend(r) == chs' = [chs EXCEPT ![req[r].email][req[r].k].consumed = TRUE]

\* Too many attempts: the challenge is consumed and the code refused.
ConsumeExhausted(r) ==
  /\ req[r].step = "exhausted"
  /\ Spend(r) /\ End(r)
  /\ UNCHANGED <<users, consents, unsub, entered, met, campaign, bounds>>

\* The attempt is counted before the code is compared.
CountAttempt(r) ==
  /\ req[r].step = "try"
  /\ chs' = [chs EXCEPT ![req[r].email][req[r].k].attempts = @ + 1]
  /\ IF req[r].right THEN Goto(r, "account") ELSE End(r)
  /\ UNCHANGED <<users, consents, unsub, entered, met, campaign, bounds>>

\* Insert the user, or mark the existing one verified and leave its status.
CreateAccount(r) ==
  /\ req[r].step = "account"
  /\ users' = [users EXCEPT ![req[r].email] =
       IF @.there THEN [@ EXCEPT !.verified = TRUE]
       ELSE [there |-> TRUE, active |-> TRUE, verified |-> TRUE]]
  /\ Goto(r, "consent")
  /\ UNCHANGED <<chs, consents, unsub, entered, met, campaign, bounds>>

LogConsent(r) ==
  /\ req[r].step = "consent"
  /\ LET e == req[r].email
         k == req[r].k
     IN  /\ consents' = IF chs[e][k].opt THEN [consents EXCEPT ![e].yes = @ + 1]
                        ELSE [consents EXCEPT ![e].no = @ + 1]
         /\ chs' = [chs EXCEPT ![e][k].uses = @ + 1]
  /\ Goto(r, "consume")
  /\ UNCHANGED <<users, unsub, entered, met, campaign, bounds>>

\* Mutant: the challenge stays usable.
ConsumeChallengeNever(r) ==
  /\ req[r].step = "consume"
  /\ Goto(r, "session")
  /\ UNCHANGED <<users, chs, consents, unsub, entered, met, campaign, bounds>>

ConsumeChallenge(r) ==
  /\ req[r].step = "consume"
  /\ Spend(r) /\ Goto(r, "session")
  /\ UNCHANGED <<users, consents, unsub, entered, met, campaign, bounds>>

CreateSession(r) ==
  /\ req[r].step = "session"
  /\ entered' = entered \cup {req[r].email} /\ End(r)
  /\ UNCHANGED <<users, chs, consents, unsub, met, campaign, bounds>>

\* A statement fails; what was done before it stays.
RequestFails(r) ==
  /\ req[r] # NoReq
  /\ Fault /\ End(r)
  /\ UNCHANGED <<users, chs, consents, unsub, entered, met, campaign>>

Unsubscribe(e) ==
  /\ Op /\ e \notin unsub
  /\ unsub' = unsub \cup {e}
  /\ UNCHANGED <<users, chs, consents, entered, req, met, campaign>>

\* The other way in: a registration with a password waits for approval.
RegisterPending(e) ==
  /\ Op /\ ~users[e].there
  /\ users' = [users EXCEPT ![e].there = TRUE]
  /\ UNCHANGED <<chs, consents, unsub, entered, req, met, campaign>>

UpdateUserStatus(e) ==
  /\ Op /\ users[e].there
  /\ users' = [users EXCEPT ![e].active = ~@]
  /\ UNCHANGED <<chs, consents, unsub, entered, req, met, campaign>>

-----------------------------------------------------------------------------
(* Mail campaigns.                                                          *)

CreateDraft(type, aud) ==
  /\ camp.status = "none" /\ <<type, aud>> \in load.drafts
  /\ camp' = [status |-> "draft", type |-> type, aud |-> aud]
  /\ UNCHANGED <<guests, rows, snd, mailed, raced, bounds>>

SendEnds(s) == snd' = [snd EXCEPT ![s] = NoSend]
SendGoto(s, step) == snd' = [snd EXCEPT ![s].step = step]

\* Steps between the read of the status and the write of 'sending'.
Deciding(s) == snd[s].step \in {"audience", "unsubscribed", "sending"}

\* Mutant: a campaign that is being sent may be sent again.
SendReadsAnyway(s) ==
  /\ snd[s] = NoSend
  /\ camp.status \in {"draft", "failed", "sending"}
  /\ snd' = [snd EXCEPT ![s] = [NoSend EXCEPT !.step = "audience", !.spare = unsub]]
  /\ raced' = (raced \/ \E q \in Sends : Deciding(q))
  /\ UNCHANGED <<guests, camp, rows, mailed, bounds>>

\* sendCampaign: the status is read and tested.
SendReads(s) ==
  /\ snd[s] = NoSend
  /\ camp.status \in {"draft", "failed"}
  /\ snd' = [snd EXCEPT ![s] = [NoSend EXCEPT !.step = "audience", !.spare = unsub]]
  /\ raced' = (raced \/ \E q \in Sends : Deciding(q))
  /\ UNCHANGED <<guests, camp, rows, mailed, bounds>>

\* How often the audience query returns an address: a join with the consent
\* records returns a user once for each of them.
Copies(e) ==
  IF ~users[e].active THEN 0
  ELSE IF camp.aud = "marketing_opt_in" THEN consents[e].yes
  ELSE IF camp.aud = "active_subscribers" /\ e \notin Subscribed THEN 0
  ELSE 1

\* The audience is read; an empty one is refused.
ResolveAudience(s) ==
  /\ snd[s].step = "audience"
  /\ LET todo == [e \in Emails |-> Copies(e)]
     IN  IF \A e \in Emails : todo[e] = 0 THEN SendEnds(s)
         ELSE snd' = [snd EXCEPT ![s].step = "unsubscribed", ![s].todo = todo]
  /\ UNCHANGED <<guests, camp, rows, mailed, raced, bounds>>

\* Mutant: newsletters are not taken for marketing.
ReadUnsubscribedMarketing(s) ==
  /\ snd[s].step = "unsubscribed"
  /\ snd' = [snd EXCEPT ![s].step = "sending",
                        ![s].gone = IF camp.type = "marketing" THEN unsub ELSE {}]
  /\ UNCHANGED <<guests, camp, rows, mailed, raced, bounds>>

\* The list of those who unsubscribed is read, unless it is an alert; an
\* audience over the cap is refused.
ReadUnsubscribed(s) ==
  /\ snd[s].step = "unsubscribed"
  /\ IF MapThenSumSet(LAMBDA e : snd[s].todo[e], Emails) > MaxRecipients THEN SendEnds(s)
     ELSE snd' = [snd EXCEPT ![s].step = "sending",
                             ![s].gone = IF camp.type = "alert" THEN {} ELSE unsub]
  /\ UNCHANGED <<guests, camp, rows, mailed, raced, bounds>>

MarkSending(s) ==
  /\ snd[s].step = "sending"
  /\ camp' = [camp EXCEPT !.status = "sending"]
  /\ SendGoto(s, "rows")
  /\ UNCHANGED <<guests, rows, mailed, raced, bounds>>

\* The recipients of an earlier attempt, and which of them were sent the mail.
ReadRows(s) ==
  /\ snd[s].step = "rows"
  /\ snd' = [snd EXCEPT
       ![s].step = IF \A e \in Emails : rows[e] = {} THEN "snapshot" ELSE "loop",
       ![s].done = {e \in Emails : "sent" \in rows[e]}]
  /\ UNCHANGED <<guests, camp, rows, mailed, raced, bounds>>

InsertRows(s) ==
  /\ snd[s].step = "snapshot"
  /\ rows' = [e \in Emails |-> IF snd[s].todo[e] > 0 THEN rows[e] \cup {"pending"} ELSE rows[e]]
  /\ SendGoto(s, "loop")
  /\ UNCHANGED <<guests, camp, mailed, raced, bounds>>

\* The next recipient, in whatever order the audience came.
Take(s, e) == snd[s].step = "loop" /\ snd[s].todo[e] > 0

\* One that has the mail already is counted as sent.
SkipDone(s, e) ==
  /\ Take(s, e) /\ e \in snd[s].done
  /\ snd' = [snd EXCEPT ![s].todo[e] = @ - 1, ![s].sent = TRUE]
  /\ UNCHANGED <<guests, camp, rows, mailed, raced, bounds>>

\* markRecipient changes the rows of the address, if there are any.
Marked(e, status) == [rows EXCEPT ![e] = IF @ = {} THEN {} ELSE {status}]

SkipUnsubscribed(s, e) ==
  /\ Take(s, e) /\ e \notin snd[s].done /\ e \in snd[s].gone
  /\ rows' = Marked(e, "skipped_unsubscribed")
  /\ snd' = [snd EXCEPT ![s].todo[e] = @ - 1]
  /\ UNCHANGED <<guests, camp, mailed, raced, bounds>>

\* The mail is handed to the relay, or refused by it, or (a fault) handed over
\* without an answer that says so.
SendOne(s, e) ==
  /\ Take(s, e) /\ e \notin snd[s].done \cup snd[s].gone
  /\ \E out \in {"accepted", "refused", "unanswered"} :
       /\ mailed' = IF out = "refused" THEN mailed
                    ELSE [mailed EXCEPT ![e] = IF @ < 2 THEN @ + 1 ELSE @]
       /\ snd' = [snd EXCEPT ![s].todo[e] = @ - 1, ![s].to = e,
                             ![s].step = IF out = "accepted" THEN "sent" ELSE "failed"]
       /\ IF out = "unanswered" THEN Fault ELSE UNCHANGED bounds
  /\ UNCHANGED <<guests, camp, rows, raced>>

\* A mark that fails after the mail was sent is caught and marked as failed.
MarkSent(s) ==
  /\ snd[s].step = "sent"
  /\ \/ /\ rows' = Marked(snd[s].to, "sent")
        /\ snd' = [snd EXCEPT ![s].step = "loop", ![s].to = None, ![s].sent = TRUE]
        /\ UNCHANGED bounds
     \/ Fault /\ SendGoto(s, "failed") /\ UNCHANGED rows
  /\ UNCHANGED <<guests, camp, mailed, raced>>

MarkFailed(s) ==
  /\ snd[s].step = "failed"
  /\ rows' = Marked(snd[s].to, "failed")
  /\ snd' = [snd EXCEPT ![s].step = "loop", ![s].to = None, ![s].failed = TRUE]
  /\ UNCHANGED <<guests, camp, mailed, raced, bounds>>

\* Mutant: nothing is written when nobody was sent the mail.
FinishIfSent(s) ==
  /\ snd[s].step = "loop" /\ \A e \in Emails : snd[s].todo[e] = 0
  /\ camp' = IF snd[s].failed \/ snd[s].sent
             THEN [camp EXCEPT !.status = IF snd[s].sent THEN "sent" ELSE "failed"] ELSE camp
  /\ SendEnds(s)
  /\ UNCHANGED <<guests, rows, mailed, raced, bounds>>

\* Failed means that some failed and none was sent; only then may it be sent
\* again.
Finish(s) ==
  /\ snd[s].step = "loop" /\ \A e \in Emails : snd[s].todo[e] = 0
  /\ camp' = [camp EXCEPT !.status = IF snd[s].failed /\ ~snd[s].sent THEN "failed" ELSE "sent"]
  /\ SendEnds(s)
  /\ UNCHANGED <<guests, rows, mailed, raced, bounds>>

\* A statement outside the loop's try fails, or the process dies.
SendFails(s) ==
  /\ snd[s] # NoSend
  /\ Fault /\ SendEnds(s)
  /\ UNCHANGED <<guests, camp, rows, mailed, raced>>

-----------------------------------------------------------------------------
GuestStep(r) ==
  \/ \E e \in load.emails, b \in BOOLEAN : RegisterReads(r, e, b) \/ VerifyReads(r, e, b)
  \/ \E e \in load.emails : ResendReads(r, e)
  \/ CheckRecent(r) \/ FindPending(r) \/ InsertChallenge(r)
  \/ ConsumeExhausted(r) \/ CountAttempt(r) \/ CreateAccount(r) \/ LogConsent(r)
  \/ ConsumeChallenge(r) \/ CreateSession(r) \/ RequestFails(r)

Loop(s) ==
  \/ \E e \in Emails : SkipDone(s, e) \/ SkipUnsubscribed(s, e) \/ SendOne(s, e)
  \/ MarkSent(s) \/ MarkFailed(s) \/ Finish(s)

SendProceeds(s) ==
  \/ ResolveAudience(s) \/ ReadUnsubscribed(s) \/ MarkSending(s)
  \/ ReadRows(s) \/ InsertRows(s) \/ Loop(s)

Next ==
  \/ \E r \in load.reqs : GuestStep(r)
  \/ \E e \in load.emails : \/ CooldownOver(e) \/ CodeExpires(e) \/ Unsubscribe(e)
                            \/ RegisterPending(e) \/ UpdateUserStatus(e)
  \/ \E t \in Types, a \in Audiences : CreateDraft(t, a)
  \/ \E s \in load.sends : SendReads(s) \/ SendProceeds(s) \/ SendFails(s)

\* A request that is being served goes on.
Fairness == \A s \in Sends : WF_vars(SendProceeds(s))

Spec == Init /\ [][Next]_vars /\ Fairness

-----------------------------------------------------------------------------
(* Properties.                                                              *)

\* Attempts are counted before the code is compared, so only requests that
\* read the challenge together can pass the limit (verifyOtp).
AttemptsBounded ==
  \A e \in Emails : \A k \in DOMAIN chs[e] :
    chs[e][k].attempts < MaxAttempts + Cardinality(Reqs)

\* A code registers once, unless two verifications of the address ran together
\* or the statement that consumes it failed (verifyOtp).
CodeUsedOnce ==
  \A e \in Emails : \A k \in DOMAIN chs[e] :
    chs[e][k].uses > 1 => e \in met \/ faults > 0

\* Nobody is let in without a consent on record and an account (verifyOtp).
ConsentFirst ==
  \A e \in entered : consents[e].yes + consents[e].no > 0 /\ users[e].verified

\* What a guest's code is good for (guest-preview: max attempts, one account,
\* consent before the session).
CodesSound == AttemptsBounded /\ CodeUsedOnce /\ ConsentFirst

\* Nobody gets the campaign's mail twice, whatever is sent again, except where
\* two sends read the status together, the address has several consents that
\* opt in, or a fault hid that the mail went out (sendCampaign).
NoDoubleMail ==
  \A e \in Emails :
    mailed[e] > 1 => raced \/ faults > 0 \/ consents[e].yes > 1

\* Who had unsubscribed when the send was requested gets no newsletter and no
\* marketing mail from it (sendCampaign, checked at send time).
UnsubscribedSpared ==
  \A s \in Sends :
    snd[s].step = "sent" /\ camp.type # "alert" => snd[s].to \notin snd[s].spare

\* A campaign does not stay in 'sending', from which nothing can send it
\* again, unless a statement failed or the process died (sendCampaign).
SendingEnds == camp.status = "sending" ~> camp.status # "sending" \/ faults > 0
=============================================================================
