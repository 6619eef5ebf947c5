---------------------------- MODULE Outreach_proofs ----------------------------
(***************************************************************************)
(* Proofs about guest registration and mail campaigns, for any number of   *)
(* addresses, requests and sends and without regard to the bounds.         *)
(***************************************************************************)
EXTENDS Outreach, FiniteSetTheorems, SequenceTheorems, TLAPS

-----------------------------------------------------------------------------
(* Types.                                                                   *)

Challenge == [opt : BOOLEAN, attempts : Nat, uses : Nat,
              consumed : BOOLEAN, fresh : BOOLEAN, expired : BOOLEAN]
UserRow == [there : BOOLEAN, active : BOOLEAN, verified : BOOLEAN]
Consent == [yes : Nat, no : Nat]
GuestSteps == {"none", "recent", "latest", "insert", "try", "exhausted",
               "account", "consent", "consume", "session"}
GuestReq == [step : GuestSteps, email : Emails \cup {None}, k : Nat, opt : BOOLEAN, right : BOOLEAN]
SendSteps == {"none", "audience", "unsubscribed", "sending", "rows", "snapshot",
              "loop", "sent", "failed"}
SendReq == [step : SendSteps, todo : [Emails -> Nat], gone : SUBSET Emails, done : SUBSET Emails,
            to : Emails \cup {None}, sent : BOOLEAN, failed : BOOLEAN, spare : SUBSET Emails]
Campaign == [status : {"none", "draft", "sending", "sent", "failed"}, type : Types, aud : Audiences]

GuestTypes ==
  /\ users \in [Emails -> UserRow] /\ chs \in [Emails -> Seq(Challenge)]
  /\ consents \in [Emails -> Consent] /\ unsub \subseteq Emails /\ entered \subseteq Emails
  /\ req \in [Reqs -> GuestReq]

BoundTypes == load \in Load /\ faults \in Nat

-----------------------------------------------------------------------------
(* The invariants of guest registration.                                    *)

\* What a request relies on: its challenge exists, and the account and the
\* consent it has recorded are there.
ReqSound(r) ==
  /\ req[r].step # "none" => req[r].email \in Emails
  /\ req[r].step \in {"try", "exhausted", "account", "consent", "consume"} =>
       req[r].k \in DOMAIN chs[req[r].email]
  /\ req[r].step \in {"consent", "consume", "session"} => users[req[r].email].verified
  /\ req[r].step \in {"consume", "session"} =>
       consents[req[r].email].yes + consents[req[r].email].no > 0

\* Requests that have read a challenge and not yet counted their attempt.
Trying(e, k) == {r \in Reqs : req[r].step = "try" /\ req[r].email = e /\ req[r].k = k}

\* The attempts counted and those to come.
TryInv ==
  \A e \in Emails : \A k \in DOMAIN chs[e] :
    chs[e][k].attempts + Cardinality(Trying(e, k)) < MaxAttempts + Cardinality(Reqs)

\* One verification at a time: a code that was used is consumed, or about to be
\* by the request that used it; a code that is being looked at is unused.
CodeOK(e) ==
  /\ \A q, r \in Reqs :
       Verifying(q) /\ req[q].email = e /\ Verifying(r) /\ req[r].email = e => q = r
  /\ \A r \in Reqs : Verifying(r) /\ req[r].email = e /\ req[r].step # "consume" =>
       chs[e][req[r].k].uses = 0
  /\ \A k \in DOMAIN chs[e] :
       /\ chs[e][k].uses <= 1
       /\ chs[e][k].uses = 1 /\ ~chs[e][k].consumed =>
            \E r \in Reqs : req[r].step = "consume" /\ req[r].email = e /\ req[r].k = k

CodeInv == \A e \in Emails : e \in met \/ faults > 0 \/ CodeOK(e)

GuestInv ==
  /\ GuestTypes /\ BoundTypes /\ ConsentFirst /\ TryInv /\ CodeInv
  /\ \A r \in Reqs : ReqSound(r)

-----------------------------------------------------------------------------
(* The invariants of campaigns.                                             *)

SendTypes ==
  /\ camp \in Campaign /\ snd \in [Sends -> SendReq] /\ mailed \in [Emails -> 0 .. 2]

Active(s) == snd[s].step # "none"
Sending(s) == snd[s].step \in {"rows", "snapshot", "loop", "sent", "failed"}

\* Those a send must spare have unsubscribed, and are on the list it has read.
SpareOK(s) ==
  /\ Active(s) => snd[s].spare \subseteq unsub
  /\ (snd[s].step = "sending" \/ Sending(s)) /\ camp.type # "alert" => snd[s].spare \subseteq snd[s].gone
  /\ snd[s].step = "sent" => snd[s].to \notin snd[s].gone

SpareInv ==
  /\ camp.status = "none" => \A s \in Sends : ~Active(s)
  /\ \A s \in Sends : SpareOK(s)

\* Sends that did not race follow one another: one decides while the campaign
\* may be sent, one sends while it is being sent.
OneSend ==
  /\ \A s, q \in Sends : Active(s) /\ Active(q) => s = q
  /\ \A s \in Sends : Deciding(s) => camp.status \in {"draft", "failed"}
  /\ \A s \in Sends : Sending(s) => camp.status = "sending"

\* Once somebody has the mail, the campaign is sent or its send knows.
MailKnown ==
  (\E e \in Emails : mailed[e] > 0) =>
    \/ camp.status = "sent"
    \/ \E s \in Sends : Sending(s) /\ (snd[s].sent \/ snd[s].step = "sent")

\* An address with at most one consent is in an audience once, and no longer
\* when it has the mail.
MailOK(e) ==
  /\ mailed[e] <= 1
  /\ \A s \in Sends : Active(s) => snd[s].todo[e] <= 1 /\ (mailed[e] > 0 => snd[s].todo[e] = 0)

MailInv ==
  raced \/ faults > 0 \/
    (OneSend /\ MailKnown /\ \A e \in Emails : consents[e].yes > 1 \/ MailOK(e))

SendInv == SendTypes /\ SpareInv /\ MailInv

-----------------------------------------------------------------------------
(* The newest challenge.                                                    *)

\* A set of numbers that is bounded has a greatest one.
LEMMA MaxIn ==
  ASSUME NEW n \in Nat, NEW S, S \subseteq 1 .. n, S # {}
  PROVE  Max(S) \in S
<1> DEFINE R == {ss \in Nat \X Nat : ss[1] < ss[2]}
           T == {n - x : x \in S}
<1>1. T \subseteq Nat /\ T # {}
  <2>1. \A x \in S : x \in Nat /\ n - x \in Nat
    OBVIOUS
  <2> QED BY <2>1
<1>2. IsWellFoundedOn(R, Nat)
  BY NatLessThanWellFounded DEF OpToRel
<1> HIDE DEF R, T
<1>3. PICK t \in T : \A u \in T : ~(<<u, t>> \in R)
  BY <1>1, <1>2, WFMin
<1>4. \A u \in Nat, v \in Nat : u < v => <<u, v>> \in R
  BY DEF R
<1>5. \A u \in T : t <= u
  <2> TAKE u \in T
  <2>1. t \in Nat /\ u \in Nat /\ ~(u < t)
    BY <1>1, <1>3, <1>4
  <2> QED BY <2>1
<1>6. PICK x \in S : t = n - x
  BY DEF T
<1>7. \A y \in S : x >= y
  <2> TAKE y \in S
  <2>1. n - y \in T
    BY DEF T
  <2> QED BY <1>5, <1>6, <2>1
<1> QED BY <1>7 DEF Max

-----------------------------------------------------------------------------
(* What steps of guests have in common.                                     *)

\* Nothing recorded is forgotten.
Forward ==
  /\ \A e \in Emails : DOMAIN chs[e] \subseteq DOMAIN chs'[e]
  /\ \A e \in Emails : users[e].verified => users'[e].verified
  /\ \A e \in Emails : consents[e].yes <= consents'[e].yes /\ consents[e].no <= consents'[e].no

\* The fields of a challenge.
LEMMA ChallengeFields ==
  ASSUME NEW c \in [Emails -> Seq(Challenge)], NEW e \in Emails, NEW k \in DOMAIN c[e]
  PROVE  /\ c[e] \in Seq(Challenge) /\ c[e][k] \in Challenge
         /\ Len(c[e]) \in Nat /\ DOMAIN c[e] = 1 .. Len(c[e]) /\ k \in Nat
         /\ c[e][k].attempts \in Nat /\ c[e][k].uses \in Nat /\ c[e][k].consumed \in BOOLEAN
         /\ c[e][k].opt \in BOOLEAN
<1>1. c[e] \in Seq(Challenge)
  OBVIOUS
<1>2. c[e][k] \in Challenge /\ Len(c[e]) \in Nat /\ DOMAIN c[e] = 1 .. Len(c[e]) /\ k \in Nat
  BY <1>1
<1> QED BY <1>1, <1>2 DEF Challenge

\* One request is replaced.
LEMMA ReqReplaced ==
  ASSUME GuestTypes, NEW r \in Reqs, NEW rec \in GuestReq, req' = [req EXCEPT ![r] = rec]
  PROVE  req' \in [Reqs -> GuestReq] /\ req'[r] = rec /\ \A q \in Reqs : q # r => req'[q] = req[q]
BY DEF GuestTypes

\* No request at all.
LEMMA NoReqSound ==
  NoReq \in GuestReq /\ NoReq.step = "none"
BY DEF NoReq, GuestReq, GuestSteps

\* A request that goes on to its next step.
LEMMA ReqGoes ==
  ASSUME GuestTypes, NEW r \in Reqs, NEW step \in GuestSteps, Goto(r, step)
  PROVE  /\ req' \in [Reqs -> GuestReq] /\ \A q \in Reqs : q # r => req'[q] = req[q]
         /\ req'[r].step = step /\ req'[r].email = req[r].email /\ req'[r].k = req[r].k
BY DEF GuestTypes, GuestReq, Goto

\* A request that ends.
LEMMA ReqEnds ==
  ASSUME GuestTypes, NEW r \in Reqs, End(r)
  PROVE  /\ req' \in [Reqs -> GuestReq] /\ \A q \in Reqs : q # r => req'[q] = req[q]
         /\ req'[r].step = "none"
BY NoReqSound, ReqReplaced DEF End

\* A step that forgets nothing leaves what requests rely on.
LEMMA ForwardSound ==
  ASSUME GuestInv, GuestTypes', Forward,
         \A q \in Reqs : req'[q] = req[q] \/ ReqSound(q)',
         \A e \in entered' : e \in entered \/ (consents'[e].yes + consents'[e].no > 0 /\ users'[e].verified)
  PROVE  ConsentFirst' /\ \A q \in Reqs : ReqSound(q)'
<1>1. \A e \in Emails : /\ consents[e].yes \in Nat /\ consents[e].no \in Nat
                        /\ consents'[e].yes \in Nat /\ consents'[e].no \in Nat
  BY DEF GuestInv, GuestTypes, Consent
<1>2. \A e \in Emails : consents[e].yes + consents[e].no > 0 => consents'[e].yes + consents'[e].no > 0
  BY <1>1 DEF Forward
<1>3. ConsentFirst'
  BY <1>2 DEF ConsentFirst, GuestInv, GuestTypes, Forward
<1>4. ASSUME NEW q \in Reqs, req'[q] = req[q] PROVE ReqSound(q)'
  <2>1. ReqSound(q)
    BY DEF GuestInv
  <2>2. req[q].step = "none" \/ req[q].email \in Emails
    BY <2>1 DEF ReqSound
  <2> QED BY <1>2, <1>4, <2>1, <2>2 DEF ReqSound, Forward
<1> QED BY <1>3, <1>4

\* The attempts on a challenge: it is below the limit, or nothing is new, or an
\* attempt that was to come is counted.
LEMMA TryKept ==
  ASSUME GuestInv, GuestTypes',
         \A e \in Emails : \A k \in DOMAIN chs'[e] :
           \/ chs'[e][k].attempts < MaxAttempts
           \/ /\ k \in DOMAIN chs[e] /\ chs'[e][k].attempts = chs[e][k].attempts
              /\ Trying(e, k)' \subseteq Trying(e, k)
           \/ /\ k \in DOMAIN chs[e] /\ chs'[e][k].attempts = chs[e][k].attempts + 1
              /\ \E r \in Trying(e, k) : Trying(e, k)' = Trying(e, k) \ {r}
  PROVE  TryInv'
<1> SUFFICES ASSUME NEW e \in Emails, NEW k \in DOMAIN chs'[e]
             PROVE  chs'[e][k].attempts + Cardinality(Trying(e, k)') < MaxAttempts + Cardinality(Reqs)
  BY DEF TryInv
<1>1. /\ IsFiniteSet(Trying(e, k)) /\ Cardinality(Trying(e, k)) \in Nat
      /\ IsFiniteSet(Trying(e, k)') /\ Cardinality(Trying(e, k)') \in Nat
      /\ Cardinality(Trying(e, k)') <= Cardinality(Reqs) /\ Cardinality(Reqs) \in Nat
  <2>1. Trying(e, k) \in SUBSET Reqs /\ Trying(e, k)' \in SUBSET Reqs
    BY DEF Trying
  <2> QED BY <2>1, OutreachAssumption, FS_Subset, FS_CardinalityType
<1>2. chs'[e][k].attempts \in Nat /\ MaxAttempts \in Nat
  BY OutreachAssumption, ChallengeFields DEF GuestTypes
<1>3. CASE chs'[e][k].attempts < MaxAttempts
  BY <1>1, <1>2, <1>3
<1>4. ASSUME k \in DOMAIN chs[e]
      PROVE  /\ chs[e][k].attempts + Cardinality(Trying(e, k)) < MaxAttempts + Cardinality(Reqs)
             /\ chs[e][k].attempts \in Nat
  BY <1>4, ChallengeFields DEF GuestInv, TryInv, GuestTypes
<1>5. CASE /\ k \in DOMAIN chs[e] /\ chs'[e][k].attempts = chs[e][k].attempts
           /\ Trying(e, k)' \subseteq Trying(e, k)
  <2>1. Cardinality(Trying(e, k)') <= Cardinality(Trying(e, k))
    BY <1>1, <1>5, FS_Subset
  <2> QED BY <1>1, <1>2, <1>4, <1>5, <2>1
<1>6. CASE /\ k \in DOMAIN chs[e] /\ chs'[e][k].attempts = chs[e][k].attempts + 1
           /\ \E r \in Trying(e, k) : Trying(e, k)' = Trying(e, k) \ {r}
  <2>1. Cardinality(Trying(e, k)') = Cardinality(Trying(e, k)) - 1
    BY <1>1, <1>6, FS_RemoveElement
  <2> QED BY <1>1, <1>2, <1>4, <1>6, <2>1
<1> QED BY <1>3, <1>5, <1>6

\* Requests stay in their phase: no verification begins, and none is about to
\* consume a code that was not, or gives it up.
PhaseKept ==
  \A q \in Reqs :
    /\ Verifying(q)' => Verifying(q) /\ req'[q].email = req[q].email /\ req'[q].k = req[q].k
    /\ req[q].step = "consume" <=> req'[q].step = "consume"

\* Codes are used no further, and none that was consumed is usable again.
CodesKept ==
  \A e \in Emails :
    /\ DOMAIN chs[e] \subseteq DOMAIN chs'[e]
    /\ \A k \in DOMAIN chs[e] : chs'[e][k].uses = chs[e][k].uses
                                /\ (chs[e][k].consumed => chs'[e][k].consumed)
    /\ \A k \in DOMAIN chs'[e] : k \in DOMAIN chs[e] \/ chs'[e][k].uses = 0

\* Such steps keep what is said of codes.
LEMMA CodeKept ==
  ASSUME GuestInv, PhaseKept, CodesKept, met \subseteq met', faults' = faults
  PROVE  CodeInv'
<1> SUFFICES ASSUME NEW e \in Emails, CodeOK(e)
             PROVE  CodeOK(e)'
  BY DEF GuestInv, CodeInv
<1>1. \A q \in Reqs : Verifying(q)' => /\ Verifying(q) /\ req'[q].email = req[q].email
                                       /\ req'[q].k = req[q].k
                                       /\ (req[q].step = "consume" <=> req'[q].step = "consume")
                                       /\ req[q].k \in DOMAIN chs[req[q].email]
  BY DEF PhaseKept, GuestInv, ReqSound, Verifying
<1>2. \A q, r \in Reqs :
        Verifying(q)' /\ req'[q].email = e /\ Verifying(r)' /\ req'[r].email = e => q = r
  BY <1>1 DEF CodeOK
<1>3. \A r \in Reqs : Verifying(r)' /\ req'[r].email = e /\ req'[r].step # "consume" =>
        chs'[e][req'[r].k].uses = 0
  BY <1>1 DEF CodeOK, CodesKept
<1>4. ASSUME NEW k \in DOMAIN chs'[e]
      PROVE  /\ chs'[e][k].uses <= 1
             /\ chs'[e][k].uses = 1 /\ ~chs'[e][k].consumed =>
                  \E r \in Reqs : req'[r].step = "consume" /\ req'[r].email = e /\ req'[r].k = k
  <2>1. CASE k \in DOMAIN chs[e]
    <3>1. /\ chs'[e][k].uses <= 1
          /\ chs'[e][k].uses = 1 /\ ~chs'[e][k].consumed =>
               \E r \in Reqs : req[r].step = "consume" /\ req[r].email = e /\ req[r].k = k
      BY <2>1 DEF CodeOK, CodesKept
    <3>2. \A r \in Reqs : req[r].step = "consume" =>
            req'[r].step = "consume" /\ req'[r].email = req[r].email /\ req'[r].k = req[r].k
      BY DEF PhaseKept, Verifying
    <3> QED BY <3>1, <3>2
  <2>2. CASE k \notin DOMAIN chs[e]
    <3>1. chs'[e][k].uses = 0
      BY <2>2 DEF CodesKept
    <3> QED BY <3>1
  <2> QED BY <2>1, <2>2
<1> QED BY <1>2, <1>3, <1>4 DEF CodeOK

\* One challenge is rewritten.
LEMMA ChallengeSet ==
  ASSUME GuestTypes, NEW e \in Emails, NEW k \in DOMAIN chs[e], NEW row \in Challenge,
         chs' = [chs EXCEPT ![e] = [chs[e] EXCEPT ![k] = row]]
  PROVE  /\ chs' \in [Emails -> Seq(Challenge)]
         /\ \A x \in Emails : DOMAIN chs'[x] = DOMAIN chs[x]
         /\ chs'[e][k] = row
         /\ \A x \in Emails : \A j \in DOMAIN chs[x] : x # e \/ j # k => chs'[x][j] = chs[x][j]
<1>1. chs \in [Emails -> Seq(Challenge)] /\ chs[e] \in Seq(Challenge)
  BY DEF GuestTypes
<1>2. /\ [chs[e] EXCEPT ![k] = row] \in Seq(Challenge)
      /\ DOMAIN [chs[e] EXCEPT ![k] = row] = DOMAIN chs[e]
      /\ [chs[e] EXCEPT ![k] = row][k] = row
      /\ \A j \in DOMAIN chs[e] : j # k => [chs[e] EXCEPT ![k] = row][j] = chs[e][j]
  BY <1>1, ExceptSeq
<1>3. chs'[e] = [chs[e] EXCEPT ![k] = row] /\ \A x \in Emails : x # e => chs'[x] = chs[x]
  BY <1>1
<1>4. chs' \in [Emails -> Seq(Challenge)]
  BY <1>1, <1>2
<1> QED BY <1>2, <1>3, <1>4

-----------------------------------------------------------------------------
(* The steps of guests.                                                     *)

\* A request that has not got to a challenge, or is done with it.
Early == {"none", "recent", "latest", "insert"}

\* Steps that change a request and nothing it relies on.
LEMMA ReqOnly ==
  ASSUME GuestInv, NEW r \in Reqs, UNCHANGED <<users, chs, consents, unsub, met, load, faults>>,
         req' \in [Reqs -> GuestReq], \A q \in Reqs : q # r => req'[q] = req[q],
         req'[r].step \in Early, req'[r].step # "none" => req'[r].email \in Emails,
         req[r].step # "consume", entered' \subseteq Emails,
         \A e \in entered' : e \in entered \/ (consents[e].yes + consents[e].no > 0 /\ users[e].verified)
  PROVE  GuestInv'
<1>1. GuestTypes' /\ BoundTypes'
  BY DEF GuestInv, GuestTypes, BoundTypes
<1>2. Forward
  BY DEF Forward, GuestInv, GuestTypes, Consent
<1>3. ReqSound(r)'
  BY DEF ReqSound, Early
<1>4. ConsentFirst' /\ \A q \in Reqs : ReqSound(q)'
  <2>1. \A q \in Reqs : req'[q] = req[q] \/ ReqSound(q)'
    BY <1>3
  <2>2. \A e \in entered' : e \in entered \/ (consents'[e].yes + consents'[e].no > 0 /\ users'[e].verified)
    OBVIOUS
  <2> QED BY <1>1, <1>2, <2>1, <2>2, ForwardSound
<1>5. \A e \in Emails : \A k \in DOMAIN chs[e] : Trying(e, k)' \subseteq Trying(e, k)
  BY DEF Trying, Early
<1>6. TryInv'
  BY <1>1, <1>5, TryKept
<1>7. PhaseKept
  BY DEF PhaseKept, Verifying, Early
<1>8. CodesKept
  BY DEF CodesKept
<1>9. CodeInv'
  BY <1>7, <1>8, CodeKept
<1> QED BY <1>1, <1>4, <1>6, <1>9 DEF GuestInv

\* register and resendOtp begin.
LEMMA BeginsSound ==
  ASSUME GuestInv, NEW r \in Reqs, NEW e \in Emails, NEW b \in BOOLEAN,
         RegisterReads(r, e, b) \/ ResendReads(r, e)
  PROVE  GuestInv'
<1>1. /\ UNCHANGED <<users, chs, consents, unsub, entered, met, load, faults>>
      /\ req[r] = NoReq
  BY DEF RegisterReads, ResendReads, Begin, bounds
<1>2. PICK rec \in GuestReq : /\ req' = [req EXCEPT ![r] = rec]
                              /\ rec.step \in Early /\ rec.email = e
  <2>1. CASE RegisterReads(r, e, b)
    <3> DEFINE rec == [NoReq EXCEPT !.step = "recent", !.email = e, !.opt = b]
    <3>1. req' = [req EXCEPT ![r] = rec]
      BY <2>1 DEF RegisterReads, Begin
    <3>2. rec \in GuestReq /\ rec.step = "recent" /\ rec.email = e
      BY DEF NoReq, GuestReq, GuestSteps
    <3> HIDE DEF rec
    <3> QED BY <3>1, <3>2 DEF Early
  <2>2. CASE ResendReads(r, e)
    <3> DEFINE rec == [NoReq EXCEPT !.step = "latest", !.email = e]
    <3>1. req' = [req EXCEPT ![r] = rec]
      BY <2>2 DEF ResendReads, Begin
    <3>2. rec \in GuestReq /\ rec.step = "latest" /\ rec.email = e
      BY DEF NoReq, GuestReq, GuestSteps
    <3> HIDE DEF rec
    <3> QED BY <3>1, <3>2 DEF Early
  <2> QED BY <2>1, <2>2
<1>3. req' \in [Reqs -> GuestReq] /\ req'[r] = rec /\ \A q \in Reqs : q # r => req'[q] = req[q]
  BY <1>2, ReqReplaced DEF GuestInv
<1>4. req[r].step # "consume" /\ entered' \subseteq Emails
  BY <1>1, NoReqSound DEF GuestInv, GuestTypes
<1> QED BY <1>1, <1>2, <1>3, <1>4, ReqOnly

\* register and resendOtp go on, and the last step of verifyOtp.
LEMMA GoesOnSound ==
  ASSUME GuestInv, NEW r \in Reqs, CheckRecent(r) \/ FindPending(r) \/ CreateSession(r)
  PROVE  GuestInv'
<1>1. /\ UNCHANGED <<users, chs, consents, unsub, met, load, faults>>
      /\ req[r].step \in {"recent", "latest", "session"}
  BY DEF CheckRecent, FindPending, CreateSession, bounds
<1>2. ReqSound(r) /\ GuestTypes /\ req[r].email \in Emails
  BY <1>1 DEF GuestInv, ReqSound
<1>3. CASE CheckRecent(r) \/ FindPending(r)
  <2>1. entered' = entered /\ entered' \subseteq Emails
    BY <1>2, <1>3 DEF CheckRecent, FindPending, GuestTypes
  <2>2. CASE End(r)
    BY <1>1, <1>2, <2>1, <2>2, ReqEnds, ReqOnly DEF Early
  <2>3. CASE Goto(r, "insert")
    <3>1. "insert" \in GuestSteps
      BY DEF GuestSteps
    <3>2. /\ req' \in [Reqs -> GuestReq] /\ \A q \in Reqs : q # r => req'[q] = req[q]
          /\ req'[r].step = "insert" /\ req'[r].email = req[r].email
      BY <1>2, <2>3, <3>1, ReqGoes
    <3> QED BY <1>1, <1>2, <2>1, <3>2, ReqOnly DEF Early
  <2>4. CASE \E o \in BOOLEAN : req' = [req EXCEPT ![r].step = "insert", ![r].opt = o]
    <3>1. PICK o \in BOOLEAN : req' = [req EXCEPT ![r].step = "insert", ![r].opt = o]
      BY <2>4
    <3>2. /\ req' \in [Reqs -> GuestReq] /\ \A q \in Reqs : q # r => req'[q] = req[q]
          /\ req'[r].step = "insert" /\ req'[r].email = req[r].email
      BY <1>2, <3>1 DEF GuestTypes, GuestReq, GuestSteps
    <3> QED BY <1>1, <1>2, <2>1, <3>2, ReqOnly DEF Early
  <2>5. CASE FindPending(r)
    <3> DEFINE e == req[r].email
               valid == {k \in Pending(e) : ~chs[e][k].expired}
    <3>1. End(r) \/ (valid # {} /\ req' = [req EXCEPT ![r].step = "insert", ![r].opt = chs[e][Max(valid)].opt])
      BY <2>5 DEF FindPending
    <3>2. chs[e] \in Seq(Challenge) /\ Len(chs[e]) \in Nat /\ valid \subseteq 1 .. Len(chs[e])
      BY <1>2 DEF GuestTypes, Pending
    <3>3. valid # {} => Max(valid) \in DOMAIN chs[e]
      BY <3>2, MaxIn DEF Pending
    <3>4. valid # {} => chs[e][Max(valid)].opt \in BOOLEAN
      BY <1>2, <3>3, ChallengeFields DEF GuestTypes
    <3> QED BY <2>2, <2>4, <3>1, <3>4
  <2>6. CASE CheckRecent(r)
    BY <2>2, <2>3, <2>6 DEF CheckRecent
  <2> QED BY <1>3, <2>5, <2>6
<1>4. CASE CreateSession(r)
  <2>1. req[r].step = "session" /\ entered' = entered \cup {req[r].email} /\ End(r)
    BY <1>4 DEF CreateSession
  <2>2. /\ req' \in [Reqs -> GuestReq] /\ \A q \in Reqs : q # r => req'[q] = req[q]
        /\ req'[r].step = "none"
    BY <1>2, <2>1, ReqEnds
  <2>3. entered' \subseteq Emails
    BY <1>2, <2>1 DEF GuestTypes
  <2>4. \A e \in entered' : e \in entered \/ (consents[e].yes + consents[e].no > 0 /\ users[e].verified)
    BY <1>2, <2>1 DEF ReqSound
  <2> QED BY <1>1, <2>1, <2>2, <2>3, <2>4, ReqOnly DEF Early
<1> QED BY <1>3, <1>4

\* A new challenge has no attempts and no uses.
LEMMA InsertSound ==
  ASSUME GuestInv, NEW r \in Reqs, InsertChallenge(r)
  PROVE  GuestInv'
<1> DEFINE e == req[r].email
           row == [opt |-> req[r].opt, attempts |-> 0, uses |-> 0,
                   consumed |-> FALSE, fresh |-> TRUE, expired |-> FALSE]
<1>1. /\ UNCHANGED <<users, consents, unsub, entered, met, load, faults>>
      /\ req[r].step = "insert" /\ End(r)
      /\ chs' = [chs EXCEPT ![e] = Append(chs[e], row)]
  BY DEF InsertChallenge, bounds
<1>2. e \in Emails /\ GuestTypes /\ req[r].opt \in BOOLEAN
  BY <1>1 DEF GuestInv, ReqSound, GuestTypes, GuestReq
<1>3. row \in Challenge /\ row.attempts = 0 /\ row.uses = 0
  BY <1>2 DEF Challenge
<1>4. chs \in [Emails -> Seq(Challenge)] /\ chs[e] \in Seq(Challenge)
  BY <1>2 DEF GuestTypes
<1>5. /\ req' \in [Reqs -> GuestReq] /\ \A q \in Reqs : q # r => req'[q] = req[q]
      /\ req'[r].step = "none"
  BY <1>1, <1>2, ReqEnds
<1> HIDE DEF row
<1>6. /\ Append(chs[e], row) \in Seq(Challenge)
      /\ DOMAIN Append(chs[e], row) = 1 .. (Len(chs[e]) + 1)
      /\ DOMAIN chs[e] = 1 .. Len(chs[e]) /\ Len(chs[e]) \in Nat
      /\ Append(chs[e], row)[Len(chs[e]) + 1] = row
      /\ \A k \in DOMAIN chs[e] : Append(chs[e], row)[k] = chs[e][k]
  BY <1>3, <1>4
<1>7. chs'[e] = Append(chs[e], row) /\ \A x \in Emails : x # e => chs'[x] = chs[x]
  BY <1>1, <1>2, <1>4
<1>8. chs' \in [Emails -> Seq(Challenge)]
  BY <1>1, <1>4, <1>6
<1>9. \A x \in Emails : /\ DOMAIN chs[x] \subseteq DOMAIN chs'[x]
                        /\ \A k \in DOMAIN chs[x] : chs'[x][k] = chs[x][k]
                        /\ \A k \in DOMAIN chs'[x] : k \in DOMAIN chs[x] \/ chs'[x][k] = row
  <2> TAKE x \in Emails
  <2>1. CASE x = e
    BY <1>6, <1>7, <2>1
  <2>2. CASE x # e
    BY <1>7, <2>2
  <2> QED BY <2>1, <2>2
<1>10. GuestTypes' /\ BoundTypes'
  BY <1>1, <1>5, <1>8 DEF GuestInv, GuestTypes, BoundTypes
<1>11. Forward
  BY <1>1, <1>9 DEF Forward, GuestInv, GuestTypes, Consent
<1>12. ConsentFirst' /\ \A q \in Reqs : ReqSound(q)'
  <2>1. ReqSound(r)'
    BY <1>5 DEF ReqSound
  <2>2. \A q \in Reqs : req'[q] = req[q] \/ ReqSound(q)'
    BY <1>5, <2>1
  <2> QED BY <1>1, <1>10, <1>11, <2>2, ForwardSound
<1>13. TryInv'
  <2>1. \A x \in Emails : \A k \in DOMAIN chs[x] : Trying(x, k)' \subseteq Trying(x, k)
    BY <1>5 DEF Trying
  <2>2. 0 < MaxAttempts
    BY OutreachAssumption
  <2>3. ASSUME NEW x \in Emails, NEW k \in DOMAIN chs'[x]
        PROVE  \/ chs'[x][k].attempts < MaxAttempts
               \/ /\ k \in DOMAIN chs[x] /\ chs'[x][k].attempts = chs[x][k].attempts
                  /\ Trying(x, k)' \subseteq Trying(x, k)
    BY <1>3, <1>9, <2>1, <2>2
  <2> QED BY <1>10, <2>3, TryKept
<1>14. CodeInv'
  <2>1. PhaseKept
    BY <1>1, <1>5 DEF PhaseKept, Verifying
  <2>2. CodesKept
    BY <1>3, <1>9 DEF CodesKept
  <2> QED BY <1>1, <2>1, <2>2, CodeKept
<1> QED BY <1>10, <1>12, <1>13, <1>14 DEF GuestInv

\* Time that passes changes neither attempts nor uses.
LEMMA TimeSound ==
  ASSUME GuestInv, NEW e \in Emails, CooldownOver(e) \/ CodeExpires(e)
  PROVE  GuestInv'
<1>1. UNCHANGED <<users, consents, unsub, entered, req, met, load, faults>>
  BY DEF CooldownOver, CodeExpires, bounds
<1>2. GuestTypes
  BY DEF GuestInv
<1>3. PICK k \in DOMAIN chs[e] : \/ chs' = [chs EXCEPT ![e] = [chs[e] EXCEPT ![k] = [chs[e][k] EXCEPT !.fresh = FALSE]]]
                                 \/ chs' = [chs EXCEPT ![e] = [chs[e] EXCEPT ![k] = [chs[e][k] EXCEPT !.expired = TRUE]]]
  BY DEF CooldownOver, CodeExpires, Pending
<1>4. chs[e][k] \in Challenge
  BY <1>2, ChallengeFields DEF GuestTypes
<1>5. PICK row \in Challenge : /\ chs' = [chs EXCEPT ![e] = [chs[e] EXCEPT ![k] = row]]
                               /\ row.uses = chs[e][k].uses /\ row.attempts = chs[e][k].attempts
                               /\ row.consumed = chs[e][k].consumed
  <2>1. /\ [chs[e][k] EXCEPT !.fresh = FALSE] \in Challenge
        /\ [chs[e][k] EXCEPT !.fresh = FALSE].uses = chs[e][k].uses
        /\ [chs[e][k] EXCEPT !.fresh = FALSE].attempts = chs[e][k].attempts
        /\ [chs[e][k] EXCEPT !.fresh = FALSE].consumed = chs[e][k].consumed
    BY <1>4 DEF Challenge
  <2>2. /\ [chs[e][k] EXCEPT !.expired = TRUE] \in Challenge
        /\ [chs[e][k] EXCEPT !.expired = TRUE].uses = chs[e][k].uses
        /\ [chs[e][k] EXCEPT !.expired = TRUE].attempts = chs[e][k].attempts
        /\ [chs[e][k] EXCEPT !.expired = TRUE].consumed = chs[e][k].consumed
    BY <1>4 DEF Challenge
  <2> QED BY <1>3, <2>1, <2>2
<1>6. /\ chs' \in [Emails -> Seq(Challenge)]
      /\ \A x \in Emails : DOMAIN chs'[x] = DOMAIN chs[x]
      /\ chs'[e][k] = row
      /\ \A x \in Emails : \A j \in DOMAIN chs[x] : x # e \/ j # k => chs'[x][j] = chs[x][j]
  BY <1>2, <1>5, ChallengeSet
<1>7. \A x \in Emails : \A j \in DOMAIN chs[x] : /\ chs'[x][j].uses = chs[x][j].uses
                                                 /\ chs'[x][j].attempts = chs[x][j].attempts
                                                 /\ chs[x][j].consumed => chs'[x][j].consumed
  BY <1>5, <1>6
<1>8. GuestTypes' /\ BoundTypes'
  BY <1>1, <1>6 DEF GuestInv, GuestTypes, BoundTypes
<1>9. Forward
  BY <1>1, <1>6 DEF Forward, GuestInv, GuestTypes, Consent
<1>10. ConsentFirst' /\ \A q \in Reqs : ReqSound(q)'
  BY <1>1, <1>8, <1>9, ForwardSound
<1>11. \A x \in Emails : \A j \in DOMAIN chs[x] : Trying(x, j)' \subseteq Trying(x, j)
  BY <1>1 DEF Trying
<1>12. TryInv'
  BY <1>6, <1>7, <1>8, <1>11, TryKept
<1>13. PhaseKept /\ CodesKept
  BY <1>1, <1>6, <1>7 DEF PhaseKept, CodesKept, Verifying
<1>14. CodeInv'
  BY <1>1, <1>13, CodeKept
<1> QED BY <1>8, <1>10, <1>12, <1>14 DEF GuestInv

\* verifyOtp begins: the limit is tested on the attempts that were read, and a
\* code that is not consumed is unused unless somebody else is verifying.
LEMMA VerifyReadsSound ==
  ASSUME GuestInv, NEW r \in Reqs, NEW e \in Emails, NEW right \in BOOLEAN, VerifyReads(r, e, right)
  PROVE  GuestInv'
<1> DEFINE k == Max(Pending(e))
           step == IF chs[e][k].attempts < MaxAttempts THEN "try" ELSE "exhausted"
           rec == [NoReq EXCEPT !.step = step, !.email = e, !.k = k, !.right = right]
<1>1. /\ UNCHANGED <<users, chs, consents, unsub, entered, load, faults>>
      /\ req[r] = NoReq /\ req' = [req EXCEPT ![r] = rec]
      /\ Pending(e) # {}
      /\ met' = IF \E q \in Reqs : Verifying(q) /\ req[q].email = e THEN met \cup {e} ELSE met
  BY DEF VerifyReads, Begin, bounds
<1>2. GuestTypes /\ chs \in [Emails -> Seq(Challenge)]
  BY DEF GuestInv, GuestTypes
<1>3. k \in DOMAIN chs[e] /\ ~chs[e][k].consumed
  <2>1. chs[e] \in Seq(Challenge) /\ Len(chs[e]) \in Nat /\ Pending(e) \subseteq 1 .. Len(chs[e])
    BY <1>2 DEF Pending
  <2>2. k \in Pending(e)
    BY <1>1, <2>1, MaxIn
  <2> QED BY <2>2 DEF Pending
<1>4. k \in Nat /\ chs[e][k].attempts \in Nat /\ chs[e][k].uses \in Nat
  BY <1>2, <1>3, ChallengeFields
<1> HIDE DEF k
<1>5. /\ rec \in GuestReq /\ rec.email = e /\ rec.k = k
      /\ rec.step \in {"try", "exhausted"} /\ (rec.step = "try" => chs[e][k].attempts < MaxAttempts)
  BY <1>4 DEF NoReq, GuestReq, GuestSteps
<1> HIDE DEF rec, step
<1>6. req' \in [Reqs -> GuestReq] /\ req'[r] = rec /\ \A q \in Reqs : q # r => req'[q] = req[q]
  BY <1>1, <1>2, <1>5, ReqReplaced
<1>7. req[r].step = "none"
  BY <1>1, NoReqSound
<1>8. GuestTypes' /\ BoundTypes'
  BY <1>1, <1>6 DEF GuestInv, GuestTypes, BoundTypes
<1>9. Forward
  BY <1>1 DEF Forward, GuestInv, GuestTypes, Consent
<1>10. ReqSound(r)'
  BY <1>1, <1>3, <1>5, <1>6 DEF ReqSound
<1>11. ConsentFirst' /\ \A q \in Reqs : ReqSound(q)'
  <2>1. \A q \in Reqs : req'[q] = req[q] \/ ReqSound(q)'
    BY <1>6, <1>10
  <2> QED BY <1>1, <1>8, <1>9, <2>1, ForwardSound
<1>12. TryInv'
  <2>1. ASSUME NEW x \in Emails, NEW j \in DOMAIN chs[x]
        PROVE  chs[x][j].attempts < MaxAttempts \/ Trying(x, j)' \subseteq Trying(x, j)
    BY <1>5, <1>6 DEF Trying
  <2> QED BY <1>1, <1>8, <2>1, TryKept
<1>13. CodeInv'
  <2> SUFFICES ASSUME NEW x \in Emails, x \notin met', ~(faults > 0)
               PROVE  CodeOK(x)'
    BY <1>1 DEF CodeInv
  <2>1. CodeOK(x)
    BY <1>1 DEF GuestInv, CodeInv
  <2>2. CASE x # e
    <3>1. \A q \in Reqs : req'[q].email = x => req'[q] = req[q]
      BY <1>5, <1>6, <2>2
    <3>2. \A q \in Reqs : req[q].step = "consume" => req'[q] = req[q]
      BY <1>6, <1>7
    <3> QED BY <1>1, <2>1, <3>1, <3>2 DEF CodeOK, Verifying
  <2>3. CASE x = e
    <3>1. \A q \in Reqs : ~(Verifying(q) /\ req[q].email = e)
      BY <1>1, <2>3
    <3>2. \A q \in Reqs : Verifying(q)' /\ req'[q].email = e => q = r
      BY <1>6, <3>1 DEF Verifying
    <3>3. chs[e][k].uses = 0
      <4>1. chs[e][k].uses # 1
        BY <1>3, <2>1, <2>3, <3>1 DEF CodeOK, Verifying
      <4>2. chs[e][k].uses <= 1
        BY <1>3, <2>1, <2>3 DEF CodeOK
      <4> QED BY <1>4, <4>1, <4>2
    <3>4. \A j \in DOMAIN chs[e] : chs[e][j].uses <= 1 /\ (chs[e][j].uses = 1 => chs[e][j].consumed)
      BY <2>1, <2>3, <3>1 DEF CodeOK, Verifying
    <3> QED BY <1>1, <1>5, <1>6, <2>3, <3>2, <3>3, <3>4 DEF CodeOK
  <2> QED BY <2>2, <2>3
<1> QED BY <1>8, <1>11, <1>12, <1>13 DEF GuestInv

\* Where a request that has read a challenge stands.
LEMMA Held ==
  ASSUME GuestInv, NEW r \in Reqs,
         req[r].step \in {"try", "exhausted", "account", "consent", "consume"}
  PROVE  /\ GuestTypes /\ chs \in [Emails -> Seq(Challenge)]
         /\ req[r].email \in Emails /\ req[r].k \in DOMAIN chs[req[r].email]
         /\ chs[req[r].email][req[r].k] \in Challenge
<1>1. /\ GuestTypes /\ chs \in [Emails -> Seq(Challenge)]
      /\ req[r].email \in Emails /\ req[r].k \in DOMAIN chs[req[r].email]
  BY DEF GuestInv, ReqSound, GuestTypes
<1> QED BY <1>1, ChallengeFields

\* A challenge is consumed.
LEMMA SpendSound ==
  ASSUME GuestInv, NEW r \in Reqs,
         req[r].step \in {"exhausted", "consume"}, Spend(r)
  PROVE  /\ chs' \in [Emails -> Seq(Challenge)]
         /\ \A x \in Emails : DOMAIN chs'[x] = DOMAIN chs[x]
         /\ chs'[req[r].email][req[r].k].consumed
         /\ \A x \in Emails : \A j \in DOMAIN chs[x] :
              /\ chs'[x][j].uses = chs[x][j].uses /\ chs'[x][j].attempts = chs[x][j].attempts
              /\ chs[x][j].consumed => chs'[x][j].consumed
<1> DEFINE e == req[r].email
           k == req[r].k
           row == [chs[e][k] EXCEPT !.consumed = TRUE]
<1>1. /\ GuestTypes /\ e \in Emails /\ k \in DOMAIN chs[e] /\ chs[e][k] \in Challenge
  BY Held
<1>2. chs' = [chs EXCEPT ![e] = [chs[e] EXCEPT ![k] = row]]
  BY DEF Spend
<1>3. /\ row \in Challenge /\ row.consumed /\ row.uses = chs[e][k].uses
      /\ row.attempts = chs[e][k].attempts
  BY <1>1 DEF Challenge
<1> HIDE DEF row, e, k
<1>4. /\ chs' \in [Emails -> Seq(Challenge)]
      /\ \A x \in Emails : DOMAIN chs'[x] = DOMAIN chs[x]
      /\ chs'[e][k] = row
      /\ \A x \in Emails : \A j \in DOMAIN chs[x] : x # e \/ j # k => chs'[x][j] = chs[x][j]
  BY <1>1, <1>2, <1>3, ChallengeSet
<1> QED BY <1>3, <1>4 DEF e, k

\* Too many attempts.
LEMMA ExhaustedSound ==
  ASSUME GuestInv, NEW r \in Reqs, ConsumeExhausted(r)
  PROVE  GuestInv'
<1>1. /\ UNCHANGED <<users, consents, unsub, entered, met, load, faults>>
      /\ req[r].step = "exhausted" /\ Spend(r) /\ End(r)
  BY DEF ConsumeExhausted, bounds
<1>2. /\ chs' \in [Emails -> Seq(Challenge)]
      /\ \A x \in Emails : DOMAIN chs'[x] = DOMAIN chs[x]
      /\ \A x \in Emails : \A j \in DOMAIN chs[x] :
           /\ chs'[x][j].uses = chs[x][j].uses /\ chs'[x][j].attempts = chs[x][j].attempts
           /\ chs[x][j].consumed => chs'[x][j].consumed
  BY <1>1, SpendSound
<1>3. /\ req' \in [Reqs -> GuestReq] /\ \A q \in Reqs : q # r => req'[q] = req[q]
      /\ req'[r].step = "none"
  BY <1>1, ReqEnds DEF GuestInv
<1>4. GuestTypes' /\ BoundTypes'
  BY <1>1, <1>2, <1>3 DEF GuestInv, GuestTypes, BoundTypes
<1>5. Forward
  BY <1>1, <1>2 DEF Forward, GuestInv, GuestTypes, Consent
<1>6. ConsentFirst' /\ \A q \in Reqs : ReqSound(q)'
  <2>1. ReqSound(r)'
    BY <1>3 DEF ReqSound
  <2>2. \A q \in Reqs : req'[q] = req[q] \/ ReqSound(q)'
    BY <1>3, <2>1
  <2> QED BY <1>1, <1>4, <1>5, <2>2, ForwardSound
<1>7. TryInv'
  <2>1. \A x \in Emails : \A j \in DOMAIN chs[x] : Trying(x, j)' \subseteq Trying(x, j)
    BY <1>3 DEF Trying
  <2> QED BY <1>2, <1>4, <2>1, TryKept
<1>8. PhaseKept
  BY <1>1, <1>3 DEF PhaseKept, Verifying
<1>9. CodesKept
  BY <1>2 DEF CodesKept
<1>10. CodeInv'
  BY <1>1, <1>8, <1>9, CodeKept
<1> QED BY <1>4, <1>6, <1>7, <1>10 DEF GuestInv

\* The attempt that was to come is counted.
LEMMA CountAttemptSound ==
  ASSUME GuestInv, NEW r \in Reqs, CountAttempt(r)
  PROVE  GuestInv'
<1>0. PICK e, k : e = req[r].email /\ k = req[r].k
  OBVIOUS
<1> DEFINE row == [chs[e][k] EXCEPT !.attempts = chs[e][k].attempts + 1]
<1>1. /\ UNCHANGED <<users, consents, unsub, entered, met, load, faults>>
      /\ req[r].step = "try" /\ (Goto(r, "account") \/ End(r))
      /\ chs' = [chs EXCEPT ![e] = [chs[e] EXCEPT ![k] = row]]
  BY <1>0 DEF CountAttempt, bounds
<1>2. /\ GuestTypes /\ e \in Emails /\ k \in DOMAIN chs[e] /\ chs[e][k] \in Challenge
  BY <1>0, <1>1, Held
<1>3. /\ row \in Challenge /\ row.consumed = chs[e][k].consumed /\ row.uses = chs[e][k].uses
      /\ row.attempts = chs[e][k].attempts + 1
  BY <1>2 DEF Challenge
<1> HIDE DEF row
<1>4. /\ chs' \in [Emails -> Seq(Challenge)]
      /\ \A x \in Emails : DOMAIN chs'[x] = DOMAIN chs[x]
      /\ chs'[e][k] = row
      /\ \A x \in Emails : \A j \in DOMAIN chs[x] : x # e \/ j # k => chs'[x][j] = chs[x][j]
  BY <1>1, <1>2, <1>3, ChallengeSet
<1>5. /\ req' \in [Reqs -> GuestReq] /\ \A q \in Reqs : q # r => req'[q] = req[q]
      /\ req'[r].step = "none" \/ (req'[r].step = "account" /\ req'[r].email = e /\ req'[r].k = k)
  <2>1. "account" \in GuestSteps
    BY DEF GuestSteps
  <2>2. CASE Goto(r, "account")
    BY <1>0, <1>2, <2>1, <2>2, ReqGoes
  <2>3. CASE End(r)
    BY <1>2, <2>3, ReqEnds
  <2> QED BY <1>1, <2>2, <2>3
<1>6. GuestTypes' /\ BoundTypes'
  BY <1>1, <1>4, <1>5 DEF GuestInv, GuestTypes, BoundTypes
<1>7. Forward
  BY <1>1, <1>4 DEF Forward, GuestInv, GuestTypes, Consent
<1>8. ConsentFirst' /\ \A q \in Reqs : ReqSound(q)'
  <2>1. ReqSound(r)'
    BY <1>2, <1>4, <1>5 DEF ReqSound
  <2>2. \A q \in Reqs : req'[q] = req[q] \/ ReqSound(q)'
    BY <1>5, <2>1
  <2> QED BY <1>1, <1>6, <1>7, <2>2, ForwardSound
<1>9. TryInv'
  <2>1. r \in Trying(e, k) /\ Trying(e, k)' = Trying(e, k) \ {r}
    <3>1. r \in Trying(e, k)
      BY <1>0, <1>1 DEF Trying
    <3>2. \A q \in Reqs : (q \in Trying(e, k)') <=> (q \in Trying(e, k) /\ q # r)
      BY <1>5 DEF Trying
    <3> QED BY <3>1, <3>2 DEF Trying
  <2>2. \A x \in Emails : \A j \in DOMAIN chs[x] : Trying(x, j)' \subseteq Trying(x, j)
    BY <1>5 DEF Trying
  <2>3. ASSUME NEW x \in Emails, NEW j \in DOMAIN chs'[x]
        PROVE  \/ /\ j \in DOMAIN chs[x] /\ chs'[x][j].attempts = chs[x][j].attempts
                  /\ Trying(x, j)' \subseteq Trying(x, j)
               \/ /\ j \in DOMAIN chs[x] /\ chs'[x][j].attempts = chs[x][j].attempts + 1
                  /\ \E q \in Trying(x, j) : Trying(x, j)' = Trying(x, j) \ {q}
    <3>1. CASE x = e /\ j = k
      BY <1>2, <1>3, <1>4, <2>1, <3>1
    <3>2. CASE x # e \/ j # k
      BY <1>4, <2>2, <3>2
    <3> QED BY <3>1, <3>2
  <2> QED BY <1>6, <2>3, TryKept
<1>10. PhaseKept
  BY <1>0, <1>1, <1>5 DEF PhaseKept, Verifying
<1>11. CodesKept
  <2>1. \A x \in Emails : \A j \in DOMAIN chs[x] : /\ chs'[x][j].uses = chs[x][j].uses
                                                   /\ chs[x][j].consumed => chs'[x][j].consumed
    BY <1>3, <1>4
  <2> QED BY <1>4, <2>1 DEF CodesKept
<1>12. CodeInv'
  BY <1>1, <1>10, <1>11, CodeKept
<1> QED BY <1>6, <1>8, <1>9, <1>12 DEF GuestInv

\* A row of iam.users: an address that is verified stays so.
LEMMA CreateAccountSound ==
  ASSUME GuestInv, NEW r \in Reqs, CreateAccount(r)
  PROVE  GuestInv'
<1> DEFINE e == req[r].email
<1>1. /\ UNCHANGED <<chs, consents, unsub, entered, met, load, faults>>
      /\ req[r].step = "account" /\ Goto(r, "consent")
      /\ users' = [users EXCEPT ![e] =
           IF users[e].there THEN [users[e] EXCEPT !.verified = TRUE]
           ELSE [there |-> TRUE, active |-> TRUE, verified |-> TRUE]]
  BY DEF CreateAccount, bounds
<1>2. /\ GuestTypes /\ e \in Emails /\ req[r].k \in DOMAIN chs[e]
  BY <1>1, Held
<1>3. /\ users' \in [Emails -> UserRow] /\ users'[e].verified
      /\ \A x \in Emails : users[x].verified => users'[x].verified
  BY <1>1, <1>2 DEF GuestTypes, UserRow
<1>4. "consent" \in GuestSteps
  BY DEF GuestSteps
<1>5. /\ req' \in [Reqs -> GuestReq] /\ \A q \in Reqs : q # r => req'[q] = req[q]
      /\ req'[r].step = "consent" /\ req'[r].email = e /\ req'[r].k = req[r].k
  BY <1>1, <1>2, <1>4, ReqGoes
<1>6. GuestTypes' /\ BoundTypes'
  BY <1>1, <1>3, <1>5 DEF GuestInv, GuestTypes, BoundTypes
<1>7. Forward
  BY <1>1, <1>3 DEF Forward, GuestInv, GuestTypes, Consent
<1>8. ConsentFirst' /\ \A q \in Reqs : ReqSound(q)'
  <2>1. ReqSound(r)'
    BY <1>1, <1>2, <1>3, <1>5 DEF ReqSound
  <2>2. \A q \in Reqs : req'[q] = req[q] \/ ReqSound(q)'
    BY <1>5, <2>1
  <2> QED BY <1>1, <1>6, <1>7, <2>2, ForwardSound
<1>9. TryInv'
  <2>1. \A x \in Emails : \A j \in DOMAIN chs[x] : Trying(x, j)' \subseteq Trying(x, j)
    BY <1>5 DEF Trying
  <2> QED BY <1>1, <1>6, <2>1, TryKept
<1>10. PhaseKept /\ CodesKept
  BY <1>1, <1>5 DEF PhaseKept, CodesKept, Verifying
<1>11. CodeInv'
  BY <1>1, <1>10, CodeKept
<1> QED BY <1>6, <1>8, <1>9, <1>11 DEF GuestInv

\* Without another verification the code was unused; now this request is about
\* to consume it.
LEMMA LogConsentSound ==
  ASSUME GuestInv, NEW r \in Reqs, LogConsent(r)
  PROVE  GuestInv'
<1> DEFINE e == req[r].email
           k == req[r].k
           row == [chs[e][k] EXCEPT !.uses = chs[e][k].uses + 1]
<1>0. /\ UNCHANGED <<users, unsub, entered, met, load, faults>>
      /\ req[r].step = "consent" /\ Goto(r, "consume")
  BY DEF LogConsent, bounds
<1>1. /\ UNCHANGED <<users, unsub, entered, met, load, faults>>
      /\ req[r].step = "consent" /\ Goto(r, "consume")
      /\ consents' = IF chs[e][k].opt THEN [consents EXCEPT ![e].yes = consents[e].yes + 1]
                     ELSE [consents EXCEPT ![e].no = consents[e].no + 1]
      /\ chs' = [chs EXCEPT ![e] = [chs[e] EXCEPT ![k] = row]]
  <2>1. consents' = IF chs[e][k].opt THEN [consents EXCEPT ![e].yes = consents[e].yes + 1]
                    ELSE [consents EXCEPT ![e].no = consents[e].no + 1]
    BY DEF LogConsent
  <2>2. chs' = [chs EXCEPT ![e] = [chs[e] EXCEPT ![k] = row]]
    BY DEF LogConsent
  <2> QED BY <1>0, <2>1, <2>2
<1>2. /\ GuestTypes /\ e \in Emails /\ k \in DOMAIN chs[e] /\ chs[e][k] \in Challenge
      /\ users[e].verified
  BY <1>1, Held DEF GuestInv, ReqSound
<1>3. /\ row \in Challenge /\ row.uses = chs[e][k].uses + 1
      /\ row.attempts = chs[e][k].attempts
  BY <1>2 DEF Challenge
<1> HIDE DEF row
<1>4. /\ chs' \in [Emails -> Seq(Challenge)]
      /\ \A x \in Emails : DOMAIN chs'[x] = DOMAIN chs[x]
      /\ chs'[e][k] = row
      /\ \A x \in Emails : \A j \in DOMAIN chs[x] : x # e \/ j # k => chs'[x][j] = chs[x][j]
  BY <1>1, <1>2, <1>3, ChallengeSet
<1>5. /\ consents' \in [Emails -> Consent] /\ consents'[e].yes + consents'[e].no > 0
      /\ \A x \in Emails : consents[x].yes <= consents'[x].yes /\ consents[x].no <= consents'[x].no
  <2>1. consents \in [Emails -> Consent] /\ consents[e].yes \in Nat /\ consents[e].no \in Nat
    BY <1>2 DEF GuestTypes, Consent
  <2>2. PICK c \in Consent : /\ consents' = [consents EXCEPT ![e] = c]
                             /\ c.yes + c.no > 0 /\ consents[e].yes <= c.yes /\ consents[e].no <= c.no
    <3>1. CASE chs[e][k].opt
      <4>1. consents' = [consents EXCEPT ![e] = [consents[e] EXCEPT !.yes = consents[e].yes + 1]]
        BY <1>1, <3>1
      <4>2. LET c == [consents[e] EXCEPT !.yes = consents[e].yes + 1]
            IN  c \in Consent /\ c.yes = consents[e].yes + 1 /\ c.no = consents[e].no
        BY <1>2, <2>1 DEF Consent
      <4>3. \A a, b \in Nat : a + 1 + b > 0 /\ a <= a + 1 /\ b <= b
        OBVIOUS
      <4> QED BY <2>1, <4>1, <4>2, <4>3
    <3>2. CASE ~chs[e][k].opt
      <4>1. consents' = [consents EXCEPT ![e] = [consents[e] EXCEPT !.no = consents[e].no + 1]]
        BY <1>1, <3>2
      <4>2. LET c == [consents[e] EXCEPT !.no = consents[e].no + 1]
            IN  c \in Consent /\ c.no = consents[e].no + 1 /\ c.yes = consents[e].yes
        BY <1>2, <2>1 DEF Consent
      <4>3. \A a, b \in Nat : a + (b + 1) > 0 /\ a <= a /\ b <= b + 1
        OBVIOUS
      <4> QED BY <2>1, <4>1, <4>2, <4>3
    <3> QED BY <3>1, <3>2
  <2> QED BY <1>2, <2>1, <2>2 DEF Consent
<1>6. "consume" \in GuestSteps
  BY DEF GuestSteps
<1>7. /\ req' \in [Reqs -> GuestReq] /\ \A q \in Reqs : q # r => req'[q] = req[q]
      /\ req'[r].step = "consume" /\ req'[r].email = e /\ req'[r].k = k
  BY <1>1, <1>2, <1>6, ReqGoes
<1>8. GuestTypes' /\ BoundTypes'
  BY <1>1, <1>4, <1>5, <1>7 DEF GuestInv, GuestTypes, BoundTypes
<1>9. Forward
  BY <1>1, <1>4, <1>5 DEF Forward
<1>10. ConsentFirst' /\ \A q \in Reqs : ReqSound(q)'
  <2>1. ReqSound(r)'
    BY <1>1, <1>2, <1>4, <1>5, <1>7 DEF ReqSound
  <2>2. \A q \in Reqs : req'[q] = req[q] \/ ReqSound(q)'
    BY <1>7, <2>1
  <2> QED BY <1>1, <1>8, <1>9, <2>2, ForwardSound
<1>11. TryInv'
  <2>1. \A x \in Emails : \A j \in DOMAIN chs[x] : Trying(x, j)' \subseteq Trying(x, j)
    BY <1>7 DEF Trying
  <2>2. \A x \in Emails : \A j \in DOMAIN chs[x] : chs'[x][j].attempts = chs[x][j].attempts
    BY <1>3, <1>4
  <2> QED BY <1>4, <1>8, <2>1, <2>2, TryKept
<1>12. CodeInv'
  <2> SUFFICES ASSUME NEW x \in Emails, x \notin met', ~(faults > 0)
               PROVE  CodeOK(x)'
    BY <1>1 DEF CodeInv
  <2>1. CodeOK(x)
    BY <1>1 DEF GuestInv, CodeInv
  <2>2. CASE x # e
    <3>1. \A q \in Reqs : req'[q].email = x => req'[q] = req[q]
      BY <1>7, <2>2
    <3>2. \A q \in Reqs : req[q].email = x => req'[q] = req[q]
      BY <1>7, <2>2
    <3>3. \A q \in Reqs : Verifying(q) /\ req[q].email = x => req[q].k \in DOMAIN chs[x]
      BY DEF GuestInv, ReqSound, Verifying
    <3>4. DOMAIN chs'[x] = DOMAIN chs[x] /\ \A j \in DOMAIN chs[x] : chs'[x][j] = chs[x][j]
      BY <1>4, <2>2
    <3> QED BY <2>1, <3>1, <3>2, <3>3, <3>4 DEF CodeOK, Verifying
  <2>3. CASE x = e
    <3>1. \A q \in Reqs : Verifying(q) /\ req[q].email = e => q = r
      BY <1>1, <2>1, <2>3 DEF CodeOK, Verifying
    <3>2. \A q \in Reqs : Verifying(q)' /\ req'[q].email = e => q = r
      BY <1>7, <3>1 DEF Verifying
    <3>3. chs[e][k].uses = 0
      BY <1>1, <2>1, <2>3 DEF CodeOK, Verifying
    <3>4. chs'[e][k].uses = 1
      BY <1>3, <1>4, <3>3
    <3>5. \A j \in DOMAIN chs[e] : j # k => /\ chs'[e][j].uses <= 1
                                            /\ chs'[e][j].uses = 1 => chs'[e][j].consumed
      <4>1. \A q \in Reqs : req[q].step = "consume" => req[q].email # e
        BY <1>1, <3>1 DEF Verifying
      <4> QED BY <1>2, <1>4, <2>1, <2>3, <4>1 DEF CodeOK
    <3>6. DOMAIN chs'[e] = DOMAIN chs[e]
      BY <1>2, <1>4
    <3> QED BY <1>7, <2>3, <3>2, <3>4, <3>5, <3>6 DEF CodeOK
  <2> QED BY <2>2, <2>3
<1> QED BY <1>8, <1>10, <1>11, <1>12 DEF GuestInv

\* The code that was used is consumed; the verification is over.
LEMMA ConsumeSound ==
  ASSUME GuestInv, NEW r \in Reqs, ConsumeChallenge(r)
  PROVE  GuestInv'
<1>0. PICK e, k : e = req[r].email /\ k = req[r].k
  OBVIOUS
<1>1. /\ UNCHANGED <<users, consents, unsub, entered, met, load, faults>>
      /\ req[r].step = "consume" /\ Spend(r) /\ Goto(r, "session")
  BY DEF ConsumeChallenge, bounds
<1>2. /\ GuestTypes /\ e \in Emails /\ k \in DOMAIN chs[e] /\ ReqSound(r)
  BY <1>0, <1>1, Held DEF GuestInv
<1>3. /\ chs' \in [Emails -> Seq(Challenge)]
      /\ \A x \in Emails : DOMAIN chs'[x] = DOMAIN chs[x]
      /\ chs'[e][k].consumed
      /\ \A x \in Emails : \A j \in DOMAIN chs[x] :
           /\ chs'[x][j].uses = chs[x][j].uses /\ chs'[x][j].attempts = chs[x][j].attempts
           /\ chs[x][j].consumed => chs'[x][j].consumed
  BY <1>0, <1>1, SpendSound
<1>4. "session" \in GuestSteps
  BY DEF GuestSteps
<1>5. /\ req' \in [Reqs -> GuestReq] /\ \A q \in Reqs : q # r => req'[q] = req[q]
      /\ req'[r].step = "session" /\ req'[r].email = e /\ req'[r].k = k
  BY <1>0, <1>1, <1>2, <1>4, ReqGoes
<1>6. GuestTypes' /\ BoundTypes'
  BY <1>1, <1>3, <1>5 DEF GuestInv, GuestTypes, BoundTypes
<1>7. Forward
  BY <1>1, <1>3 DEF Forward, GuestInv, GuestTypes, Consent
<1>8. ConsentFirst' /\ \A q \in Reqs : ReqSound(q)'
  <2>1. ReqSound(r)'
    BY <1>0, <1>1, <1>2, <1>5 DEF ReqSound
  <2>2. \A q \in Reqs : req'[q] = req[q] \/ ReqSound(q)'
    BY <1>5, <2>1
  <2> QED BY <1>1, <1>6, <1>7, <2>2, ForwardSound
<1>9. TryInv'
  <2>1. \A x \in Emails : \A j \in DOMAIN chs[x] : Trying(x, j)' \subseteq Trying(x, j)
    BY <1>5 DEF Trying
  <2> QED BY <1>3, <1>6, <2>1, TryKept
<1>10. CodeInv'
  <2> SUFFICES ASSUME NEW x \in Emails, CodeOK(x)
               PROVE  CodeOK(x)'
    BY <1>1 DEF GuestInv, CodeInv
  <2>1. \A q \in Reqs : Verifying(q)' => q # r /\ req'[q] = req[q] /\ Verifying(q)
                                         /\ req[q].k \in DOMAIN chs[req[q].email]
    BY <1>5 DEF Verifying, GuestInv, ReqSound
  <2>2. \A p, q \in Reqs :
          Verifying(p)' /\ req'[p].email = x /\ Verifying(q)' /\ req'[q].email = x => p = q
    BY <2>1 DEF CodeOK
  <2>3. \A q \in Reqs : Verifying(q)' /\ req'[q].email = x /\ req'[q].step # "consume" =>
          chs'[x][req'[q].k].uses = 0
    BY <1>3, <2>1 DEF CodeOK
  <2>4. ASSUME NEW j \in DOMAIN chs'[x]
        PROVE  /\ chs'[x][j].uses <= 1
               /\ chs'[x][j].uses = 1 /\ ~chs'[x][j].consumed =>
                    \E q \in Reqs : req'[q].step = "consume" /\ req'[q].email = x /\ req'[q].k = j
    <3>1. /\ chs'[x][j].uses <= 1
          /\ chs'[x][j].uses = 1 /\ ~chs'[x][j].consumed =>
               \E q \in Reqs : req[q].step = "consume" /\ req[q].email = x /\ req[q].k = j
      BY <1>3 DEF CodeOK
    <3>2. ~chs'[x][j].consumed => x # e \/ j # k
      BY <1>3
    <3> QED BY <1>0, <1>5, <3>1, <3>2
  <2> QED BY <2>2, <2>3, <2>4 DEF CodeOK
<1> QED BY <1>6, <1>8, <1>9, <1>10 DEF GuestInv

\* A request that fails: what was recorded before stays.
LEMMA RequestFailsSound ==
  ASSUME GuestInv, NEW r \in Reqs, RequestFails(r)
  PROVE  GuestInv'
<1>1. /\ UNCHANGED <<users, chs, consents, unsub, entered, met, load>>
      /\ faults' = faults + 1 /\ End(r)
  BY DEF RequestFails, Fault
<1>2. faults \in Nat
  BY DEF GuestInv, BoundTypes
<1>3. /\ req' \in [Reqs -> GuestReq] /\ \A q \in Reqs : q # r => req'[q] = req[q]
      /\ req'[r].step = "none"
  BY <1>1, ReqEnds DEF GuestInv
<1>4. GuestTypes' /\ BoundTypes'
  BY <1>1, <1>2, <1>3 DEF GuestInv, GuestTypes, BoundTypes
<1>5. Forward
  BY <1>1 DEF Forward, GuestInv, GuestTypes, Consent
<1>6. ConsentFirst' /\ \A q \in Reqs : ReqSound(q)'
  <2>1. ReqSound(r)'
    BY <1>3 DEF ReqSound
  <2>2. \A q \in Reqs : req'[q] = req[q] \/ ReqSound(q)'
    BY <1>3, <2>1
  <2> QED BY <1>1, <1>4, <1>5, <2>2, ForwardSound
<1>7. TryInv'
  <2>1. \A x \in Emails : \A j \in DOMAIN chs[x] : Trying(x, j)' \subseteq Trying(x, j)
    BY <1>3 DEF Trying
  <2> QED BY <1>1, <1>4, <2>1, TryKept
<1>8. CodeInv'
  BY <1>1, <1>2 DEF CodeInv
<1> QED BY <1>4, <1>6, <1>7, <1>8 DEF GuestInv

\* Steps outside guests' requests: of users, of the list of unsubscribed
\* addresses, and of campaigns.
LEMMA OutsideSound ==
  ASSUME GuestInv, UNCHANGED <<chs, consents, entered, req, met, load>>, unsub' \subseteq Emails,
         users' \in [Emails -> UserRow], \A e \in Emails : users[e].verified => users'[e].verified,
         faults' \in Nat, faults <= faults'
  PROVE  GuestInv'
<1>1. GuestTypes' /\ BoundTypes' /\ faults \in Nat
  BY DEF GuestInv, GuestTypes, BoundTypes
<1>2. Forward
  BY DEF Forward, GuestInv, GuestTypes, Consent
<1>3. ConsentFirst' /\ \A q \in Reqs : ReqSound(q)'
  BY <1>1, <1>2, ForwardSound
<1>4. TryInv'
  BY DEF GuestInv, TryInv, Trying
<1>5. \A e \in Emails : CodeOK(e) => CodeOK(e)'
  BY DEF CodeOK, Verifying
<1>6. CodeInv'
  BY <1>1, <1>5 DEF GuestInv, CodeInv
<1> QED BY <1>1, <1>3, <1>4, <1>6 DEF GuestInv

\* Unsubscriptions, registrations with a password, and administrators.
LEMMA UserOpSound ==
  ASSUME GuestInv, NEW e \in Emails, Unsubscribe(e) \/ RegisterPending(e) \/ UpdateUserStatus(e)
  PROVE  GuestInv'
<1>1. /\ UNCHANGED <<chs, consents, entered, req, met, load, faults>>
      /\ unsub' = unsub \/ unsub' = unsub \cup {e}
  BY DEF Unsubscribe, RegisterPending, UpdateUserStatus, Op
<1>2. unsub' \subseteq Emails /\ users \in [Emails -> UserRow] /\ faults \in Nat
  BY <1>1 DEF GuestInv, GuestTypes, BoundTypes
<1>3. users' \in [Emails -> UserRow] /\ \A x \in Emails : users[x].verified => users'[x].verified
  <2>1. CASE Unsubscribe(e)
    BY <1>2, <2>1 DEF Unsubscribe
  <2>2. CASE RegisterPending(e)
    <3>1. users' = [users EXCEPT ![e].there = TRUE]
      BY <2>2 DEF RegisterPending
    <3> QED BY <1>2, <3>1 DEF UserRow
  <2>3. CASE UpdateUserStatus(e)
    <3>1. users' = [users EXCEPT ![e].active = ~users[e].active]
      BY <2>3 DEF UpdateUserStatus
    <3> QED BY <1>2, <3>1 DEF UserRow
  <2> QED BY <2>1, <2>2, <2>3
<1> QED BY <1>1, <1>2, <1>3, OutsideSound

\* The steps of campaigns leave guests alone.
LEMMA CampaignOutside ==
  ASSUME GuestInv, UNCHANGED <<guests, load>>, faults' = faults \/ faults' = faults + 1
  PROVE  GuestInv'
<1>1. /\ UNCHANGED <<users, chs, consents, unsub, entered, req, met, load>>
      /\ faults \in Nat /\ faults' \in Nat /\ faults <= faults'
      /\ users \in [Emails -> UserRow] /\ unsub \subseteq Emails
  BY DEF guests, GuestInv, GuestTypes, BoundTypes
<1> QED BY <1>1, OutsideSound

-----------------------------------------------------------------------------
(* What steps of campaigns have in common.                                  *)

\* A step of one send.
OneSends(s) == snd' \in [Sends -> SendReq] /\ \A q \in Sends : q # s => snd'[q] = snd[q]

\* No send at all.
LEMMA NoSendSound ==
  /\ NoSend \in SendReq /\ NoSend.step = "none" /\ NoSend.spare = {}
  /\ \A e \in Emails : NoSend.todo[e] = 0
BY DEF NoSend, SendReq, SendSteps

\* One send is replaced.
LEMMA SendReplaced ==
  ASSUME SendTypes, NEW s \in Sends, NEW rec \in SendReq, snd' = [snd EXCEPT ![s] = rec]
  PROVE  OneSends(s) /\ snd'[s] = rec
BY DEF SendTypes, OneSends

\* A send that ends.
LEMMA SendEndsFacts ==
  ASSUME SendTypes, NEW s \in Sends, SendEnds(s)
  PROVE  OneSends(s) /\ snd'[s].step = "none" /\ \A e \in Emails : snd'[s].todo[e] = 0
BY NoSendSound DEF SendTypes, SendEnds, OneSends

\* The fields of a send.
LEMMA SendFields ==
  ASSUME SendTypes, NEW s \in Sends
  PROVE  /\ snd[s].todo \in [Emails -> Nat] /\ snd[s].gone \subseteq Emails /\ snd[s].spare \subseteq Emails
         /\ \A e \in Emails : snd[s].todo[e] \in Nat /\ mailed[e] \in Nat
         /\ snd[s].step \in SendSteps
BY DEF SendTypes, SendReq

\* What a send has read, for a step that changes neither the list of
\* unsubscribed addresses nor the kind of mail.
LEMMA SpareKept ==
  ASSUME SpareInv, NEW s \in Sends, OneSends(s), camp'.type = camp.type, camp'.status # "none",
         unsub' = unsub, SpareOK(s)'
  PROVE  SpareInv'
<1>1. ASSUME NEW q \in Sends, q # s PROVE SpareOK(q)'
  <2>1. SpareOK(q) /\ snd'[q] = snd[q]
    BY <1>1 DEF SpareInv, OneSends
  <2> QED BY <2>1 DEF SpareOK, Active, Sending
<1> QED BY <1>1 DEF SpareInv

\* A send that ends spares everybody.
LEMMA EndSpares ==
  ASSUME NEW s \in Sends, snd'[s].step = "none"
  PROVE  SpareOK(s)'
BY DEF SpareOK, Active, Sending

\* A send that ends or goes on within its phase, without forgetting that it has
\* sent and without a longer audience.
LEMMA MailKept ==
  ASSUME SendTypes, MailInv, NEW s \in Sends, OneSends(s),
         UNCHANGED <<mailed, raced, faults, consents>>, camp'.status = camp.status,
         Active(s)' => Active(s), Deciding(s)' => Deciding(s), Sending(s)' => Sending(s),
         Sending(s) /\ (snd[s].sent \/ snd[s].step = "sent") =>
           Sending(s)' /\ (snd'[s].sent \/ snd'[s].step = "sent"),
         \A e \in Emails : snd'[s].todo[e] \in Nat /\ snd'[s].todo[e] <= snd[s].todo[e]
  PROVE  MailInv'
<1> SUFFICES ASSUME ~raced, ~(faults > 0), OneSend, MailKnown,
                    \A e \in Emails : consents[e].yes > 1 \/ MailOK(e)
             PROVE  OneSend' /\ MailKnown' /\ \A e \in Emails : consents'[e].yes > 1 \/ MailOK(e)'
  BY DEF MailInv
<1>1. \A q \in Sends : /\ Active(q)' => Active(q)
                       /\ Deciding(q)' => Deciding(q)
                       /\ Sending(q)' => Sending(q)
                       /\ Sending(q) /\ (snd[q].sent \/ snd[q].step = "sent") =>
                            Sending(q)' /\ (snd'[q].sent \/ snd'[q].step = "sent")
  <2> TAKE q \in Sends
  <2>1. CASE q = s
    BY <2>1
  <2>2. CASE q # s
    <3>1. snd'[q] = snd[q]
      BY <2>2 DEF OneSends
    <3> QED BY <3>1 DEF Active, Deciding, Sending
  <2> QED BY <2>1, <2>2
<1>2. OneSend'
  BY <1>1 DEF OneSend
<1>3. MailKnown'
  BY <1>1 DEF MailKnown
<1>4. \A q \in Sends, e \in Emails : /\ snd'[q].todo[e] <= snd[q].todo[e]
                                     /\ snd[q].todo[e] \in Nat /\ snd'[q].todo[e] \in Nat
  BY SendFields DEF OneSends
<1>5. ASSUME NEW e \in Emails, MailOK(e) PROVE MailOK(e)'
  BY <1>1, <1>4, <1>5 DEF MailOK
<1> QED BY <1>2, <1>3, <1>5

-----------------------------------------------------------------------------
(* The steps of campaigns.                                                  *)

\* A campaign is created: nothing is being sent.
LEMMA DraftSound ==
  ASSUME SendInv, NEW t \in Types, NEW a \in Audiences, CreateDraft(t, a)
  PROVE  SendInv'
<1>1. /\ UNCHANGED <<consents, unsub, snd, mailed, raced, faults>> /\ camp.status = "none"
      /\ camp' = [status |-> "draft", type |-> t, aud |-> a]
  BY DEF CreateDraft, guests, bounds
<1>2. SendTypes' /\ camp'.status = "draft"
  BY <1>1 DEF SendInv, SendTypes, Campaign
<1>3. \A s \in Sends : snd[s].step = "none"
  BY <1>1 DEF SendInv, SpareInv, Active
<1>4. SpareInv'
  BY <1>1, <1>2, <1>3 DEF SpareInv, SpareOK, Active, Sending
<1>5. MailInv'
  <2> SUFFICES ASSUME ~raced, ~(faults > 0), OneSend, MailKnown,
                      \A e \in Emails : consents[e].yes > 1 \/ MailOK(e)
               PROVE  OneSend' /\ MailKnown' /\ \A e \in Emails : consents'[e].yes > 1 \/ MailOK(e)'
    BY <1>1 DEF SendInv, MailInv
  <2>1. OneSend'
    BY <1>1, <1>3 DEF OneSend, Active, Deciding, Sending
  <2>2. \A e \in Emails : ~(mailed[e] > 0)
    BY <1>1, <1>3 DEF MailKnown, Sending
  <2>3. MailKnown'
    BY <1>1, <2>2 DEF MailKnown
  <2>4. \A e \in Emails : MailOK(e) => MailOK(e)'
    BY <1>1 DEF MailOK, Active
  <2> QED BY <1>1, <2>1, <2>3, <2>4
<1> QED BY <1>2, <1>4, <1>5 DEF SendInv

\* sendCampaign begins: unless another send is deciding, none is under way.
LEMMA SendReadsSound ==
  ASSUME SendInv, unsub \subseteq Emails, NEW s \in Sends, SendReads(s)
  PROVE  SendInv'
<1> DEFINE rec == [NoSend EXCEPT !.step = "audience", !.spare = unsub]
<1>1. /\ UNCHANGED <<consents, unsub, camp, mailed, faults>> /\ camp.status \in {"draft", "failed"}
      /\ snd[s] = NoSend /\ snd' = [snd EXCEPT ![s] = rec]
      /\ raced' = (raced \/ \E q \in Sends : Deciding(q))
  BY DEF SendReads, guests, bounds
<1>2. /\ rec \in SendReq /\ rec.step = "audience" /\ rec.spare = unsub
      /\ rec.todo = NoSend.todo
  BY DEF NoSend, SendReq, SendSteps
<1> HIDE DEF rec
<1>3. OneSends(s) /\ snd'[s] = rec /\ snd[s].step = "none"
  BY <1>1, <1>2, NoSendSound DEF SendInv, SendTypes, OneSends
<1>4. SendTypes'
  BY <1>1, <1>3 DEF SendInv, SendTypes, OneSends
<1>5. SpareOK(s)'
  BY <1>1, <1>2, <1>3 DEF SpareOK, Active, Sending
<1>6. SpareInv'
  BY <1>1, <1>3, <1>5, SpareKept DEF SendInv
<1>7. MailInv'
  <2> SUFFICES ASSUME ~raced', ~(faults > 0)
               PROVE  OneSend' /\ MailKnown' /\ \A e \in Emails : consents'[e].yes > 1 \/ MailOK(e)'
    BY <1>1 DEF MailInv
  <2>1. /\ OneSend /\ MailKnown /\ \A e \in Emails : consents[e].yes > 1 \/ MailOK(e)
        /\ \A q \in Sends : ~Deciding(q)
    BY <1>1 DEF SendInv, MailInv
  <2>2. \A q \in Sends : snd[q].step = "none"
    <3>1. \A q \in Sends : ~Sending(q) /\ ~Deciding(q)
      BY <1>1, <2>1 DEF OneSend
    <3> QED BY <3>1, SendFields DEF SendInv, Sending, Deciding, SendSteps
  <2>3. \A q \in Sends : q # s => snd'[q].step = "none"
    BY <1>3, <2>2 DEF OneSends
  <2>4. OneSend'
    BY <1>1, <1>2, <1>3, <2>3 DEF OneSend, Active, Deciding, Sending
  <2>5. \A e \in Emails : ~(mailed[e] > 0)
    BY <1>1, <2>1, <2>2 DEF MailKnown, Sending
  <2>6. MailKnown'
    BY <1>1, <2>5 DEF MailKnown
  <2>7. \A e \in Emails : snd'[s].todo[e] = 0
    BY <1>2, <1>3, NoSendSound
  <2>8. ASSUME NEW e \in Emails, MailOK(e) PROVE MailOK(e)'
    BY <1>1, <1>3, <2>7, <2>8 DEF MailOK, OneSends, Active
  <2> QED BY <1>1, <2>1, <2>4, <2>6, <2>8
<1> QED BY <1>4, <1>6, <1>7 DEF SendInv

\* A send ends before it has marked the campaign.
LEMMA SendStopsSound ==
  ASSUME SendInv, NEW s \in Sends, Deciding(s), SendEnds(s),
         UNCHANGED <<consents, unsub, camp, mailed, raced, faults>>
  PROVE  SendInv'
<1>1. OneSends(s) /\ snd'[s].step = "none" /\ \A e \in Emails : snd'[s].todo[e] = 0
  BY SendEndsFacts DEF SendInv
<1>2. SendTypes'
  BY <1>1 DEF SendInv, SendTypes, OneSends
<1>3. camp.status # "none"
  BY DEF SendInv, SpareInv, Active, Deciding
<1>4. SpareInv'
  BY <1>1, <1>3, EndSpares, SpareKept DEF SendInv
<1>5. MailInv'
  <2>1. /\ Active(s)' => Active(s)
        /\ Deciding(s)' => Deciding(s)
        /\ Sending(s)' => Sending(s)
        /\ ~Sending(s)
    BY <1>1 DEF Active, Deciding, Sending
  <2>2. \A e \in Emails : snd'[s].todo[e] \in Nat /\ snd'[s].todo[e] <= snd[s].todo[e]
    BY <1>1, SendFields DEF SendInv
  <2> QED BY <1>1, <2>1, <2>2, MailKept DEF SendInv
<1> QED BY <1>2, <1>4, <1>5 DEF SendInv

\* How often an address is in the audience.
LEMMA CopiesFacts ==
  ASSUME NEW e \in Emails, consents \in [Emails -> Consent]
  PROVE  Copies(e) \in Nat /\ (consents[e].yes > 1 \/ Copies(e) <= 1)
<1>1. consents[e].yes \in Nat
  BY DEF Consent
<1>2. Copies(e) = 0 \/ Copies(e) = 1 \/ Copies(e) = consents[e].yes
  BY DEF Copies
<1> QED BY <1>1, <1>2

\* The audience: nobody has the mail yet.
LEMMA AudienceSound ==
  ASSUME SendInv, consents \in [Emails -> Consent], NEW s \in Sends, ResolveAudience(s)
  PROVE  SendInv'
<1> DEFINE todo == [e \in Emails |-> Copies(e)]
<1>1. /\ UNCHANGED <<consents, unsub, camp, mailed, raced, faults>> /\ snd[s].step = "audience"
      /\ SendEnds(s) \/ snd' = [snd EXCEPT ![s].step = "unsubscribed", ![s].todo = todo]
  BY DEF ResolveAudience, guests, bounds
<1>2. CASE SendEnds(s)
  BY <1>1, <1>2, SendStopsSound DEF Deciding
<1>3. CASE snd' = [snd EXCEPT ![s].step = "unsubscribed", ![s].todo = todo]
  <2>1. todo \in [Emails -> Nat] /\ \A e \in Emails : consents[e].yes > 1 \/ todo[e] <= 1
    BY CopiesFacts
  <2> HIDE DEF todo
  <2>2. /\ OneSends(s) /\ snd'[s].step = "unsubscribed" /\ snd'[s].todo = todo
        /\ snd'[s].spare = snd[s].spare
    <3> DEFINE rec == [snd[s] EXCEPT !.step = "unsubscribed", !.todo = todo]
    <3>1. snd[s] \in SendReq
      BY DEF SendInv, SendTypes
    <3>2. rec \in SendReq /\ rec.step = "unsubscribed" /\ rec.todo = todo /\ rec.spare = snd[s].spare
      BY <2>1, <3>1 DEF SendReq, SendSteps
    <3>3. snd' = [snd EXCEPT ![s] = rec]
      BY <1>3
    <3> HIDE DEF rec
    <3> QED BY <3>2, <3>3, SendReplaced DEF SendInv
  <2>3. SendTypes'
    BY <1>1, <2>2 DEF SendInv, SendTypes, OneSends
  <2>4. camp.status # "none" /\ SpareOK(s)
    BY <1>1 DEF SendInv, SpareInv, Active
  <2>5. SpareOK(s)'
    BY <1>1, <2>2, <2>4 DEF SpareOK, Active, Sending
  <2>6. SpareInv'
    BY <1>1, <2>2, <2>4, <2>5, SpareKept DEF SendInv
  <2>7. MailInv'
    <3> SUFFICES ASSUME ~raced, ~(faults > 0), OneSend, MailKnown,
                        \A e \in Emails : consents[e].yes > 1 \/ MailOK(e)
                 PROVE  OneSend' /\ MailKnown' /\ \A e \in Emails : consents'[e].yes > 1 \/ MailOK(e)'
      BY <1>1 DEF SendInv, MailInv
    <3>1. /\ camp.status \in {"draft", "failed"}
          /\ \A q \in Sends : q # s => snd[q].step = "none"
      BY <1>1 DEF OneSend, Deciding, Active
    <3>2. \A q \in Sends : q # s => snd'[q].step = "none"
      BY <2>2, <3>1 DEF OneSends
    <3>3. OneSend'
      BY <1>1, <2>2, <3>1, <3>2 DEF OneSend, Active, Deciding, Sending
    <3>4. \A e \in Emails : ~(mailed[e] > 0)
      BY <1>1, <3>1 DEF MailKnown, Sending
    <3>5. MailKnown'
      BY <1>1, <3>4 DEF MailKnown
    <3>6. ASSUME NEW e \in Emails, MailOK(e), ~(consents[e].yes > 1) PROVE MailOK(e)'
      BY <1>1, <2>1, <2>2, <3>4, <3>6 DEF MailOK, OneSends, Active
    <3> QED BY <1>1, <3>3, <3>5, <3>6
  <2> QED BY <2>3, <2>6, <2>7 DEF SendInv
<1> QED BY <1>1, <1>2, <1>3

\* A step of a send within its phase that writes nothing another request reads.
LEMMA SendKept ==
  ASSUME SendInv, NEW s \in Sends, Active(s), OneSends(s), SpareOK(s)',
         UNCHANGED <<consents, unsub, camp, mailed, raced, faults>>,
         Deciding(s)' => Deciding(s), Sending(s)' => Sending(s),
         Sending(s) /\ (snd[s].sent \/ snd[s].step = "sent") =>
           Sending(s)' /\ (snd'[s].sent \/ snd'[s].step = "sent"),
         \A e \in Emails : snd'[s].todo[e] \in Nat /\ snd'[s].todo[e] <= snd[s].todo[e]
  PROVE  SendInv'
<1>1. SendTypes'
  BY DEF SendInv, SendTypes, OneSends
<1>2. camp.status # "none"
  BY DEF SendInv, SpareInv
<1>3. SpareInv'
  BY <1>2, SpareKept DEF SendInv
<1>4. MailInv'
  BY MailKept DEF SendInv
<1> QED BY <1>1, <1>3, <1>4 DEF SendInv

\* The list of unsubscribed addresses holds everybody the send must spare.
LEMMA UnsubscribedSound ==
  ASSUME SendInv, unsub \in SUBSET Emails, NEW s \in Sends, ReadUnsubscribed(s)
  PROVE  SendInv'
<1>0. PICK gone \in SUBSET Emails : gone = IF camp.type = "alert" THEN {} ELSE unsub
  OBVIOUS
<1>1. /\ UNCHANGED <<consents, unsub, camp, mailed, raced, faults>> /\ snd[s].step = "unsubscribed"
      /\ SendEnds(s) \/ snd' = [snd EXCEPT ![s].step = "sending", ![s].gone = gone]
  BY <1>0 DEF ReadUnsubscribed, guests, bounds
<1>2. CASE SendEnds(s)
  BY <1>1, <1>2, SendStopsSound DEF Deciding
<1>3. CASE snd' = [snd EXCEPT ![s].step = "sending", ![s].gone = gone]
  <2> DEFINE rec == [snd[s] EXCEPT !.step = "sending", !.gone = gone]
  <2>1. snd[s] \in SendReq /\ SpareOK(s)
    BY DEF SendInv, SendTypes, SpareInv
  <2>2. /\ rec \in SendReq /\ rec.step = "sending" /\ rec.gone = gone
        /\ rec.spare = snd[s].spare /\ rec.todo = snd[s].todo
    BY <2>1 DEF SendReq, SendSteps
  <2>3. snd' = [snd EXCEPT ![s] = rec]
    BY <1>3
  <2> HIDE DEF rec
  <2>4. OneSends(s) /\ snd'[s] = rec
    BY <2>2, <2>3, SendReplaced DEF SendInv
  <2>5. SpareOK(s)'
    BY <1>0, <1>1, <2>1, <2>2, <2>4 DEF SpareOK, Active, Sending
  <2>6. Active(s) /\ Deciding(s) /\ ~Sending(s)' /\ ~Sending(s)
    BY <1>1, <2>2, <2>4 DEF Active, Deciding, Sending
  <2>7. \A e \in Emails : snd'[s].todo[e] \in Nat /\ snd'[s].todo[e] <= snd[s].todo[e]
    BY <2>2, <2>4, SendFields DEF SendInv
  <2> QED BY <1>1, <2>4, <2>5, <2>6, <2>7, SendKept
<1> QED BY <1>1, <1>2, <1>3

\* A send goes to its next step and keeps the rest.
LEMMA SendGoes ==
  ASSUME SendTypes, NEW s \in Sends, NEW step \in SendSteps, SendGoto(s, step)
  PROVE  /\ OneSends(s) /\ snd'[s].step = step /\ snd'[s].todo = snd[s].todo
         /\ snd'[s].spare = snd[s].spare /\ snd'[s].gone = snd[s].gone
         /\ snd'[s].to = snd[s].to /\ snd'[s].sent = snd[s].sent
<1> DEFINE rec == [snd[s] EXCEPT !.step = step]
<1>1. snd[s] \in SendReq
  BY DEF SendTypes
<1>2. rec \in SendReq
  BY <1>1 DEF SendReq
<1>3. /\ rec.step = step /\ rec.todo = snd[s].todo /\ rec.spare = snd[s].spare
      /\ rec.gone = snd[s].gone /\ rec.to = snd[s].to /\ rec.sent = snd[s].sent
  BY <1>1 DEF SendReq
<1>4. snd' = [snd EXCEPT ![s] = rec]
  BY DEF SendGoto
<1> HIDE DEF rec
<1>5. OneSends(s) /\ snd'[s] = rec
  BY <1>2, <1>4, SendReplaced
<1> QED BY <1>3, <1>5

\* The campaign is marked: the only send that decides now is the one that sends,
\* and nobody has the mail yet.
LEMMA MarkSendingSound ==
  ASSUME SendInv, NEW s \in Sends, MarkSending(s)
  PROVE  SendInv'
<1>1. /\ UNCHANGED <<consents, unsub, mailed, raced, faults>> /\ snd[s].step = "sending"
      /\ camp' = [camp EXCEPT !.status = "sending"] /\ SendGoto(s, "rows") /\ SendTypes
  BY DEF MarkSending, guests, bounds, SendInv
<1>2. camp' \in Campaign /\ camp'.status = "sending" /\ camp'.type = camp.type
  BY <1>1 DEF SendTypes, Campaign
<1>3. "rows" \in SendSteps
  BY DEF SendSteps
<1>4. /\ OneSends(s) /\ snd'[s].step = "rows" /\ snd'[s].todo = snd[s].todo
      /\ snd'[s].spare = snd[s].spare /\ snd'[s].gone = snd[s].gone
  BY <1>1, <1>3, SendGoes
<1>5. SendTypes'
  BY <1>1, <1>2, <1>4 DEF SendTypes, OneSends
<1>6. SpareOK(s)
  BY DEF SendInv, SpareInv
<1>7. SpareOK(s)'
  BY <1>1, <1>2, <1>4, <1>6 DEF SpareOK, Active, Sending
<1>8. SpareInv'
  BY <1>1, <1>2, <1>4, <1>7, SpareKept DEF SendInv
<1>9. MailInv'
  <2> SUFFICES ASSUME ~raced, ~(faults > 0), OneSend, MailKnown,
                      \A e \in Emails : consents[e].yes > 1 \/ MailOK(e)
               PROVE  OneSend' /\ MailKnown' /\ \A e \in Emails : consents'[e].yes > 1 \/ MailOK(e)'
    BY <1>1 DEF SendInv, MailInv
  <2>1. camp.status \in {"draft", "failed"} /\ \A q \in Sends : q # s => snd[q].step = "none"
    BY <1>1 DEF OneSend, Deciding, Active
  <2>2. \A q \in Sends : q # s => snd'[q].step = "none"
    BY <1>4, <2>1 DEF OneSends
  <2>3. OneSend'
    BY <1>2, <1>4, <2>2 DEF OneSend, Active, Deciding, Sending
  <2>4. \A e \in Emails : ~(mailed[e] > 0)
    BY <1>1, <2>1 DEF MailKnown, Sending
  <2>5. MailKnown'
    BY <1>1, <2>4 DEF MailKnown
  <2>6. ASSUME NEW e \in Emails, MailOK(e) PROVE MailOK(e)'
    BY <1>1, <1>4, <2>6 DEF MailOK, OneSends, Active
  <2> QED BY <1>1, <2>3, <2>5, <2>6
<1> QED BY <1>5, <1>8, <1>9 DEF SendInv

\* A send that is sending goes on to look at the next recipient.
LEMMA LoopGoesOn ==
  ASSUME SendInv, NEW s \in Sends, Sending(s), OneSends(s),
         UNCHANGED <<consents, unsub, camp, mailed, raced, faults>>,
         snd'[s].step \in {"rows", "snapshot", "loop", "failed"},
         snd'[s].spare = snd[s].spare, snd'[s].gone = snd[s].gone,
         snd[s].sent \/ snd[s].step = "sent" => snd'[s].sent,
         \A e \in Emails : snd'[s].todo[e] \in Nat /\ snd'[s].todo[e] <= snd[s].todo[e]
  PROVE  SendInv'
<1>1. Active(s) /\ Sending(s)' /\ ~Deciding(s)'
  BY DEF Active, Sending, Deciding
<1>2. SpareOK(s)
  BY DEF SendInv, SpareInv
<1>3. SpareOK(s)'
  BY <1>1, <1>2 DEF SpareOK, Active, Sending
<1> QED BY <1>1, <1>3, SendKept

\* The recipients are read, and recorded when there are none.
LEMMA RowsSound ==
  ASSUME SendInv, NEW s \in Sends, ReadRows(s) \/ InsertRows(s)
  PROVE  SendInv'
<1>0. snd[s] \in SendReq /\ SendTypes
  BY DEF SendInv, SendTypes
<1>1. /\ UNCHANGED <<consents, unsub, camp, mailed, raced, faults>>
      /\ snd[s].step \in {"rows", "snapshot"}
  BY DEF ReadRows, InsertRows, guests, bounds
<1>2. /\ OneSends(s) /\ snd'[s].step \in {"snapshot", "loop"} /\ snd'[s].todo = snd[s].todo
      /\ snd'[s].spare = snd[s].spare /\ snd'[s].gone = snd[s].gone
      /\ snd'[s].sent = snd[s].sent
  <2>1. CASE ReadRows(s)
    <3>1. PICK st \in {"snapshot", "loop"}, done \in SUBSET Emails :
            snd' = [snd EXCEPT ![s].step = st, ![s].done = done]
      BY <2>1 DEF ReadRows
    <3> DEFINE rec == [snd[s] EXCEPT !.step = st, !.done = done]
    <3>2. rec \in SendReq
      BY <1>0 DEF SendReq, SendSteps
    <3>3. /\ rec.step = st /\ rec.todo = snd[s].todo /\ rec.spare = snd[s].spare
          /\ rec.gone = snd[s].gone /\ rec.sent = snd[s].sent
      BY <1>0 DEF SendReq
    <3>4. snd' = [snd EXCEPT ![s] = rec]
      BY <3>1
    <3> HIDE DEF rec
    <3>5. OneSends(s) /\ snd'[s] = rec
      BY <1>0, <3>2, <3>4, SendReplaced
    <3> QED BY <3>3, <3>5
  <2>2. CASE InsertRows(s)
    <3>1. SendGoto(s, "loop") /\ "loop" \in SendSteps
      BY <2>2 DEF InsertRows, SendSteps
    <3> QED BY <1>0, <3>1, SendGoes
  <2> QED BY <2>1, <2>2
<1>3. \A e \in Emails : snd'[s].todo[e] \in Nat /\ snd'[s].todo[e] <= snd[s].todo[e]
  BY <1>0, <1>2, SendFields
<1>4. Sending(s)
  BY <1>1 DEF Sending
<1> QED BY <1>1, <1>2, <1>3, <1>4, LoopGoesOn

\* One recipient less.
LEMMA OneLess ==
  ASSUME NEW t \in [Emails -> Nat], NEW e \in Emails, t[e] > 0
  PROVE  \E todo \in [Emails -> Nat] :
           /\ todo = [t EXCEPT ![e] = t[e] - 1]
           /\ \A x \in Emails : x # e => todo[x] = t[x]
           /\ todo[e] = t[e] - 1
<1> DEFINE todo == [t EXCEPT ![e] = t[e] - 1]
<1>1. t[e] \in Nat /\ t[e] - 1 \in Nat
  OBVIOUS
<1>2. todo \in [Emails -> Nat] /\ (\A x \in Emails : x # e => todo[x] = t[x]) /\ todo[e] = t[e] - 1
  BY <1>1
<1> QED BY <1>2

\* A recipient that is passed over.
LEMMA SkipSound ==
  ASSUME SendInv, NEW s \in Sends, NEW e \in Emails, SkipDone(s, e) \/ SkipUnsubscribed(s, e)
  PROVE  SendInv'
<1>0. snd[s] \in SendReq /\ SendTypes /\ snd[s].todo \in [Emails -> Nat]
  BY SendFields DEF SendInv, SendTypes
<1>1. /\ UNCHANGED <<consents, unsub, camp, mailed, raced, faults>>
      /\ snd[s].step = "loop" /\ snd[s].todo[e] > 0
  BY DEF SkipDone, SkipUnsubscribed, Take, guests, bounds
<1>2. PICK todo \in [Emails -> Nat] :
        /\ todo = [snd[s].todo EXCEPT ![e] = snd[s].todo[e] - 1]
        /\ \A x \in Emails : x # e => todo[x] = snd[s].todo[x]
        /\ todo[e] = snd[s].todo[e] - 1
  BY <1>0, <1>1, OneLess
<1>3. /\ OneSends(s) /\ snd'[s].step = "loop" /\ snd'[s].todo = todo
      /\ snd'[s].spare = snd[s].spare /\ snd'[s].gone = snd[s].gone
      /\ snd[s].sent => snd'[s].sent
  <2>1. CASE SkipDone(s, e)
    <3> DEFINE rec == [snd[s] EXCEPT !.todo = todo, !.sent = TRUE]
    <3>1. rec \in SendReq
      BY <1>0 DEF SendReq
    <3>2. /\ rec.step = snd[s].step /\ rec.todo = todo /\ rec.spare = snd[s].spare
          /\ rec.gone = snd[s].gone /\ rec.sent
      BY <1>0 DEF SendReq
    <3>3. snd' = [snd EXCEPT ![s] = rec]
      BY <1>2, <2>1 DEF SkipDone
    <3> HIDE DEF rec
    <3>4. OneSends(s) /\ snd'[s] = rec
      BY <1>0, <3>1, <3>3, SendReplaced
    <3> QED BY <1>1, <3>2, <3>4
  <2>2. CASE SkipUnsubscribed(s, e)
    <3> DEFINE rec == [snd[s] EXCEPT !.todo = todo]
    <3>1. rec \in SendReq
      BY <1>0 DEF SendReq
    <3>2. /\ rec.step = snd[s].step /\ rec.todo = todo /\ rec.spare = snd[s].spare
          /\ rec.gone = snd[s].gone /\ rec.sent = snd[s].sent
      BY <1>0 DEF SendReq
    <3>3. snd' = [snd EXCEPT ![s] = rec]
      BY <1>2, <2>2 DEF SkipUnsubscribed
    <3> HIDE DEF rec
    <3>4. OneSends(s) /\ snd'[s] = rec
      BY <1>0, <3>1, <3>3, SendReplaced
    <3> QED BY <1>1, <3>2, <3>4
  <2> QED BY <2>1, <2>2
<1>4. \A x \in Emails : snd'[s].todo[x] \in Nat /\ snd'[s].todo[x] <= snd[s].todo[x]
  <2>1. \A a \in Nat : a - 1 <= a /\ a <= a
    OBVIOUS
  <2>2. \A x \in Emails : snd[s].todo[x] \in Nat /\ todo[x] \in Nat
    BY <1>0
  <2> QED BY <1>2, <1>3, <2>1, <2>2
<1>5. Sending(s)
  BY <1>1 DEF Sending
<1> QED BY <1>1, <1>3, <1>4, <1>5, LoopGoesOn

\* After a fault nothing is said about who has the mail.
LEMMA FaultSound ==
  ASSUME SendInv, faults \in Nat, NEW s \in Sends, Active(s), OneSends(s), SpareOK(s)', faults' = faults + 1,
         UNCHANGED <<unsub, camp>>, mailed' \in [Emails -> 0 .. 2]
  PROVE  SendInv'
<1>1. SendTypes'
  BY DEF SendInv, SendTypes, OneSends
<1>2. camp.status # "none"
  BY DEF SendInv, SpareInv
<1>3. SpareInv'
  BY <1>2, SpareKept DEF SendInv
<1>4. MailInv'
  BY DEF MailInv
<1> QED BY <1>1, <1>3, <1>4 DEF SendInv

\* A send is broken off.
LEMMA SendFailsSound ==
  ASSUME SendInv, faults \in Nat, NEW s \in Sends, SendFails(s)
  PROVE  SendInv'
<1>1. /\ UNCHANGED <<unsub, camp, mailed>> /\ faults' = faults + 1 /\ SendEnds(s) /\ SendTypes
      /\ snd[s] # NoSend
  BY DEF SendFails, Fault, guests, SendInv
<1>2. OneSends(s) /\ snd'[s].step = "none"
  BY <1>1, SendEndsFacts
<1>3. SendTypes' /\ SpareOK(s)' /\ faults' > 0
  BY <1>1, <1>2, EndSpares DEF SendTypes, OneSends
<1>4. SpareInv'
  <2>1. ASSUME NEW q \in Sends PROVE SpareOK(q)' /\ (Active(q)' => Active(q))
    <3>1. CASE q = s
      BY <1>2, <1>3, <3>1 DEF Active
    <3>2. CASE q # s
      <4>1. SpareOK(q) /\ snd'[q] = snd[q]
        BY <1>2, <3>2 DEF SendInv, SpareInv, OneSends
      <4> QED BY <1>1, <4>1 DEF SpareOK, Active, Sending
    <3> QED BY <3>1, <3>2
  <2> QED BY <1>1, <2>1 DEF SendInv, SpareInv
<1>5. MailInv'
  BY <1>3 DEF MailInv
<1> QED BY <1>3, <1>4, <1>5 DEF SendInv

\* The mail goes out to somebody who does not have it, or is refused, or nobody
\* knows.
LEMMA SendOneSound ==
  ASSUME SendInv, faults \in Nat, NEW s \in Sends, NEW e \in Emails, SendOne(s, e)
  PROVE  SendInv'
<1>0. snd[s] \in SendReq /\ SendTypes /\ snd[s].todo \in [Emails -> Nat] /\ SpareOK(s)
  BY SendFields DEF SendInv, SendTypes, SpareInv
<1>1. /\ UNCHANGED <<consents, unsub, camp, raced>> /\ e \notin snd[s].gone
      /\ snd[s].step = "loop" /\ snd[s].todo[e] > 0
  BY DEF SendOne, Take, guests
<1>2. PICK todo \in [Emails -> Nat] :
        /\ todo = [snd[s].todo EXCEPT ![e] = snd[s].todo[e] - 1]
        /\ \A x \in Emails : x # e => todo[x] = snd[s].todo[x]
        /\ todo[e] = snd[s].todo[e] - 1
  BY <1>0, <1>1, OneLess
<1>3. PICK out \in {"accepted", "refused", "unanswered"} :
        /\ mailed' = IF out = "refused" THEN mailed
                     ELSE [mailed EXCEPT ![e] = IF mailed[e] < 2 THEN mailed[e] + 1 ELSE mailed[e]]
        /\ snd' = [snd EXCEPT ![s].todo[e] = snd[s].todo[e] - 1, ![s].to = e,
                              ![s].step = IF out = "accepted" THEN "sent" ELSE "failed"]
        /\ IF out = "unanswered" THEN Fault ELSE UNCHANGED bounds
  BY DEF SendOne
<1>4. PICK st \in {"sent", "failed"} : st = IF out = "accepted" THEN "sent" ELSE "failed"
  OBVIOUS
<1>5. /\ OneSends(s) /\ snd'[s].step = st /\ snd'[s].todo = todo /\ snd'[s].to = e
      /\ snd'[s].spare = snd[s].spare /\ snd'[s].gone = snd[s].gone /\ snd'[s].sent = snd[s].sent
  <2> DEFINE rec == [snd[s] EXCEPT !.todo = todo, !.to = e, !.step = st]
  <2>1. rec \in SendReq
    BY <1>0 DEF SendReq, SendSteps
  <2>2. /\ rec.step = st /\ rec.todo = todo /\ rec.to = e /\ rec.spare = snd[s].spare
        /\ rec.gone = snd[s].gone /\ rec.sent = snd[s].sent
    BY <1>0 DEF SendReq
  <2>3. snd' = [snd EXCEPT ![s] = rec]
    BY <1>2, <1>3, <1>4
  <2> HIDE DEF rec
  <2>4. OneSends(s) /\ snd'[s] = rec
    BY <1>0, <2>1, <2>3, SendReplaced
  <2> QED BY <2>2, <2>4
<1>6. /\ mailed' \in [Emails -> 0 .. 2]
      /\ \A x \in Emails : x # e => mailed'[x] = mailed[x]
      /\ mailed[e] = 0 => mailed'[e] <= 1
  BY <1>0, <1>3 DEF SendTypes
<1>7. Active(s) /\ Sending(s) /\ Sending(s)' /\ ~Deciding(s)'
  BY <1>1, <1>4, <1>5 DEF Active, Sending, Deciding
<1>8. SpareOK(s)'
  BY <1>0, <1>1, <1>5, <1>7 DEF SpareOK, Active, Sending
<1>9. \A x \in Emails : /\ snd'[s].todo[x] \in Nat /\ snd'[s].todo[x] <= snd[s].todo[x]
                        /\ snd[s].todo[x] \in Nat
  <2>1. \A a \in Nat : a - 1 <= a /\ a <= a
    OBVIOUS
  <2>2. \A x \in Emails : snd[s].todo[x] \in Nat /\ todo[x] \in Nat
    BY <1>0
  <2> QED BY <1>2, <1>5, <2>1, <2>2
<1>10. CASE out = "refused"
  <2>1. UNCHANGED <<mailed, faults>> /\ snd'[s].step = "failed"
    BY <1>3, <1>4, <1>5, <1>10 DEF bounds
  <2> QED BY <1>1, <1>5, <1>7, <1>9, <2>1, LoopGoesOn
<1>11. CASE out = "unanswered"
  <2>1. faults' = faults + 1
    BY <1>3, <1>11 DEF Fault
  <2> QED BY <1>1, <1>5, <1>6, <1>7, <1>8, <2>1, FaultSound
<1>12. CASE out = "accepted"
  <2>1. faults' = faults /\ snd'[s].step = "sent"
    BY <1>3, <1>4, <1>5, <1>12 DEF bounds
  <2>2. SendTypes'
    BY <1>0, <1>1, <1>5, <1>6 DEF SendTypes, OneSends
  <2>3. SpareInv'
    <3>1. camp.status # "none"
      BY <1>7 DEF SendInv, SpareInv
    <3> QED BY <1>1, <1>5, <1>8, <3>1, SpareKept DEF SendInv
  <2>4. MailInv'
    <3> SUFFICES ASSUME ~raced, ~(faults > 0), OneSend, MailKnown,
                        \A x \in Emails : consents[x].yes > 1 \/ MailOK(x)
                 PROVE  OneSend' /\ MailKnown' /\ \A x \in Emails : consents'[x].yes > 1 \/ MailOK(x)'
      BY <1>1, <2>1 DEF SendInv, MailInv
    <3>1. \A q \in Sends : q # s => snd[q].step = "none" /\ snd'[q].step = "none"
      BY <1>5, <1>7 DEF OneSend, OneSends, Active
    <3>2. OneSend'
      <4>1. camp'.status = "sending"
        BY <1>1, <1>7 DEF OneSend
      <4> QED BY <1>7, <3>1, <4>1 DEF OneSend, Active, Deciding, Sending
    <3>3. MailKnown'
      BY <1>7, <2>1 DEF MailKnown
    <3>4. ASSUME NEW x \in Emails, MailOK(x) PROVE MailOK(x)'
      <4>1. \A q \in Sends : Active(q)' => q = s
        BY <3>1 DEF Active
      <4>2. mailed[x] <= 1 /\ snd[s].todo[x] <= 1 /\ (mailed[x] > 0 => snd[s].todo[x] = 0)
        BY <1>7, <3>4 DEF MailOK
      <4>3. CASE x = e
        <5>1. mailed[e] \in Nat /\ mailed'[e] \in Nat /\ snd[s].todo[e] \in Nat
          BY <1>0, <1>6 DEF SendTypes
        <5>2. mailed[e] = 0 /\ snd[s].todo[e] = 1
          BY <1>1, <4>2, <4>3, <5>1
        <5>3. snd'[s].todo[e] = 0
          BY <1>2, <1>5, <5>2
        <5> QED BY <1>6, <4>1, <4>3, <5>2, <5>3 DEF MailOK
      <4>4. CASE x # e
        <5>1. mailed'[x] = mailed[x] /\ snd'[s].todo[x] = snd[s].todo[x]
          BY <1>2, <1>5, <1>6, <4>4
        <5> QED BY <4>1, <4>2, <5>1 DEF MailOK
      <4> QED BY <4>3, <4>4
    <3> QED BY <1>1, <3>2, <3>3, <3>4
  <2> QED BY <2>2, <2>3, <2>4 DEF SendInv
<1> QED BY <1>10, <1>11, <1>12

\* The outcome is recorded.
LEMMA MarkSound ==
  ASSUME SendInv, faults \in Nat, NEW s \in Sends, MarkSent(s) \/ MarkFailed(s)
  PROVE  SendInv'
<1>0. snd[s] \in SendReq /\ SendTypes /\ SpareOK(s) /\ mailed \in [Emails -> 0 .. 2]
  BY DEF SendInv, SendTypes, SpareInv
<1>1. UNCHANGED <<consents, unsub, camp, mailed, raced>> /\ snd[s].step \in {"sent", "failed"}
  BY DEF MarkSent, MarkFailed, guests
<1>2. Active(s) /\ Sending(s)
  BY <1>1 DEF Active, Sending
<1>3. CASE faults' = faults + 1 /\ SendGoto(s, "failed")
  <2>1. "failed" \in SendSteps
    BY DEF SendSteps
  <2>2. /\ OneSends(s) /\ snd'[s].step = "failed"
        /\ snd'[s].spare = snd[s].spare /\ snd'[s].gone = snd[s].gone
    BY <1>0, <1>3, <2>1, SendGoes
  <2>3. SpareOK(s)'
    BY <1>0, <1>1, <1>2, <2>2 DEF SpareOK, Active, Sending
  <2> QED BY <1>0, <1>1, <1>2, <1>3, <2>2, <2>3, FaultSound
<1>4. ASSUME UNCHANGED bounds,
             \/ (snd[s].step = "sent" /\
                 snd' = [snd EXCEPT ![s].step = "loop", ![s].to = None, ![s].sent = TRUE])
             \/ (snd[s].step = "failed" /\
                 snd' = [snd EXCEPT ![s].step = "loop", ![s].to = None, ![s].failed = TRUE])
      PROVE  SendInv'
  <2>1. /\ OneSends(s) /\ snd'[s].step = "loop" /\ snd'[s].todo = snd[s].todo
        /\ snd'[s].spare = snd[s].spare /\ snd'[s].gone = snd[s].gone
        /\ snd[s].sent \/ snd[s].step = "sent" => snd'[s].sent
    <3>1. CASE snd[s].step = "sent" /\
               snd' = [snd EXCEPT ![s].step = "loop", ![s].to = None, ![s].sent = TRUE]
      <4> DEFINE rec == [snd[s] EXCEPT !.step = "loop", !.to = None, !.sent = TRUE]
      <4>1. rec \in SendReq
        BY <1>0 DEF SendReq, SendSteps
      <4>2. /\ rec.step = "loop" /\ rec.todo = snd[s].todo /\ rec.spare = snd[s].spare
            /\ rec.gone = snd[s].gone /\ rec.sent
        BY <1>0 DEF SendReq
      <4>3. snd' = [snd EXCEPT ![s] = rec]
        BY <3>1
      <4> HIDE DEF rec
      <4>4. OneSends(s) /\ snd'[s] = rec
        BY <1>0, <4>1, <4>3, SendReplaced
      <4> QED BY <4>2, <4>4
    <3>2. CASE snd[s].step = "failed" /\
               snd' = [snd EXCEPT ![s].step = "loop", ![s].to = None, ![s].failed = TRUE]
      <4> DEFINE rec == [snd[s] EXCEPT !.step = "loop", !.to = None, !.failed = TRUE]
      <4>1. rec \in SendReq
        BY <1>0 DEF SendReq, SendSteps
      <4>2. /\ rec.step = "loop" /\ rec.todo = snd[s].todo /\ rec.spare = snd[s].spare
            /\ rec.gone = snd[s].gone /\ rec.sent = snd[s].sent
        BY <1>0 DEF SendReq
      <4>3. snd' = [snd EXCEPT ![s] = rec]
        BY <3>2
      <4> HIDE DEF rec
      <4>4. OneSends(s) /\ snd'[s] = rec
        BY <1>0, <4>1, <4>3, SendReplaced
      <4> QED BY <3>2, <4>2, <4>4
    <3> QED BY <1>4, <3>1, <3>2
  <2>2. \A e \in Emails : snd'[s].todo[e] \in Nat /\ snd'[s].todo[e] <= snd[s].todo[e]
    BY <1>0, <2>1, SendFields
  <2>3. faults' = faults
    BY <1>4 DEF bounds
  <2> QED BY <1>1, <1>2, <2>1, <2>2, <2>3, LoopGoesOn
<1>5. CASE MarkSent(s)
  BY <1>3, <1>4, <1>5 DEF MarkSent, Fault
<1>6. CASE MarkFailed(s)
  BY <1>4, <1>6 DEF MarkFailed
<1> QED BY <1>5, <1>6

\* The last recipient: whoever has the mail is known to the send that ends, so
\* the campaign is not sent again.
LEMMA FinishSound ==
  ASSUME SendInv, NEW s \in Sends, Finish(s)
  PROVE  SendInv'
<1>1. /\ UNCHANGED <<consents, unsub, mailed, raced, faults>> /\ snd[s].step = "loop"
      /\ camp' = [camp EXCEPT !.status = IF snd[s].failed /\ ~snd[s].sent THEN "failed" ELSE "sent"]
      /\ SendEnds(s) /\ SendTypes
  BY DEF Finish, guests, bounds, SendInv
<1>2. PICK st \in {"failed", "sent"} :
        camp' = [camp EXCEPT !.status = st] /\ (snd[s].sent => st = "sent")
  BY <1>1
<1>3. camp' \in Campaign /\ camp'.status = st /\ camp'.type = camp.type
  BY <1>1, <1>2 DEF SendTypes, Campaign
<1>4. OneSends(s) /\ snd'[s].step = "none"
  BY <1>1, SendEndsFacts
<1>5. SendTypes'
  BY <1>1, <1>3, <1>4 DEF SendTypes, OneSends
<1>6. SpareInv'
  BY <1>1, <1>3, <1>4, EndSpares, SpareKept DEF SendInv
<1>7. MailInv'
  <2> SUFFICES ASSUME ~raced, ~(faults > 0), OneSend, MailKnown,
                      \A e \in Emails : consents[e].yes > 1 \/ MailOK(e)
               PROVE  OneSend' /\ MailKnown' /\ \A e \in Emails : consents'[e].yes > 1 \/ MailOK(e)'
    BY <1>1 DEF SendInv, MailInv
  <2>1. Active(s) /\ Sending(s)
    BY <1>1 DEF Active, Sending
  <2>2. \A q \in Sends : snd'[q].step = "none"
    BY <1>4, <2>1 DEF OneSend, OneSends, Active
  <2>3. OneSend'
    BY <2>2 DEF OneSend, Active, Deciding, Sending
  <2>4. MailKnown'
    <3> SUFFICES ASSUME NEW e \in Emails, mailed[e] > 0
                 PROVE  camp'.status = "sent"
      BY <1>1 DEF MailKnown
    <3>1. camp.status = "sending"
      BY <2>1 DEF OneSend
    <3>2. PICK q \in Sends : Sending(q) /\ (snd[q].sent \/ snd[q].step = "sent")
      BY <3>1 DEF MailKnown
    <3>3. q = s
      BY <2>1, <3>2 DEF OneSend, Active, Sending
    <3> QED BY <1>1, <1>2, <1>3, <3>2, <3>3
  <2>5. ASSUME NEW e \in Emails, MailOK(e) PROVE MailOK(e)'
    BY <1>1, <2>2, <2>5 DEF MailOK, Active
  <2> QED BY <1>1, <2>3, <2>4, <2>5
<1> QED BY <1>5, <1>6, <1>7 DEF SendInv

\* Steps of guests and users: what campaigns rely on only grows.
Records ==
  /\ UNCHANGED campaign /\ unsub \subseteq unsub' /\ faults <= faults'
  /\ \A e \in Emails : consents[e].yes <= consents'[e].yes

\* Such a step keeps the invariants of campaigns.
LEMMA RecordsSound ==
  ASSUME GuestInv, GuestInv', SendInv, Records
  PROVE  SendInv'
<1>1. /\ UNCHANGED <<camp, snd, mailed, raced>> /\ faults \in Nat /\ faults' \in Nat
      /\ \A e \in Emails : consents[e].yes \in Nat /\ consents'[e].yes \in Nat
  BY DEF Records, campaign, GuestInv, GuestTypes, BoundTypes, Consent
<1>2. SendTypes'
  BY <1>1 DEF SendInv, SendTypes
<1>3. SpareInv'
  BY <1>1 DEF SendInv, SpareInv, SpareOK, Active, Sending, Records
<1>4. MailInv'
  <2> SUFFICES ASSUME ~raced', ~(faults' > 0)
               PROVE  OneSend' /\ MailKnown' /\ \A e \in Emails : consents'[e].yes > 1 \/ MailOK(e)'
    BY DEF MailInv
  <2>1. ~(faults > 0)
    BY <1>1 DEF Records
  <2>2. OneSend /\ MailKnown /\ \A e \in Emails : consents[e].yes > 1 \/ MailOK(e)
    BY <1>1, <2>1 DEF SendInv, MailInv
  <2>3. OneSend'
    BY <1>1, <2>2 DEF OneSend, Active, Deciding, Sending
  <2>4. MailKnown'
    BY <1>1, <2>2 DEF MailKnown, Sending
  <2>5. ASSUME NEW e \in Emails PROVE consents'[e].yes > 1 \/ MailOK(e)'
    <3>1. CASE consents[e].yes > 1
      BY <1>1, <3>1 DEF Records
    <3>2. CASE MailOK(e)
      BY <1>1, <3>2 DEF MailOK, Active
    <3> QED BY <2>2, <3>1, <3>2
  <2> QED BY <2>3, <2>4, <2>5
<1> QED BY <1>2, <1>3, <1>4 DEF SendInv

\* A step of guests or users that leaves the consents alone.
LEMMA QuietRecords ==
  ASSUME GuestInv, UNCHANGED <<campaign, consents>>, unsub' = unsub \/ \E e \in Emails : unsub' = unsub \cup {e},
         faults' = faults \/ faults' = faults + 1
  PROVE  Records
BY DEF Records, GuestInv, GuestTypes, BoundTypes, Consent

\* The steps of guests' requests.
LEMMA GuestRecords ==
  ASSUME GuestInv, NEW r \in Reqs, load.emails \subseteq Emails, GuestStep(r)
  PROVE  Records
<1>1. CASE LogConsent(r)
  <2> DEFINE e == req[r].email
             k == req[r].k
  <2>1. /\ UNCHANGED <<unsub, faults, campaign>> /\ req[r].step = "consent"
        /\ consents' = IF chs[e][k].opt THEN [consents EXCEPT ![e].yes = consents[e].yes + 1]
                       ELSE [consents EXCEPT ![e].no = consents[e].no + 1]
    BY <1>1 DEF LogConsent, bounds
  <2>2. e \in Emails /\ consents \in [Emails -> Consent] /\ faults \in Nat
    BY <2>1 DEF GuestInv, ReqSound, GuestTypes, BoundTypes
  <2>3. \A x \in Emails : /\ consents[x].yes \in Nat
                          /\ consents'[x].yes = consents[x].yes \/ consents'[x].yes = consents[x].yes + 1
    <3>1. CASE chs[e][k].opt
      BY <2>1, <2>2, <3>1 DEF Consent
    <3>2. CASE ~chs[e][k].opt
      BY <2>1, <2>2, <3>2 DEF Consent
    <3> QED BY <3>1, <3>2
  <2>4. \A a, b \in Nat : b = a \/ b = a + 1 => a <= b
    OBVIOUS
  <2>5. \A x \in Emails : consents[x].yes <= consents'[x].yes
    BY <2>3, <2>4
  <2> QED BY <2>1, <2>2, <2>5 DEF Records
<1>2. CASE ~LogConsent(r)
  <2>1. /\ UNCHANGED <<campaign, consents, unsub>>
        /\ faults' = faults \/ faults' = faults + 1
    BY <1>2 DEF GuestStep, RegisterReads, VerifyReads, ResendReads, CheckRecent, FindPending,
                InsertChallenge, ConsumeExhausted, CountAttempt, CreateAccount, ConsumeChallenge,
                CreateSession, RequestFails, Fault, bounds
  <2> QED BY <2>1, QuietRecords
<1> QED BY <1>1, <1>2

\* The steps of time and of users.
LEMMA UserRecords ==
  ASSUME GuestInv, NEW e \in Emails,
         \/ CooldownOver(e) \/ CodeExpires(e) \/ Unsubscribe(e)
         \/ RegisterPending(e) \/ UpdateUserStatus(e)
  PROVE  Records
<1>1. UNCHANGED <<campaign, consents, faults>> /\ (unsub' = unsub \/ unsub' = unsub \cup {e})
  BY DEF CooldownOver, CodeExpires, Unsubscribe, RegisterPending, UpdateUserStatus, Op, bounds
<1> QED BY <1>1, QuietRecords

-----------------------------------------------------------------------------
(* The theorems.                                                            *)

\* Guests at the start.
LEMMA GuestsBegin ==
  ASSUME Init
  PROVE  GuestInv
<1>1. /\ load \in Loads /\ chs = [e \in Emails |-> <<>>] /\ unsub = {} /\ entered = {} /\ met = {}
      /\ req = [r \in Reqs |-> NoReq] /\ faults = 0
  BY DEF Init
<1>2. users \in [Emails -> UserRow]
  BY DEF Init, Client, NoUser, UserRow
<1>3. consents \in [Emails -> Consent]
  BY DEF Init, Consent
<1>4. chs \in [Emails -> Seq(Challenge)] /\ \A e \in Emails : DOMAIN chs[e] = {}
  BY <1>1
<1>5. req \in [Reqs -> GuestReq] /\ \A r \in Reqs : req[r].step = "none"
  BY <1>1, NoReqSound DEF NoReq
<1>6. GuestTypes /\ BoundTypes
  BY <1>1, <1>2, <1>3, <1>4, <1>5, OutreachAssumption DEF GuestTypes, BoundTypes
<1>7. ConsentFirst /\ TryInv /\ \A r \in Reqs : ReqSound(r)
  BY <1>1, <1>4, <1>5 DEF ConsentFirst, TryInv, ReqSound
<1>8. CodeInv
  BY <1>4, <1>5 DEF CodeInv, CodeOK, Verifying
<1> QED BY <1>6, <1>7, <1>8 DEF GuestInv

\* Campaigns at the start.
LEMMA CampaignsBegin ==
  ASSUME Init
  PROVE  SendInv
<1>1. /\ camp = [status |-> "none", type |-> "newsletter", aud |-> "all_clients"]
      /\ snd = [s \in Sends |-> NoSend] /\ mailed = [e \in Emails |-> 0]
  BY DEF Init
<1>2. \A s \in Sends : snd[s].step = "none"
  BY <1>1, NoSendSound
<1>3. SendTypes
  BY <1>1, NoSendSound DEF SendTypes, Campaign, Types, Audiences
<1>4. SpareInv
  BY <1>2 DEF SpareInv, SpareOK, Active, Sending
<1>5. MailInv
  BY <1>1, <1>2 DEF MailInv, OneSend, MailKnown, MailOK, Active, Deciding, Sending
<1> QED BY <1>3, <1>4, <1>5 DEF SendInv

\* What is in play is of the constants.
LEMMA InPlay ==
  ASSUME GuestInv
  PROVE  load.reqs \subseteq Reqs /\ load.sends \subseteq Sends /\ load.emails \subseteq Emails
BY DEF GuestInv, BoundTypes, Load

\* Every step of a guest's request.
LEMMA GuestStepSound ==
  ASSUME GuestInv, NEW r \in Reqs, GuestStep(r)
  PROVE  GuestInv'
<1>1. load.emails \subseteq Emails
  BY InPlay
<1>2. CASE \E e \in load.emails, b \in BOOLEAN : RegisterReads(r, e, b)
  BY <1>1, <1>2, BeginsSound
<1>3. CASE \E e \in load.emails, b \in BOOLEAN : VerifyReads(r, e, b)
  BY <1>1, <1>3, VerifyReadsSound
<1>4. CASE \E e \in load.emails : ResendReads(r, e)
  <2>1. TRUE \in BOOLEAN
    OBVIOUS
  <2> QED BY <1>1, <1>4, <2>1, BeginsSound
<1>5. CASE CheckRecent(r) \/ FindPending(r) \/ CreateSession(r)
  BY <1>5, GoesOnSound
<1>6. CASE InsertChallenge(r)
  BY <1>6, InsertSound
<1>7. CASE ConsumeExhausted(r)
  BY <1>7, ExhaustedSound
<1>8. CASE CountAttempt(r)
  BY <1>8, CountAttemptSound
<1>9. CASE CreateAccount(r)
  BY <1>9, CreateAccountSound
<1>10. CASE LogConsent(r)
  BY <1>10, LogConsentSound
<1>11. CASE ConsumeChallenge(r)
  BY <1>11, ConsumeSound
<1>12. CASE RequestFails(r)
  BY <1>12, RequestFailsSound
<1> QED BY <1>2, <1>3, <1>4, <1>5, <1>6, <1>7, <1>8, <1>9, <1>10, <1>11, <1>12 DEF GuestStep

\* Every step of a campaign leaves guests alone.
LEMMA CampaignQuiet ==
  ASSUME GuestInv, NEW s \in Sends, SendReads(s) \/ SendProceeds(s) \/ SendFails(s)
  PROVE  UNCHANGED <<guests, load>> /\ (faults' = faults \/ faults' = faults + 1)
<1>1. CASE Loop(s)
  <2>1. CASE \E e \in Emails : SkipDone(s, e) \/ SkipUnsubscribed(s, e)
    BY <2>1 DEF SkipDone, SkipUnsubscribed, bounds
  <2>2. CASE \E e \in Emails : SendOne(s, e)
    <3>1. UNCHANGED guests /\ (Fault \/ UNCHANGED bounds)
      BY <2>2 DEF SendOne
    <3> QED BY <3>1 DEF Fault, bounds
  <2>3. CASE MarkSent(s) \/ MarkFailed(s) \/ Finish(s)
    BY <2>3 DEF MarkSent, MarkFailed, Finish, Fault, bounds
  <2> QED BY <1>1, <2>1, <2>2, <2>3 DEF Loop
<1>2. CASE SendReads(s) \/ SendFails(s) \/ (SendProceeds(s) /\ ~Loop(s))
  BY <1>2 DEF SendReads, SendFails, SendProceeds, ResolveAudience, ReadUnsubscribed, MarkSending,
              ReadRows, InsertRows, Fault, bounds
<1> QED BY <1>1, <1>2

\* Every step of a send.
LEMMA SendStepSound ==
  ASSUME GuestInv, SendInv, NEW s \in Sends, SendReads(s) \/ SendProceeds(s) \/ SendFails(s)
  PROVE  SendInv'
<1>1. unsub \in SUBSET Emails /\ consents \in [Emails -> Consent] /\ faults \in Nat
  BY DEF GuestInv, GuestTypes, BoundTypes
<1>2. CASE SendReads(s)
  BY <1>1, <1>2, SendReadsSound
<1>3. CASE SendFails(s)
  BY <1>1, <1>3, SendFailsSound
<1>4. CASE ResolveAudience(s)
  BY <1>1, <1>4, AudienceSound
<1>5. CASE ReadUnsubscribed(s)
  BY <1>1, <1>5, UnsubscribedSound
<1>6. CASE MarkSending(s)
  BY <1>6, MarkSendingSound
<1>7. CASE ReadRows(s) \/ InsertRows(s)
  BY <1>7, RowsSound
<1>8. CASE \E e \in Emails : SkipDone(s, e) \/ SkipUnsubscribed(s, e)
  BY <1>8, SkipSound
<1>9. CASE \E e \in Emails : SendOne(s, e)
  BY <1>1, <1>9, SendOneSound
<1>10. CASE MarkSent(s) \/ MarkFailed(s)
  BY <1>1, <1>10, MarkSound
<1>11. CASE Finish(s)
  BY <1>11, FinishSound
<1> QED BY <1>2, <1>3, <1>4, <1>5, <1>6, <1>7, <1>8, <1>9, <1>10, <1>11 DEF SendProceeds, Loop

\* One step of the system.
LEMMA StepSound ==
  ASSUME GuestInv, SendInv, [Next]_vars
  PROVE  GuestInv' /\ SendInv'
<1>1. load.reqs \subseteq Reqs /\ load.sends \subseteq Sends /\ load.emails \subseteq Emails
  BY InPlay
<1>2. CASE \E r \in load.reqs : GuestStep(r)
  <2>1. PICK r \in Reqs : GuestStep(r)
    BY <1>1, <1>2
  <2>2. GuestInv'
    BY <2>1, GuestStepSound
  <2>3. Records
    BY <1>1, <2>1, GuestRecords
  <2> QED BY <2>2, <2>3, RecordsSound
<1>3. CASE \E e \in load.emails : \/ CooldownOver(e) \/ CodeExpires(e) \/ Unsubscribe(e)
                                  \/ RegisterPending(e) \/ UpdateUserStatus(e)
  <2>1. PICK e \in Emails : \/ CooldownOver(e) \/ CodeExpires(e) \/ Unsubscribe(e)
                            \/ RegisterPending(e) \/ UpdateUserStatus(e)
    BY <1>1, <1>3
  <2>2. GuestInv'
    BY <2>1, TimeSound, UserOpSound
  <2>3. Records
    BY <2>1, UserRecords
  <2> QED BY <2>2, <2>3, RecordsSound
<1>4. CASE \E t \in Types, a \in Audiences : CreateDraft(t, a)
  <2>1. PICK t \in Types, a \in Audiences : CreateDraft(t, a)
    BY <1>4
  <2>2. UNCHANGED <<guests, load>> /\ faults' = faults
    BY <2>1 DEF CreateDraft, bounds
  <2>3. GuestInv'
    BY <2>2, CampaignOutside
  <2> QED BY <2>1, <2>3, DraftSound
<1>5. CASE \E s \in load.sends : SendReads(s) \/ SendProceeds(s) \/ SendFails(s)
  <2>1. PICK s \in Sends : SendReads(s) \/ SendProceeds(s) \/ SendFails(s)
    BY <1>1, <1>5
  <2>2. UNCHANGED <<guests, load>> /\ (faults' = faults \/ faults' = faults + 1)
    BY <2>1, CampaignQuiet
  <2>3. GuestInv'
    BY <2>2, CampaignOutside
  <2> QED BY <2>1, <2>3, SendStepSound
<1>6. CASE UNCHANGED vars
  <2>1. UNCHANGED <<guests, load, faults, campaign, consents, unsub>>
    BY <1>6 DEF vars, guests, bounds
  <2>2. GuestInv'
    BY <2>1, CampaignOutside
  <2>3. Records
    BY <2>1, QuietRecords
  <2> QED BY <2>2, <2>3, RecordsSound
<1> QED BY <1>2, <1>3, <1>4, <1>5, <1>6 DEF Next

\* The invariants of guests and campaigns hold throughout.
THEOREM OutreachInvariant == Spec => [](GuestInv /\ SendInv)
<1>1. Init => GuestInv /\ SendInv
  BY GuestsBegin, CampaignsBegin
<1>2. GuestInv /\ SendInv /\ [Next]_vars => GuestInv' /\ SendInv'
  BY StepSound
<1> QED BY <1>1, <1>2, PTL DEF Spec

\* verifyOtp: a code takes at most as many attempts as the limit and the
\* requests that read it together, registers once unless two verifications of
\* its address ran together or a statement failed, and lets nobody in before
\* the account is verified and a consent is on record.
THEOREM Codes == Spec => []CodesSound
<1>1. ASSUME GuestInv PROVE CodesSound
  <2>1. AttemptsBounded
    <3> SUFFICES ASSUME NEW e \in Emails, NEW k \in DOMAIN chs[e]
                 PROVE  chs[e][k].attempts < MaxAttempts + Cardinality(Reqs)
      BY DEF AttemptsBounded
    <3>1. chs[e][k].attempts \in Nat
      BY <1>1, ChallengeFields DEF GuestInv, GuestTypes
    <3>2. Cardinality(Trying(e, k)) \in Nat /\ Cardinality(Reqs) \in Nat /\ MaxAttempts \in Nat
      <4>1. Trying(e, k) \subseteq Reqs
        BY DEF Trying
      <4>2. IsFiniteSet(Trying(e, k))
        BY <4>1, OutreachAssumption, FS_Subset
      <4> QED BY <4>2, OutreachAssumption, FS_CardinalityType
    <3>3. chs[e][k].attempts + Cardinality(Trying(e, k)) < MaxAttempts + Cardinality(Reqs)
      BY <1>1 DEF GuestInv, TryInv
    <3> QED BY <3>1, <3>2, <3>3
  <2>2. CodeUsedOnce
    <3> SUFFICES ASSUME NEW e \in Emails, NEW k \in DOMAIN chs[e], CodeOK(e)
                 PROVE  ~(chs[e][k].uses > 1)
      BY <1>1 DEF CodeUsedOnce, GuestInv, CodeInv
    <3>1. chs[e][k].uses \in Nat
      BY <1>1, ChallengeFields DEF GuestInv, GuestTypes
    <3> QED BY <3>1 DEF CodeOK
  <2> QED BY <1>1, <2>1, <2>2 DEF CodesSound, GuestInv
<1> QED BY <1>1, OutreachInvariant, PTL

\* sendCampaign: nobody gets the campaign's mail twice, however often it is
\* sent again, unless two sends read the status together, the address has
\* several consents that opt in, or a fault hid that the mail went out.
THEOREM MailOnce == Spec => []NoDoubleMail
<1>1. ASSUME SendInv PROVE NoDoubleMail
  <2> SUFFICES ASSUME NEW e \in Emails, mailed[e] > 1, ~raced, ~(faults > 0), ~(consents[e].yes > 1)
               PROVE  FALSE
    BY DEF NoDoubleMail
  <2>1. MailOK(e)
    BY <1>1 DEF SendInv, MailInv
  <2>2. mailed[e] \in 0 .. 2
    BY <1>1 DEF SendInv, SendTypes
  <2> QED BY <2>1, <2>2 DEF MailOK
<1> QED BY <1>1, OutreachInvariant, PTL

\* sendCampaign: who had unsubscribed when the send was requested gets no
\* newsletter and no marketing mail from it.
THEOREM Spared == Spec => []UnsubscribedSpared
<1>1. ASSUME SendInv PROVE UnsubscribedSpared
  BY <1>1 DEF UnsubscribedSpared, SendInv, SpareInv, SpareOK, Sending
<1> QED BY <1>1, OutreachInvariant, PTL
=============================================================================
