------------------------------ MODULE Settlement ------------------------------
(***************************************************************************)
(* Money: checkout, the webhooks of the two payment gateways, what they do *)
(* to payment, invoice, subscription, commission ledger and licence, and   *)
(* the operations of users and administrators on the same rows             *)
(* (control/src/modules/billing, subscriptions, admin; the licence part of *)
(* licensing).  One user, one paid plan.  A webhook is delivered until the *)
(* gateway sees a success; its handler is a sequence of separate           *)
(* statements, with the settlement itself in one transaction.              *)
(***************************************************************************)
EXTENDS Naturals, Sequences, FiniteSets

CONSTANTS
  Subs,          \* subscriptions of the user
  Crypto, Cards, \* payments through NOWPayments and through Stripe
  Shops,         \* sets of payments whose gateways may be configured together
  Copies,        \* deliveries of one event that may be served at a time
  Levels,        \* sponsors above the user in the referral chain
  Strict,        \* NOWPAYMENTS_REQUIRE_AMOUNT = 'strict'
  MaxOps,        \* bound: operations of users and administrators
  MaxFaults,     \* bound: failing statements and process restarts
  None

Payments == Crypto \cup Cards

ASSUME SettlementAssumption ==
  /\ Crypto \cap Cards = {} /\ None \notin Payments
  /\ Shops \subseteq SUBSET Payments
  /\ Levels \in 0 .. 5
  /\ Strict \in BOOLEAN
  /\ MaxOps \in Nat /\ MaxFaults \in Nat

VARIABLES
  shop,      \* the payments whose gateway has its keys configured
  sub,       \* status of billing.subscriptions
  inv,       \* status of the subscription's invoice
  pay,       \* status of billing.payments, inserted at checkout
  subOf,     \* subscription_id of a payment
  charge,    \* card payments with the COMPLETED row that settle() inserts
  funds,     \* what the gateway has received
  sent,      \* events the gateway has emitted
  owed,      \* those it has not seen a success for
  seen,      \* billing.payment_events
  slot,      \* requests being served
  reqs,      \* status changes checked and not yet written
  lics,      \* the user's licences in issued_at order
  credited,  \* payments in referral.commission_ledger
  starts,    \* (history) billing periods a payment has started
  lossy,     \* (history) a handler died, or failed outside its try block
  ops, faults

money == <<inv, pay, subOf, charge, credited, starts>>
gateway == <<shop, funds, sent, owed>>
bounds == <<ops, faults>>
vars == <<shop, sub, inv, pay, subOf, charge, funds, sent, owed, seen, slot, reqs, lics,
          credited, starts, lossy, ops, faults>>

\* Gateway statuses and event types: the first set settles, the second does not.
SettledKinds == {"confirmed", "finished", "session.paid", "intent.succeeded"}
OtherKinds == {"waiting", "session.unpaid"}
KindsOf(p) == IF p \in Crypto THEN {"waiting", "confirmed", "finished"}
              ELSE {"session.unpaid", "session.paid", "intent.succeeded"}

Events == [pay : Payments, kind : SettledKinds \cup OtherKinds,
           amount : {"short", "full", "absent"}]
Id(ev) == <<ev.pay, ev.kind>>

\* Requests: the deliveries of an event, and an administrator's.
AdminSlot == <<None, "admin", 1>>
Deliveries(p) == {<<p, k, c>> : k \in KindsOf(p), c \in Copies}
Slots == {AdminSlot} \cup UNION {Deliveries(p) : p \in Payments}
SettlingSlots == {h \in Slots : h[2] \in SettledKinds}

Pcs == {"idle", "record", "precheck", "settle", "unmark", "credit", "read", "keep", "write"}
Idle == [pc |-> "idle", ev |-> None, found |-> 0]

AllowedTransitions ==
  [s \in {"none", "INCOMPLETE", "ACTIVE", "PAUSED", "CANCELLED"} |->
     CASE s = "ACTIVE" -> {"PAUSED", "CANCELLED"}
       [] s = "PAUSED" -> {"ACTIVE", "CANCELLED"}
       [] OTHER -> {}]
Statuses == DOMAIN AllowedTransitions

Init ==
  /\ shop \in Shops
  /\ sub = [s \in Subs |-> "none"]
  /\ inv = [s \in Subs |-> "none"]
  /\ pay = [p \in Payments |-> "none"]
  /\ subOf = [p \in Payments |-> None]
  /\ charge = {} /\ credited = {}
  /\ funds = [p \in Payments |-> "none"]
  /\ sent = {} /\ owed = {} /\ seen = {}
  /\ slot = [h \in Slots |-> Idle]
  /\ reqs = [s \in Subs |-> {}]
  /\ lics = <<>>
  /\ starts = [p \in Payments |-> 0]
  /\ lossy = FALSE /\ ops = 0 /\ faults = 0

Op == ops < MaxOps /\ ops' = ops + 1 /\ UNCHANGED faults
Fault == faults < MaxFaults /\ faults' = faults + 1 /\ UNCHANGED ops

-----------------------------------------------------------------------------
(* Checkout and the gateway.                                                *)

\* generateInvoiceForSubscription: an existing invoice is returned as it is.
Invoiced(s, status) == IF inv[s] = "none" THEN [inv EXCEPT ![s] = status] ELSE inv

\* createInvoice, createCheckoutSession: the subscription that waits for a
\* payment, or a new one.
Checkout(p, s) ==
  /\ p \in shop /\ pay[p] = "none"
  /\ \/ sub[s] = "INCOMPLETE"
     \/ sub[s] = "none" /\ \A x \in Subs : sub[x] # "INCOMPLETE"
  /\ sub' = [sub EXCEPT ![s] = "INCOMPLETE"]
  /\ inv' = Invoiced(s, "OPEN")
  /\ \/ /\ pay' = [pay EXCEPT ![p] = "PENDING"]
        /\ subOf' = [subOf EXCEPT ![p] = s]
        /\ UNCHANGED bounds
     \/ Fault /\ UNCHANGED <<pay, subOf>>  \* gateway unreachable or in error
  /\ UNCHANGED <<charge, gateway, seen, slot, reqs, lics, credited, starts, lossy>>

\* The customer pays, in part or in full; a part may be topped up.
Pays(p, f) ==
  /\ pay[p] # "none"
  /\ <<funds[p], f>> \in {<<"none", "short">>, <<"none", "full">>, <<"short", "full">>}
  /\ p \in Cards => f = "full"
  /\ funds' = [funds EXCEPT ![p] = f]
  /\ UNCHANGED <<sub, money, shop, sent, owed, seen, slot, reqs, lics, lossy, bounds>>

\* One event per payment and status; it may leave the amount out.
Emits(p, kind, amount) ==
  /\ pay[p] # "none"
  /\ kind \in KindsOf(p)
  /\ <<p, kind>> \notin {Id(e) : e \in sent}
  /\ kind \in SettledKinds <=> funds[p] # "none"
  /\ amount \in {"absent", IF kind \in SettledKinds THEN funds[p] ELSE "absent"}
  /\ p \in Cards => amount # "short"
  /\ sent' = sent \cup {[pay |-> p, kind |-> kind, amount |-> amount]}
  /\ owed' = owed \cup {[pay |-> p, kind |-> kind, amount |-> amount]}
  /\ UNCHANGED <<sub, money, shop, funds, seen, slot, reqs, lics, lossy, bounds>>

\* A delivery, or a retry after an error, a lost answer or a timeout.
Delivers(ev, copy) ==
  LET h == <<ev.pay, ev.kind, copy>> IN
  /\ ev \in owed
  /\ slot[h].pc = "idle"
  /\ slot' = [slot EXCEPT ![h] = [pc |-> "record", ev |-> ev, found |-> 0]]
  /\ UNCHANGED <<sub, money, gateway, seen, reqs, lics, lossy, bounds>>

-----------------------------------------------------------------------------
(* A webhook request.                                                       *)

At(h, pc) == slot[h].pc = pc
Goto(h, pc) == slot' = [slot EXCEPT ![h].pc = pc]
PayOf(h) == slot[h].ev.pay

\* The handler ends with a success; the answer may get lost.
Answers(h) ==
  /\ slot' = [slot EXCEPT ![h] = Idle]
  /\ owed' \in {owed, owed \ {slot[h].ev}}

\* The handler ends with an error, or not at all.
Aborts(h) == slot' = [slot EXCEPT ![h] = Idle] /\ UNCHANGED owed

\* INSERT INTO payment_events .. ON CONFLICT DO NOTHING, in its own statement.
RecordEvent(h) ==
  /\ At(h, "record")
  /\ seen' = seen \cup {Id(slot[h].ev)}
  /\ IF Id(slot[h].ev) \in seen \/ slot[h].ev.kind \notin SettledKinds
     THEN Answers(h)
     ELSE Goto(h, IF PayOf(h) \in Crypto THEN "precheck" ELSE "settle") /\ UNCHANGED owed
  /\ UNCHANGED <<sub, money, shop, funds, sent, reqs, lics, lossy, bounds>>

\* The amount check, before the transaction.
Precheck(h) ==
  /\ At(h, "precheck")
  /\ IF slot[h].ev.amount = "short"
     THEN /\ Answers(h)
          /\ pay' = [pay EXCEPT ![PayOf(h)] =
                       IF @ = "COMPLETED" THEN @ ELSE "UNDERPAID"]
     ELSE /\ IF slot[h].ev.amount = "absent" /\ Strict
             THEN Answers(h) ELSE Goto(h, "settle") /\ UNCHANGED owed
          /\ UNCHANGED pay
  /\ UNCHANGED <<sub, inv, subOf, charge, credited, starts, shop, funds, sent, seen, reqs,
                 lics, lossy, bounds>>

\* The subscription is paid for: its period starts, its invoice is PAID.
StartsPeriod(p) ==
  /\ sub' = [sub EXCEPT ![subOf[p]] = "ACTIVE"]
  /\ inv' = [inv EXCEPT ![subOf[p]] = "PAID"]
  /\ starts' = [starts EXCEPT ![p] = @ + 1]

\* Mutant: no look at the status of the locked row.
SettleCryptoAgain(h) ==
  /\ At(h, "settle") /\ PayOf(h) \in Crypto
  /\ pay' = [pay EXCEPT ![PayOf(h)] = "COMPLETED"]
  /\ StartsPeriod(PayOf(h))
  /\ Goto(h, "credit")
  /\ UNCHANGED <<subOf, charge, credited, gateway, seen, reqs, lics, lossy, bounds>>

\* Mutant: the commission inputs are captured for the last status only.
SettleCryptoFinished(h) ==
  /\ At(h, "settle") /\ PayOf(h) \in Crypto
  /\ IF pay[PayOf(h)] # "COMPLETED"
     THEN /\ pay' = [pay EXCEPT ![PayOf(h)] = "COMPLETED"]
          /\ StartsPeriod(PayOf(h))
          /\ Goto(h, IF slot[h].ev.kind = "finished" THEN "credit" ELSE "read")
     ELSE Goto(h, "read") /\ UNCHANGED <<pay, sub, inv, starts>>
  /\ UNCHANGED <<subOf, charge, credited, gateway, seen, reqs, lics, lossy, bounds>>

\* BEGIN .. SELECT FOR UPDATE .. COMMIT of handleIPN.
SettleCrypto(h) ==
  /\ At(h, "settle") /\ PayOf(h) \in Crypto
  /\ IF pay[PayOf(h)] # "COMPLETED"
     THEN /\ pay' = [pay EXCEPT ![PayOf(h)] = "COMPLETED"]
          /\ StartsPeriod(PayOf(h))
          /\ Goto(h, "credit")
     ELSE Goto(h, "read") /\ UNCHANGED <<pay, sub, inv, starts>>
  /\ UNCHANGED <<subOf, charge, credited, gateway, seen, reqs, lics, lossy, bounds>>

\* BEGIN .. COMMIT of settle.  The row inserted at checkout stays PENDING, the
\* charge gets a row of its own, and every event starts the period afresh.
SettleCard(h) ==
  /\ At(h, "settle") /\ PayOf(h) \in Cards
  /\ charge' = charge \cup {PayOf(h)}
  /\ StartsPeriod(PayOf(h))
  /\ Goto(h, "read")
  /\ UNCHANGED <<pay, subOf, credited, gateway, seen, reqs, lics, lossy, bounds>>

\* The transaction is rolled back.
SettleFails(h) ==
  /\ At(h, "settle")
  /\ Fault
  /\ Goto(h, "unmark")
  /\ UNCHANGED <<sub, money, gateway, seen, reqs, lics, lossy>>

\* Mutant: the event stays recorded when its settlement fails.
UnmarkKeeps(h) ==
  /\ At(h, "unmark")
  /\ Aborts(h)
  /\ UNCHANGED <<sub, money, shop, funds, sent, seen, reqs, lics, lossy, bounds>>

\* DELETE FROM payment_events, so that the retry is processed; error answer.
Unmark(h) ==
  /\ At(h, "unmark")
  /\ Aborts(h)
  /\ seen' = seen \ {Id(slot[h].ev)}
  /\ UNCHANGED <<sub, money, shop, funds, sent, reqs, lics, lossy, bounds>>

\* creditReferralForSettledRevenue, after the commit.  All levels are inserted
\* with one idempotency key, which is unique: with two sponsors or more the
\* second insert rolls all of them back.
CreditReferral(h) ==
  /\ At(h, "credit")
  /\ credited' = IF Levels = 1 THEN credited \cup {PayOf(h)} ELSE credited
  /\ Goto(h, "read")
  /\ UNCHANGED <<sub, inv, pay, subOf, charge, starts, gateway, seen, reqs, lics, lossy, bounds>>

CreditFails(h) ==
  /\ At(h, "credit")
  /\ Fault
  /\ Goto(h, "read")
  /\ UNCHANGED <<sub, money, gateway, seen, reqs, lics, lossy>>

-----------------------------------------------------------------------------
(* ensureActiveLicenseForSubscription: a read, and a write that trusts it.  *)

\* Mutant: the licence is provisioned only when the gateway says COMPLETED.
FindLicenceGated(h) ==
  /\ At(h, "read")
  /\ IF slot[h].ev = None THEN Goto(h, "write") /\ UNCHANGED owed ELSE Answers(h)
  /\ UNCHANGED <<sub, money, shop, funds, sent, seen, reqs, lics, lossy, bounds>>

\* SELECT .. ORDER BY (status = 'ACTIVE') DESC, issued_at DESC LIMIT 1.
FindLicence(h) ==
  /\ At(h, "read")
  /\ LET active == {i \in DOMAIN lics : lics[i] = "ACTIVE"}
     IN  slot' = [slot EXCEPT ![h].pc = IF active # {} THEN "keep" ELSE "write",
                              ![h].found = IF active # {} THEN 0 ELSE Len(lics)]
  /\ UNCHANGED <<sub, money, gateway, seen, reqs, lics, lossy, bounds>>

\* An active licence follows the plan, which leaves its status alone; the
\* latest that has ended is reactivated; without one, a licence is issued.
EnsureActiveLicence(h) ==
  /\ slot[h].pc \in {"keep", "write"}
  /\ lics' = IF At(h, "keep") THEN lics
             ELSE IF slot[h].found = 0 THEN Append(lics, "ACTIVE")
             ELSE [lics EXCEPT ![slot[h].found] = "ACTIVE"]
  /\ Answers(h)
  /\ UNCHANGED <<sub, money, shop, funds, sent, seen, reqs, lossy, bounds>>

ProvisioningFails(h) ==
  /\ slot[h].pc \in {"read", "keep", "write"}
  /\ Fault
  /\ Answers(h)
  /\ UNCHANGED <<sub, money, shop, funds, sent, seen, reqs, lics, lossy>>

\* The process dies; or the amount query, the connection or the DELETE fails,
\* none of which is inside the try block.
HandlerDies(h) ==
  /\ ~At(h, "idle")
  /\ Fault
  /\ Aborts(h)
  /\ lossy' = TRUE
  /\ UNCHANGED <<sub, money, shop, funds, sent, seen, reqs, lics>>

-----------------------------------------------------------------------------
(* Operations of users and administrators.                                  *)

\* SubscriptionsService.create: an unpaid plan is active at once.
CreateSubscription(s) ==
  /\ Op
  /\ sub[s] = "none"
  /\ \E paid \in BOOLEAN :
       /\ sub' = [sub EXCEPT ![s] = IF paid THEN "INCOMPLETE" ELSE "ACTIVE"]
       /\ inv' \in {inv, Invoiced(s, IF paid THEN "OPEN" ELSE "PAID")}
  /\ UNCHANGED <<pay, subOf, charge, credited, starts, gateway, seen, slot, reqs, lics, lossy>>

\* pause, resume and cancel: the status is read and checked ..
RequestTransition(s, to) ==
  /\ Op
  /\ to \in AllowedTransitions[sub[s]]
  /\ reqs' = [reqs EXCEPT ![s] = @ \cup {to}]
  /\ UNCHANGED <<sub, money, gateway, seen, slot, lics, lossy>>

\* completeIncompleteSubscription, and approveEntitlement of a subscription,
\* whose licence call is given a user id and finds no subscription.
Approve(s) ==
  /\ Op
  /\ sub[s] = "INCOMPLETE"
  /\ reqs' = [reqs EXCEPT ![s] = @ \cup {"ACTIVE"}]
  /\ UNCHANGED <<sub, money, gateway, seen, slot, lics, lossy>>

Reject(s) ==
  /\ Op
  /\ sub[s] \notin {"none", "CANCELLED"}
  /\ reqs' = [reqs EXCEPT ![s] = @ \cup {"CANCELLED"}]
  /\ UNCHANGED <<sub, money, gateway, seen, slot, lics, lossy>>

\* .. and written in a later statement that does not look at it again.
ApplyTransition(s, to) ==
  /\ to \in reqs[s]
  /\ reqs' = [reqs EXCEPT ![s] = @ \ {to}]
  /\ \/ sub' = [sub EXCEPT ![s] = to] /\ UNCHANGED bounds
     \/ Fault /\ UNCHANGED sub
  /\ UNCHANGED <<money, gateway, seen, slot, lics, lossy>>

\* startSubscriptionForUser, then the licence.
StartSubscription(s) ==
  /\ Op
  /\ At(AdminSlot, "idle")
  /\ sub[s] = "none" /\ \A x \in Subs : sub[x] \notin {"ACTIVE", "INCOMPLETE"}
  /\ sub' = [sub EXCEPT ![s] = "ACTIVE"]
  /\ Goto(AdminSlot, "read")
  /\ UNCHANGED <<money, gateway, seen, reqs, lics, lossy>>

\* POST billing/invoices/generate, and the signed webhook of other providers,
\* which only sees to an invoice, and POST billing/invoices/:id/mark-paid.
GenerateInvoice(s) ==
  /\ Op
  /\ sub[s] # "none"
  /\ inv' \in {Invoiced(s, "OPEN"), Invoiced(s, "PAID")}
  /\ UNCHANGED <<sub, pay, subOf, charge, credited, starts, gateway, seen, slot, reqs, lics, lossy>>

MarkInvoicePaid(s) ==
  /\ Op
  /\ inv[s] # "none"
  /\ inv' = [inv EXCEPT ![s] = "PAID"]
  /\ UNCHANGED <<sub, pay, subOf, charge, credited, starts, gateway, seen, slot, reqs, lics, lossy>>

\* A licence is suspended, revoked, or expires.
LicenceEnds(i) ==
  /\ Op
  /\ lics[i] = "ACTIVE"
  /\ lics' = [lics EXCEPT ![i] = "ENDED"]
  /\ UNCHANGED <<sub, money, gateway, seen, slot, reqs, lossy>>

-----------------------------------------------------------------------------
Serves(h) ==
  \/ RecordEvent(h) \/ Precheck(h) \/ SettleCrypto(h) \/ SettleCard(h) \/ Unmark(h)
  \/ CreditReferral(h) \/ FindLicence(h) \/ EnsureActiveLicence(h)

Fails(h) == SettleFails(h) \/ CreditFails(h) \/ ProvisioningFails(h) \/ HandlerDies(h)

Operates(s) ==
  \/ CreateSubscription(s) \/ Approve(s) \/ Reject(s)
  \/ \E to \in Statuses : RequestTransition(s, to) \/ ApplyTransition(s, to)
  \/ StartSubscription(s)
  \/ GenerateInvoice(s) \/ MarkInvoicePaid(s)

Next ==
  \/ \E p \in Payments :
       \/ \E s \in Subs : Checkout(p, s)
       \/ \E f \in {"short", "full"} : Pays(p, f)
       \/ \E k \in KindsOf(p), a \in {"short", "full", "absent"} : Emits(p, k, a)
  \/ \E ev \in owed, copy \in Copies : Delivers(ev, copy)
  \/ \E h \in Slots : Serves(h) \/ Fails(h)
  \/ \E s \in Subs : Operates(s)
  \/ \E i \in DOMAIN lics : LicenceEnds(i)

\* A webhook request that is being served goes on, and a gateway that has not
\* seen a success delivers again.  Nothing is assumed of customers, users,
\* administrators, or answers.
Fairness ==
  \A h \in SettlingSlots :
    WF_vars(Serves(h) \/ \E ev \in owed : Id(ev) = <<h[1], h[2]>> /\ Delivers(ev, h[3]))

Spec == Init /\ [][Next]_vars /\ Fairness

-----------------------------------------------------------------------------
(* Properties.                                                              *)

\* Every variable has its type.
TypeOK ==
  /\ shop \in Shops
  /\ sub \in [Subs -> Statuses]
  /\ inv \in [Subs -> {"none", "OPEN", "PAID"}]
  /\ pay \in [Payments -> {"none", "PENDING", "UNDERPAID", "COMPLETED"}]
  /\ subOf \in [Payments -> Subs \cup {None}]
  /\ charge \subseteq Cards /\ credited \subseteq Crypto
  /\ funds \in [Payments -> {"none", "short", "full"}]
  /\ sent \subseteq Events /\ owed \subseteq sent
  /\ seen \subseteq Payments \X (SettledKinds \cup OtherKinds)
  /\ slot \in [Slots -> [pc : Pcs, ev : Events \cup {None}, found : Nat]]
  /\ reqs \in [Subs -> SUBSET Statuses]
  /\ lics \in Seq({"ACTIVE", "ENDED"})
  /\ starts \in [Payments -> Nat]
  /\ lossy \in BOOLEAN /\ ops \in 0 .. MaxOps /\ faults \in 0 .. MaxFaults

\* What a NOWPayments settlement may do, for every order, repetition and
\* failure of its events: a COMPLETED payment was paid in full if amounts are
\* required, started exactly one billing period, and has its invoice PAID;
\* any other payment started none; commission is credited from COMPLETED
\* payments only (handleIPN).
SettlementSound ==
  \A p \in Crypto :
    /\ pay[p] = "COMPLETED" =>
         /\ Strict => funds[p] = "full"
         /\ starts[p] = 1
         /\ inv[subOf[p]] = "PAID"
    /\ pay[p] # "COMPLETED" => starts[p] = 0 /\ p \notin credited

\* A payment the gateway reports in full is settled in the end, although
\* transactions fail and answers get lost, as long as no handler dies
\* between recording the event and settling it (the catch blocks of handleIPN
\* and of the Stripe handler).
PaymentNotLost ==
  \A p \in Payments :
    (\E ev \in sent : ev.pay = p /\ ev.kind \in SettledKinds /\ ev.amount = "full")
      ~> (pay[p] = "COMPLETED" \/ p \in charge \/ lossy)

\* "A paying customer must never end up without a usable license": a settled
\* payment leads to an ACTIVE licence, unless provisioning fails or somebody
\* ended the licence (handleIPN, settle).
LicenceFollows ==
  \A p \in Payments :
    (pay[p] = "COMPLETED" \/ p \in charge)
      ~> (\/ \E i \in DOMAIN lics : lics[i] = "ACTIVE"
          \/ \E i \in DOMAIN lics : lics[i] = "ENDED"
          \/ faults > 0)

\* A settled NOWPayments payment of a user with one sponsor is credited, unless
\* something fails (creditReferralForSettledRevenue).
CommissionFollows ==
  Levels = 1 => \A p \in Crypto : pay[p] = "COMPLETED" ~> (p \in credited \/ faults > 0)
=============================================================================
