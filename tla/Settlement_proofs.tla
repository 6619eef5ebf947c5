--------------------------- MODULE Settlement_proofs ---------------------------
(***************************************************************************)
(* Proofs about settlement, for any number of subscriptions, payments and  *)
(* deliveries of an event served at a time.  What makes it sound: a        *)
(* request works on an event the gateway has emitted, whose amount the     *)
(* gateway had received, and a payment is COMPLETED once only, under the   *)
(* lock of its row.                                                        *)
(***************************************************************************)
EXTENDS Settlement, SequenceTheorems, TLAPS

SlotRow == [pc : Pcs, ev : Events \cup {None}, found : Nat]
Stati == {"none", "INCOMPLETE", "ACTIVE", "PAUSED", "CANCELLED"}

-----------------------------------------------------------------------------
(* The invariant.                                                           *)

\* A request works on an event that was emitted; before the transaction its
\* amount has been looked at, and commission follows a completed payment.
SlotOK(h) ==
  /\ slot[h].pc \in {"record", "precheck", "settle", "unmark", "credit"} => slot[h].ev \in sent
  /\ slot[h].pc \in {"precheck", "credit"} => PayOf(h) \in Crypto
  /\ slot[h].pc = "settle" /\ PayOf(h) \in Crypto /\ Strict => slot[h].ev.amount = "full"
  /\ slot[h].pc = "credit" => pay[PayOf(h)] = "COMPLETED"

\* An event is of a payment that went through checkout, and tells of money the
\* gateway has.
SentOK(ev) ==
  /\ pay[ev.pay] # "none"
  /\ ev.amount = "full" => funds[ev.pay] = "full"

SettleInv ==
  /\ \A h \in Slots : SlotOK(h)
  /\ \A ev \in sent : SentOK(ev)
  /\ \A p \in Payments : pay[p] # "none" => subOf[p] \in Subs
  /\ SettlementSound

-----------------------------------------------------------------------------
(* Types.                                                                   *)

\* The statuses of a subscription.
LEMMA StatusNames == Statuses = Stati
BY Zenon DEF Statuses, AllowedTransitions, Stati

\* The requests and licences of a state; the slot of a delivery.
LEMMA Rows ==
  ASSUME TypeOK
  PROVE  /\ slot \in [Slots -> SlotRow] /\ Idle \in SlotRow /\ AdminSlot \in Slots
         /\ \A ev \in Events : ev.pay \in Payments /\ ev.kind \in SettledKinds \cup OtherKinds
<1>1. slot \in [Slots -> SlotRow] /\ Idle \in SlotRow
  BY DEF TypeOK, SlotRow, Idle, Pcs
<1>2. AdminSlot \in Slots
  BY DEF Slots
<1>3. \A ev \in Events : ev.pay \in Payments /\ ev.kind \in SettledKinds \cup OtherKinds
  BY DEF Events
<1> QED BY <1>1, <1>2, <1>3

\* A request that moves on.
LEMMA Moved ==
  ASSUME TypeOK, NEW h \in Slots, NEW c \in Pcs, Goto(h, c)
  PROVE  /\ slot' \in [Slots -> SlotRow]
         /\ slot'[h].pc = c /\ slot'[h].ev = slot[h].ev
         /\ \A g \in Slots : g # h => slot'[g] = slot[g]
BY Rows DEF Goto, SlotRow

\* A request that ends.
LEMMA Ended ==
  ASSUME TypeOK, NEW h \in Slots, slot' = [slot EXCEPT ![h] = Idle]
  PROVE  /\ slot' \in [Slots -> SlotRow]
         /\ slot'[h].pc = "idle"
         /\ \A g \in Slots : g # h => slot'[g] = slot[g]
BY Rows DEF Idle, SlotRow

\* The types of the bounds after an operation or a fault.
LEMMA BoundTypes ==
  ASSUME TypeOK
  PROVE  /\ Op => ops' \in 0 .. MaxOps /\ faults' \in 0 .. MaxFaults
         /\ Fault => ops' \in 0 .. MaxOps /\ faults' \in 0 .. MaxFaults
         /\ UNCHANGED bounds => ops' \in 0 .. MaxOps /\ faults' \in 0 .. MaxFaults
BY SettlementAssumption DEF TypeOK, Op, Fault, bounds, SettlementAssumption

\* The initial state has its types, and nothing has been paid.
LEMMA InitOK == Init => TypeOK /\ SettleInv
<1> SUFFICES ASSUME Init PROVE TypeOK /\ SettleInv
  OBVIOUS
<1>1. slot \in [Slots -> SlotRow] /\ \A h \in Slots : slot[h].pc = "idle"
  BY DEF Init, SlotRow, Idle, Pcs
<1>2. sub \in [Subs -> Statuses]
  BY StatusNames DEF Init, Stati
<1>3. lics \in Seq({"ACTIVE", "ENDED"})
  BY DEF Init
<1>4. lossy \in BOOLEAN
  BY DEF Init
<1>5. TypeOK
  BY <1>1, <1>2, <1>3, <1>4, SettlementAssumption DEF Init, TypeOK, SlotRow, SettlementAssumption
<1>6. \A h \in Slots : SlotOK(h)
  BY <1>1 DEF SlotOK
<1>7. SettlementSound
  BY DEF Init, SettlementSound, Payments
<1> QED BY <1>5, <1>6, <1>7 DEF Init, SettleInv

\* The licence that is reactivated is one of the list.
LEMMA LicenceTypes ==
  ASSUME TypeOK, NEW i, NEW x \in {"ACTIVE", "ENDED"}
  PROVE  /\ [lics EXCEPT ![i] = x] \in Seq({"ACTIVE", "ENDED"})
         /\ Append(lics, x) \in Seq({"ACTIVE", "ENDED"})
<1>1. lics \in Seq({"ACTIVE", "ENDED"})
  BY DEF TypeOK
<1>2. Append(lics, x) \in Seq({"ACTIVE", "ENDED"})
  BY <1>1
<1>3. Len(lics) \in Nat /\ lics \in [1 .. Len(lics) -> {"ACTIVE", "ENDED"}]
  BY <1>1
<1>4. [lics EXCEPT ![i] = x] \in [1 .. Len(lics) -> {"ACTIVE", "ENDED"}]
  BY <1>3
<1>5. [lics EXCEPT ![i] = x] \in Seq({"ACTIVE", "ENDED"})
  BY <1>3, <1>4, IsASeq
<1> QED BY <1>2, <1>5

\* Steps of a request keep the types.
LEMMA ServeTypes ==
  ASSUME TypeOK, SettleInv, NEW h \in Slots, Serves(h) \/ Fails(h)
  PROVE  TypeOK'
<1> USE Rows, BoundTypes
<1>0. SlotOK(h) /\ sent \subseteq Events /\ owed \subseteq sent
  BY DEF SettleInv, TypeOK
<1>1. CASE RecordEvent(h)
  <2>1. Id(slot[h].ev) \in Payments \X (SettledKinds \cup OtherKinds)
    BY <1>0, <1>1 DEF RecordEvent, SlotOK, At, Id
  <2>2. seen' \subseteq Payments \X (SettledKinds \cup OtherKinds)
    BY <1>1, <2>1 DEF RecordEvent, TypeOK
  <2>3. slot' \in [Slots -> SlotRow] /\ owed' \subseteq sent
    BY <1>0, <1>1, Moved, Ended DEF RecordEvent, Answers, Pcs
  <2> QED BY <1>1, <2>2, <2>3 DEF RecordEvent, TypeOK, SlotRow, money, bounds
<1>2. CASE Precheck(h)
  <2>1. slot' \in [Slots -> SlotRow] /\ owed' \subseteq sent
    BY <1>0, <1>2, Moved, Ended DEF Precheck, Answers, Pcs
  <2>2. pay' \in [Payments -> {"none", "PENDING", "UNDERPAID", "COMPLETED"}]
    BY <1>2 DEF Precheck, TypeOK
  <2> QED BY <1>2, <2>1, <2>2 DEF Precheck, TypeOK, SlotRow, bounds
<1>3. CASE SettleCrypto(h) \/ SettleCard(h)
  <2>1. slot' \in [Slots -> SlotRow]
    BY <1>3, Moved DEF SettleCrypto, SettleCard, Pcs
  <2>2. pay' \in [Payments -> {"none", "PENDING", "UNDERPAID", "COMPLETED"}]
    BY <1>3 DEF SettleCrypto, SettleCard, TypeOK
  <2>3. sub' \in [Subs -> Statuses] /\ inv' \in [Subs -> {"none", "OPEN", "PAID"}]
    BY <1>3, StatusNames DEF SettleCrypto, SettleCard, StartsPeriod, TypeOK, Stati
  <2>4. starts' \in [Payments -> Nat]
    BY <1>3 DEF SettleCrypto, SettleCard, StartsPeriod, TypeOK
  <2>5. charge' \subseteq Cards
    BY <1>3 DEF SettleCrypto, SettleCard, TypeOK
  <2> QED BY <1>3, <2>1, <2>2, <2>3, <2>4, <2>5
          DEF SettleCrypto, SettleCard, TypeOK, SlotRow, gateway, bounds
<1>4. CASE Unmark(h) \/ HandlerDies(h)
  <2>1. slot' \in [Slots -> SlotRow] /\ UNCHANGED owed
    BY <1>4, Ended DEF Unmark, HandlerDies, Aborts
  <2>2. lossy' \in BOOLEAN
    BY <1>4 DEF Unmark, HandlerDies, TypeOK
  <2>3. seen' \subseteq seen
    BY <1>4 DEF Unmark, HandlerDies
  <2> QED BY <1>4, <2>1, <2>2, <2>3 DEF Unmark, HandlerDies, TypeOK, SlotRow, money, bounds
<1>5. CASE CreditReferral(h)
  <2>1. slot' \in [Slots -> SlotRow]
    BY <1>5, Moved DEF CreditReferral, Pcs
  <2>2. credited' \subseteq Crypto
    BY <1>0, <1>5 DEF CreditReferral, SlotOK, At, TypeOK
  <2> QED BY <1>5, <2>1, <2>2 DEF CreditReferral, TypeOK, SlotRow, gateway, bounds
<1>6. CASE SettleFails(h) \/ CreditFails(h)
  <2>1. slot' \in [Slots -> SlotRow]
    BY <1>6, Moved DEF SettleFails, CreditFails, Pcs
  <2> QED BY <1>6, <2>1 DEF SettleFails, CreditFails, TypeOK, SlotRow, money, gateway
<1>7. CASE FindLicence(h)
  <2>1. Len(lics) \in Nat
    BY DEF TypeOK
  <2>2. slot' \in [Slots -> SlotRow]
    BY <1>7, <2>1 DEF FindLicence, SlotRow, Pcs
  <2> QED BY <1>7, <2>2 DEF FindLicence, TypeOK, SlotRow, money, gateway, bounds
<1>8. CASE EnsureActiveLicence(h)
  <2>1. slot' \in [Slots -> SlotRow] /\ owed' \subseteq sent
    BY <1>0, <1>8, Ended DEF EnsureActiveLicence, Answers
  <2>2. lics' \in Seq({"ACTIVE", "ENDED"})
    BY <1>8, LicenceTypes DEF EnsureActiveLicence, TypeOK
  <2> QED BY <1>8, <2>1, <2>2 DEF EnsureActiveLicence, TypeOK, SlotRow, money, bounds
<1>9. CASE ProvisioningFails(h)
  <2>1. slot' \in [Slots -> SlotRow] /\ owed' \subseteq sent
    BY <1>0, <1>9, Ended DEF ProvisioningFails, Answers
  <2> QED BY <1>9, <2>1 DEF ProvisioningFails, TypeOK, SlotRow, money
<1> QED BY <1>1, <1>2, <1>3, <1>4, <1>5, <1>6, <1>7, <1>8, <1>9 DEF Serves, Fails

\* Checkout, the gateway and its deliveries keep the types.
LEMMA GatewayTypes ==
  ASSUME TypeOK, SettleInv
  PROVE  /\ \A p \in Payments, s \in Subs : Checkout(p, s) => TypeOK'
         /\ \A p \in Payments, f \in {"short", "full"} : Pays(p, f) => TypeOK'
         /\ \A p \in Payments : \A k \in KindsOf(p), a \in {"short", "full", "absent"} :
              Emits(p, k, a) => TypeOK'
         /\ \A ev \in owed, c \in Copies : Delivers(ev, c) => TypeOK'
<1> USE Rows, BoundTypes
<1>1. ASSUME NEW p \in Payments, NEW s \in Subs, Checkout(p, s) PROVE TypeOK'
  <2>1. sub' \in [Subs -> Statuses]
    BY <1>1, StatusNames DEF Checkout, TypeOK, Stati
  <2>2. inv' \in [Subs -> {"none", "OPEN", "PAID"}]
    BY <1>1 DEF Checkout, Invoiced, TypeOK
  <2>3. /\ pay' \in [Payments -> {"none", "PENDING", "UNDERPAID", "COMPLETED"}]
        /\ subOf' \in [Payments -> Subs \cup {None}]
    BY <1>1 DEF Checkout, TypeOK
  <2>4. ops' \in 0 .. MaxOps /\ faults' \in 0 .. MaxFaults
    BY <1>1 DEF Checkout
  <2> QED BY <1>1, <2>1, <2>2, <2>3, <2>4 DEF Checkout, TypeOK, gateway
<1>2. ASSUME NEW p \in Payments, NEW f \in {"short", "full"}, Pays(p, f) PROVE TypeOK'
  <2>1. funds' \in [Payments -> {"none", "short", "full"}]
    BY <1>2 DEF Pays, TypeOK
  <2> QED BY <1>2, <2>1 DEF Pays, TypeOK, money, bounds
<1>3. ASSUME NEW p \in Payments, NEW k \in KindsOf(p), NEW a \in {"short", "full", "absent"},
             Emits(p, k, a)
      PROVE  TypeOK'
  <2>1. k \in SettledKinds \cup OtherKinds
    BY DEF KindsOf, SettledKinds, OtherKinds
  <2>2. [pay |-> p, kind |-> k, amount |-> a] \in Events
    BY <2>1 DEF Events
  <2>3. sent' \subseteq Events /\ owed' \subseteq sent'
    BY <1>3, <2>2 DEF Emits, TypeOK
  <2> QED BY <1>3, <2>3 DEF Emits, TypeOK, money, bounds
<1>4. ASSUME NEW ev \in owed, NEW c \in Copies, Delivers(ev, c) PROVE TypeOK'
  <2>1. ev \in Events
    BY DEF TypeOK
  <2>2. [pc |-> "record", ev |-> ev, found |-> 0] \in SlotRow
    BY <2>1 DEF SlotRow, Pcs
  <2>3. slot' \in [Slots -> SlotRow]
    BY <1>4, <2>2 DEF Delivers
  <2> QED BY <1>4, <2>3 DEF Delivers, TypeOK, SlotRow, money, gateway, bounds
<1> QED BY <1>1, <1>2, <1>3, <1>4

\* The operations of users and administrators keep the types.
LEMMA OperateTypes ==
  ASSUME TypeOK, SettleInv
  PROVE  /\ \A s \in Subs : Operates(s) => TypeOK'
         /\ \A i \in DOMAIN lics : LicenceEnds(i) => TypeOK'
<1> USE Rows, BoundTypes, StatusNames
<1>1. ASSUME NEW s \in Subs, CreateSubscription(s) PROVE TypeOK'
  <2>1. sub' \in [Subs -> Statuses]
    BY <1>1 DEF CreateSubscription, TypeOK, Stati
  <2>2. inv' \in [Subs -> {"none", "OPEN", "PAID"}]
    BY <1>1 DEF CreateSubscription, Invoiced, TypeOK
  <2> QED BY <1>1, <2>1, <2>2 DEF CreateSubscription, TypeOK, gateway
<1>2. ASSUME NEW s \in Subs, Approve(s) \/ Reject(s) PROVE TypeOK'
  <2>1. PICK to \in Statuses : reqs' = [reqs EXCEPT ![s] = @ \cup {to}]
    BY <1>2 DEF Approve, Reject, Stati
  <2>2. reqs' \in [Subs -> SUBSET Statuses]
    BY <2>1 DEF TypeOK
  <2> QED BY <1>2, <2>2 DEF Approve, Reject, TypeOK, money, gateway
<1>3. ASSUME NEW s \in Subs, NEW to \in Statuses, RequestTransition(s, to) PROVE TypeOK'
  <2>1. reqs' \in [Subs -> SUBSET Statuses]
    BY <1>3 DEF RequestTransition, TypeOK
  <2> QED BY <1>3, <2>1 DEF RequestTransition, TypeOK, money, gateway
<1>4. ASSUME NEW s \in Subs, NEW to \in Statuses, ApplyTransition(s, to) PROVE TypeOK'
  <2>1. reqs' \in [Subs -> SUBSET Statuses] /\ sub' \in [Subs -> Statuses]
    BY <1>4 DEF ApplyTransition, TypeOK
  <2>2. ops' \in 0 .. MaxOps /\ faults' \in 0 .. MaxFaults
    BY <1>4 DEF ApplyTransition
  <2> QED BY <1>4, <2>1, <2>2 DEF ApplyTransition, TypeOK, money, gateway
<1>5. ASSUME NEW s \in Subs, StartSubscription(s) PROVE TypeOK'
  <2>1. sub' \in [Subs -> Statuses]
    BY <1>5 DEF StartSubscription, TypeOK, Stati
  <2>2. slot' \in [Slots -> SlotRow]
    BY <1>5, Moved DEF StartSubscription, Pcs
  <2> QED BY <1>5, <2>1, <2>2 DEF StartSubscription, TypeOK, SlotRow, money, gateway
<1>6. ASSUME NEW s \in Subs, GenerateInvoice(s) \/ MarkInvoicePaid(s) PROVE TypeOK'
  <2>1. inv' \in [Subs -> {"none", "OPEN", "PAID"}]
    BY <1>6 DEF GenerateInvoice, MarkInvoicePaid, Invoiced, TypeOK
  <2> QED BY <1>6, <2>1 DEF GenerateInvoice, MarkInvoicePaid, TypeOK, gateway
<1>7. ASSUME NEW i \in DOMAIN lics, LicenceEnds(i) PROVE TypeOK'
  <2>1. lics' \in Seq({"ACTIVE", "ENDED"})
    BY <1>7, LicenceTypes DEF LicenceEnds
  <2> QED BY <1>7, <2>1 DEF LicenceEnds, TypeOK, money, gateway
<1> QED BY <1>1, <1>2, <1>3, <1>4, <1>5, <1>6, <1>7 DEF Operates

\* Every step keeps the types.
LEMMA NextTypes == TypeOK /\ SettleInv /\ [Next]_vars => TypeOK'
<1> SUFFICES ASSUME TypeOK, SettleInv, [Next]_vars PROVE TypeOK'
  OBVIOUS
<1>1. CASE UNCHANGED vars
  BY <1>1 DEF vars, TypeOK
<1>2. CASE Next
  BY <1>2, ServeTypes, GatewayTypes, OperateTypes DEF Next
<1> QED BY <1>1, <1>2

-----------------------------------------------------------------------------
(* Settlement is sound.                                                     *)

\* What steps outside the settling transaction do to the money: nothing is
\* completed or credited, no invoice loses its PAID, no fund its fullness.
Harmless ==
  /\ \A p \in Payments : /\ (pay'[p] = "COMPLETED") <=> (pay[p] = "COMPLETED")
                         /\ pay[p] # "none" => pay'[p] # "none" /\ subOf'[p] = subOf[p]
                         /\ pay'[p] # "none" => subOf'[p] \in Subs
                         /\ funds[p] = "full" => funds'[p] = "full"
                         /\ starts'[p] = starts[p]
  /\ \A s \in Subs : inv[s] = "PAID" => inv'[s] = "PAID"
  /\ credited' = credited

\* Such steps leave sound what is sound.
LEMMA HarmlessSound ==
  ASSUME TypeOK, SettleInv, Harmless
  PROVE  /\ SettlementSound'
         /\ \A p \in Payments : pay'[p] # "none" => subOf'[p] \in Subs
         /\ \A ev \in sent : SentOK(ev)'
         /\ \A h \in Slots : slot'[h] = slot[h] /\ sent \subseteq sent' => SlotOK(h)'
<1> USE Rows
<1>1. SettlementSound'
  BY DEF SettleInv, SettlementSound, Harmless, Payments
<1>2. \A ev \in sent : ev.pay \in Payments
  BY DEF TypeOK
<1>3. \A ev \in sent : SentOK(ev)'
  BY <1>2 DEF SettleInv, SentOK, Harmless
<1>4. ASSUME NEW h \in Slots, slot'[h] = slot[h], sent \subseteq sent' PROVE SlotOK(h)'
  BY <1>2, <1>4 DEF SettleInv, SlotOK, PayOf, Harmless
<1> QED BY <1>1, <1>3, <1>4 DEF Harmless

\* A request that moves on, or ends, outside the settling transaction.
LEMMA SlotSound ==
  ASSUME TypeOK, SettleInv, Harmless, sent' = sent, NEW h \in Slots, SlotOK(h)',
         \A g \in Slots : g # h => slot'[g] = slot[g]
  PROVE  SettleInv'
BY HarmlessSound DEF SettleInv

\* Nothing happens to the money.
LEMMA MoneyKept ==
  ASSUME TypeOK, SettleInv, UNCHANGED <<money, funds>>
  PROVE  Harmless
BY DEF TypeOK, SettleInv, Harmless, money

\* Steps of a request before, after or instead of the settling transaction.
LEMMA ServeSound ==
  ASSUME TypeOK, SettleInv, NEW h \in Slots, Serves(h) \/ Fails(h),
         ~SettleCrypto(h), ~SettleCard(h)
  PROVE  SettleInv'
<1> USE Rows
<1>0. SlotOK(h)
  BY DEF SettleInv
<1>1. ASSUME slot' = [slot EXCEPT ![h] = Idle], UNCHANGED <<money, funds, sent>> PROVE SettleInv'
  <2>1. slot'[h].pc = "idle" /\ \A g \in Slots : g # h => slot'[g] = slot[g]
    BY <1>1, Ended
  <2>2. SlotOK(h)'
    BY <2>1 DEF SlotOK
  <2> QED BY <1>1, <2>1, <2>2, MoneyKept, SlotSound
<1>2. ASSUME NEW c \in {"unmark", "read"}, Goto(h, c), slot[h].pc \in {"settle", "credit"},
             UNCHANGED <<money, funds, sent>>
      PROVE  SettleInv'
  <2>1. /\ slot'[h].pc = c /\ slot'[h].ev = slot[h].ev
        /\ \A g \in Slots : g # h => slot'[g] = slot[g]
    BY <1>2, Moved DEF Pcs
  <2>2. SlotOK(h)'
    BY <1>0, <1>2, <2>1 DEF SlotOK
  <2> QED BY <1>2, <2>1, <2>2, MoneyKept, SlotSound
<1>3. CASE RecordEvent(h)
  <2>1. CASE Answers(h)
    BY <1>1, <1>3, <2>1 DEF RecordEvent, Answers
  <2>2. CASE Goto(h, IF PayOf(h) \in Crypto THEN "precheck" ELSE "settle")
    <3>1. /\ slot'[h].pc = IF PayOf(h) \in Crypto THEN "precheck" ELSE "settle"
          /\ slot'[h].ev = slot[h].ev
          /\ \A g \in Slots : g # h => slot'[g] = slot[g]
      BY <2>2 DEF Goto, SlotRow
    <3>2. SlotOK(h)'
      BY <1>0, <1>3, <3>1 DEF SlotOK, RecordEvent, At, PayOf
    <3> QED BY <1>3, <3>1, <3>2, MoneyKept, SlotSound DEF RecordEvent
  <2> QED BY <1>3, <2>1, <2>2 DEF RecordEvent
<1>4. CASE Precheck(h)
  <2>1. slot[h].ev \in sent /\ PayOf(h) \in Crypto /\ PayOf(h) \in Payments
    BY <1>0, <1>4 DEF Precheck, At, SlotOK, Payments
  <2>2. pay[PayOf(h)] # "none"
    BY <2>1 DEF SettleInv, SentOK, PayOf
  <2>3. Harmless
    <3>1. CASE slot[h].ev.amount = "short"
      BY <1>4, <2>2, <3>1 DEF Precheck, Harmless, TypeOK, SettleInv
    <3>2. CASE slot[h].ev.amount # "short"
      BY <1>4, <3>2, MoneyKept DEF Precheck, money
    <3> QED BY <3>1, <3>2
  <2>4. CASE Answers(h)
    <3>1. slot'[h].pc = "idle" /\ \A g \in Slots : g # h => slot'[g] = slot[g]
      BY <2>4, Ended DEF Answers
    <3>2. SlotOK(h)'
      BY <3>1 DEF SlotOK
    <3> QED BY <1>4, <2>3, <3>1, <3>2, SlotSound DEF Precheck
  <2>5. CASE /\ Goto(h, "settle")
             /\ slot[h].ev.amount # "short" /\ ~(slot[h].ev.amount = "absent" /\ Strict)
    <3>1. /\ slot'[h].pc = "settle" /\ slot'[h].ev = slot[h].ev
          /\ \A g \in Slots : g # h => slot'[g] = slot[g]
      BY <2>5, Moved DEF Pcs
    <3>2. slot[h].ev.amount \in {"short", "full", "absent"}
      BY <2>1 DEF TypeOK, Events
    <3>3. SlotOK(h)'
      BY <1>4, <2>1, <2>5, <3>1, <3>2 DEF SlotOK, Precheck
    <3> QED BY <1>4, <2>3, <3>1, <3>3, SlotSound DEF Precheck
  <2> QED BY <1>4, <2>4, <2>5 DEF Precheck
<1>5. CASE Unmark(h) \/ HandlerDies(h)
  BY <1>1, <1>5 DEF Unmark, HandlerDies, Aborts
<1>6. CASE CreditReferral(h)
  <2>1. PayOf(h) \in Crypto /\ pay[PayOf(h)] = "COMPLETED"
    BY <1>0, <1>6 DEF CreditReferral, At, SlotOK
  <2>2. /\ UNCHANGED <<inv, pay, subOf, charge, starts, funds, sent>>
        /\ credited' \subseteq credited \cup {PayOf(h)}
    BY <1>6 DEF CreditReferral, gateway
  <2>3. SettlementSound'
    BY <2>1, <2>2 DEF SettleInv, SettlementSound
  <2>4. /\ slot'[h].pc = "read"
        /\ \A g \in Slots : g # h => slot'[g] = slot[g]
    BY <1>6, Moved DEF CreditReferral, Pcs
  <2>5. \A g \in Slots : SlotOK(g)'
    BY <2>2, <2>4 DEF SettleInv, SlotOK, PayOf
  <2> QED BY <2>2, <2>3, <2>5 DEF SettleInv, SentOK
<1>7. CASE SettleFails(h) \/ CreditFails(h)
  BY <1>2, <1>7 DEF SettleFails, CreditFails, At, gateway
<1>8. CASE FindLicence(h)
  <2>1. /\ slot'[h].pc \in {"keep", "write"} /\ \A g \in Slots : g # h => slot'[g] = slot[g]
        /\ UNCHANGED <<money, funds, sent>>
    BY <1>8 DEF FindLicence, gateway, SlotRow
  <2>2. SlotOK(h)'
    BY <2>1 DEF SlotOK
  <2> QED BY <2>1, <2>2, MoneyKept, SlotSound
<1>9. CASE EnsureActiveLicence(h) \/ ProvisioningFails(h)
  BY <1>1, <1>9 DEF EnsureActiveLicence, ProvisioningFails, Answers
<1> QED BY <1>3, <1>4, <1>5, <1>6, <1>7, <1>8, <1>9 DEF Serves, Fails

\* The settling transaction: a payment that is not COMPLETED becomes so, with its
\* first period, its invoice PAID and, where amounts are required, its full sum.
LEMMA SettleSound ==
  ASSUME TypeOK, SettleInv, NEW h \in Slots, SettleCrypto(h) \/ SettleCard(h)
  PROVE  SettleInv'
<1> USE Rows
<1>0. SlotOK(h)
  BY DEF SettleInv
<1>1. PICK p \in Payments : p = PayOf(h) /\ pay[p] # "none" /\ subOf[p] \in Subs /\ slot[h].ev \in sent
  <2>1. slot[h].ev \in sent
    BY <1>0 DEF SlotOK, SettleCrypto, SettleCard, At
  <2>2. PayOf(h) \in Payments
    BY <2>1 DEF PayOf, TypeOK
  <2> QED BY <2>1, <2>2 DEF SettleInv, SentOK, PayOf
<1>2. UNCHANGED <<subOf, credited, funds, sent>>
  BY DEF SettleCrypto, SettleCard, gateway
<1>3. CASE SettleCrypto(h) /\ pay[p] # "COMPLETED"
  <2>1. /\ p \in Crypto /\ pay' = [pay EXCEPT ![p] = "COMPLETED"]
        /\ inv' = [inv EXCEPT ![subOf[p]] = "PAID"]
        /\ starts' = [starts EXCEPT ![p] = @ + 1]
    BY <1>1, <1>3 DEF SettleCrypto, StartsPeriod
  <2>2. /\ slot'[h].pc = "credit" /\ slot'[h].ev = slot[h].ev
        /\ \A g \in Slots : g # h => slot'[g] = slot[g]
    BY <1>1, <1>3, Moved DEF SettleCrypto, Pcs
  <2>3. starts[p] = 0 /\ (Strict => funds[p] = "full")
    BY <1>0, <1>1, <1>3, <2>1 DEF SettleInv, SettlementSound, SlotOK, SentOK, PayOf, SettleCrypto, At
  <2>4. starts'[p] = 1 /\ pay'[p] = "COMPLETED" /\ inv'[subOf[p]] = "PAID"
    BY <1>1, <2>1, <2>3 DEF TypeOK
  <2>5. \A q \in Payments : q # p => starts'[q] = starts[q] /\ pay'[q] = pay[q]
    BY <2>1 DEF TypeOK
  <2>6. \A s \in Subs : inv[s] = "PAID" => inv'[s] = "PAID"
    BY <1>1, <2>1 DEF TypeOK
  <2>7. SettlementSound'
    <3> SUFFICES ASSUME NEW q \in Crypto
                 PROVE  /\ pay'[q] = "COMPLETED" => /\ Strict => funds'[q] = "full"
                                                    /\ starts'[q] = 1
                                                    /\ inv'[subOf'[q]] = "PAID"
                        /\ pay'[q] # "COMPLETED" => starts'[q] = 0 /\ q \notin credited'
      BY DEF SettlementSound
    <3>1. CASE q = p
      BY <1>2, <2>3, <2>4, <3>1
    <3>2. CASE q # p
      <4>1. q \in Payments /\ pay'[q] = pay[q] /\ starts'[q] = starts[q]
        BY <2>5, <3>2 DEF Payments
      <4>2. pay[q] # "none" => subOf[q] \in Subs
        BY <4>1 DEF SettleInv
      <4> QED BY <1>2, <2>6, <4>1, <4>2 DEF SettleInv, SettlementSound
    <3> QED BY <3>1, <3>2
  <2>8. \A q \in Payments : pay'[q] # "none" => subOf'[q] \in Subs
    BY <1>1, <1>2, <2>5 DEF SettleInv
  <2>9. \A ev \in sent' : SentOK(ev)'
    <3> SUFFICES ASSUME NEW ev \in sent PROVE SentOK(ev)'
      BY <1>2
    <3>1. ev.pay \in Payments /\ SentOK(ev)
      BY DEF SettleInv, TypeOK
    <3> QED BY <1>2, <2>4, <2>5, <3>1 DEF SentOK
  <2>10. \A g \in Slots : SlotOK(g)'
    <3>1. SlotOK(h)'
      BY <1>1, <1>2, <2>1, <2>2, <2>4 DEF SlotOK, PayOf
    <3>2. ASSUME NEW g \in Slots, g # h PROVE SlotOK(g)'
      <4>1. SlotOK(g) /\ slot'[g] = slot[g] /\ \A ev \in sent : ev.pay \in Payments
        BY <2>2, <3>2 DEF SettleInv, TypeOK
      <4> QED BY <1>2, <2>4, <2>5, <4>1 DEF SlotOK, PayOf
    <3> QED BY <3>1, <3>2
  <2> QED BY <2>7, <2>8, <2>9, <2>10 DEF SettleInv
<1>4. CASE SettleCrypto(h) /\ pay[p] = "COMPLETED"
  <2>1. UNCHANGED <<money, funds>> /\ Goto(h, "read")
    BY <1>1, <1>4 DEF SettleCrypto, money, gateway
  <2>2. slot'[h].pc = "read" /\ \A g \in Slots : g # h => slot'[g] = slot[g]
    BY <2>1, Moved DEF Pcs
  <2>3. SlotOK(h)'
    BY <2>2 DEF SlotOK
  <2> QED BY <1>2, <2>1, <2>2, <2>3, MoneyKept, SlotSound
<1>5. CASE SettleCard(h)
  <2>1. /\ p \in Cards /\ UNCHANGED <<pay, subOf, credited, funds, sent>>
        /\ inv' = [inv EXCEPT ![subOf[p]] = "PAID"]
        /\ starts' = [starts EXCEPT ![p] = @ + 1]
    BY <1>1, <1>2, <1>5 DEF SettleCard, StartsPeriod
  <2>2. slot'[h].pc = "read" /\ \A g \in Slots : g # h => slot'[g] = slot[g]
    BY <1>5, Moved DEF SettleCard, Pcs
  <2>3. \A g \in Slots : SlotOK(g)'
    BY <2>1, <2>2 DEF SettleInv, SlotOK, PayOf
  <2>4. \A s \in Subs : inv[s] = "PAID" => inv'[s] = "PAID"
    BY <1>1, <2>1 DEF TypeOK
  <2>5. \A q \in Crypto : starts'[q] = starts[q] /\ q \in Payments
    BY <2>1, SettlementAssumption DEF SettlementAssumption, TypeOK, Payments
  <2>6. SettlementSound'
    BY <2>1, <2>4, <2>5 DEF SettleInv, SettlementSound
  <2> QED BY <2>1, <2>3, <2>6 DEF SettleInv, SentOK
<1> QED BY <1>3, <1>4, <1>5

\* The other steps do no harm.
LEMMA OtherSound ==
  ASSUME TypeOK, SettleInv
  PROVE  /\ \A p \in Payments, s \in Subs : Checkout(p, s) => SettleInv'
         /\ \A p \in Payments, f \in {"short", "full"} : Pays(p, f) => SettleInv'
         /\ \A p \in Payments : \A k \in KindsOf(p), a \in {"short", "full", "absent"} :
              Emits(p, k, a) => SettleInv'
         /\ \A ev \in owed, c \in Copies : Delivers(ev, c) => SettleInv'
         /\ \A s \in Subs : Operates(s) => SettleInv'
         /\ \A i \in DOMAIN lics : LicenceEnds(i) => SettleInv'
         /\ UNCHANGED vars => SettleInv'
<1> USE Rows
<1>1. ASSUME Harmless, UNCHANGED <<sent, slot>> PROVE SettleInv'
  BY <1>1, HarmlessSound DEF SettleInv
<1>2. ASSUME NEW p \in Payments, NEW s \in Subs, Checkout(p, s) PROVE SettleInv'
  <2>1. \A x \in Subs : inv[x] = "PAID" => inv'[x] = "PAID"
    BY <1>2 DEF Checkout, Invoiced, TypeOK
  <2>2. Harmless
    BY <1>2, <2>1 DEF Checkout, Harmless, TypeOK, SettleInv, gateway
  <2> QED BY <1>1, <1>2, <2>2 DEF Checkout, gateway
<1>3. ASSUME NEW p \in Payments, NEW f \in {"short", "full"}, Pays(p, f) PROVE SettleInv'
  <2>1. Harmless
    BY <1>3 DEF Pays, Harmless, TypeOK, SettleInv, money
  <2> QED BY <1>1, <1>3, <2>1 DEF Pays
<1>4. ASSUME NEW p \in Payments, NEW k \in KindsOf(p), NEW a \in {"short", "full", "absent"},
             Emits(p, k, a)
      PROVE  SettleInv'
  <2> DEFINE new == [pay |-> p, kind |-> k, amount |-> a]
  <2>1. Harmless
    BY <1>4, MoneyKept DEF Emits
  <2>2. sent' = sent \cup {new} /\ slot' = slot
    BY <1>4 DEF Emits
  <2>3. SentOK(new)'
    <3>1. a = "full" => funds[p] = "full"
      BY <1>4 DEF Emits
    <3> QED BY <1>4, <3>1 DEF Emits, SentOK, money
  <2>4. \A ev \in sent' : SentOK(ev)'
    BY <2>1, <2>2, <2>3, HarmlessSound
  <2> QED BY <2>1, <2>2, <2>4, HarmlessSound DEF SettleInv
<1>5. ASSUME NEW ev \in owed, NEW c \in Copies, Delivers(ev, c) PROVE SettleInv'
  <2> DEFINE h == <<ev.pay, ev.kind, c>>
  <2>1. UNCHANGED <<money, funds, sent>> /\ ev \in sent
    BY <1>5 DEF Delivers, gateway, TypeOK
  <2>2. CASE h \in Slots
    <3>1. /\ slot'[h].pc = "record" /\ slot'[h].ev = ev
          /\ \A g \in Slots : g # h => slot'[g] = slot[g]
      BY <1>5, <2>2 DEF Delivers
    <3>2. SlotOK(h)'
      BY <2>1, <3>1 DEF SlotOK
    <3> QED BY <2>1, <2>2, <3>1, <3>2, MoneyKept, SlotSound
  <2>3. CASE h \notin Slots
    <3>1. slot' = slot
      BY <1>5, <2>3 DEF Delivers
    <3> QED BY <1>1, <2>1, <3>1, MoneyKept
  <2> QED BY <2>2, <2>3
<1>6. ASSUME NEW s \in Subs, Operates(s) PROVE SettleInv'
  <2>1. CASE CreateSubscription(s) \/ GenerateInvoice(s) \/ MarkInvoicePaid(s)
    <3>1. \A x \in Subs : inv[x] = "PAID" => inv'[x] = "PAID"
      BY <2>1 DEF CreateSubscription, GenerateInvoice, MarkInvoicePaid, Invoiced, TypeOK
    <3>2. UNCHANGED <<pay, subOf, credited, starts, funds, sent, slot>>
      BY <2>1 DEF CreateSubscription, GenerateInvoice, MarkInvoicePaid, gateway
    <3>3. Harmless
      BY <3>1, <3>2 DEF Harmless, SettleInv
    <3> QED BY <1>1, <3>2, <3>3
  <2>2. CASE StartSubscription(s)
    <3>1. UNCHANGED <<money, funds, sent>> /\ Goto(AdminSlot, "read")
      BY <2>2 DEF StartSubscription, gateway
    <3>2. slot'[AdminSlot].pc = "read" /\ \A g \in Slots : g # AdminSlot => slot'[g] = slot[g]
      BY <3>1, Moved DEF Pcs
    <3>3. SlotOK(AdminSlot)'
      BY <3>2 DEF SlotOK
    <3> QED BY <3>1, <3>2, <3>3, MoneyKept, SlotSound
  <2>3. CASE \/ Approve(s) \/ Reject(s)
             \/ \E to \in Statuses : RequestTransition(s, to) \/ ApplyTransition(s, to)
    <3>1. UNCHANGED <<money, funds, sent, slot>>
      BY <2>3 DEF Approve, Reject, RequestTransition, ApplyTransition, gateway
    <3> QED BY <1>1, <3>1, MoneyKept
  <2> QED BY <1>6, <2>1, <2>2, <2>3 DEF Operates
<1>7. ASSUME NEW i \in DOMAIN lics, LicenceEnds(i) PROVE SettleInv'
  BY <1>1, <1>7, MoneyKept DEF LicenceEnds, gateway
<1>8. ASSUME UNCHANGED vars PROVE SettleInv'
  BY <1>1, <1>8, MoneyKept DEF vars, money
<1> QED BY <1>2, <1>3, <1>4, <1>5, <1>6, <1>7, <1>8

\* Every step keeps the invariant.
LEMMA NextSound == TypeOK /\ SettleInv /\ [Next]_vars => SettleInv'
<1> SUFFICES ASSUME TypeOK, SettleInv, [Next]_vars PROVE SettleInv'
  OBVIOUS
<1>1. ASSUME NEW h \in Slots, Serves(h) \/ Fails(h) PROVE SettleInv'
  BY <1>1, ServeSound, SettleSound
<1> QED BY <1>1, OtherSound DEF Next

\* Rows, events, requests and counters keep their types.
THEOREM SettlementTypes == Spec => []TypeOK
<1>1. Spec => [](TypeOK /\ SettleInv)
  BY InitOK, NextTypes, NextSound, PTL DEF Spec
<1> QED BY <1>1, PTL

\* What a NOWPayments settlement may do, for every order, repetition and failure
\* of its events, and any number of deliveries served together.
THEOREM Settles == Spec => []SettlementSound
<1>1. Spec => [](TypeOK /\ SettleInv)
  BY InitOK, NextTypes, NextSound, PTL DEF Spec
<1>2. SettleInv => SettlementSound
  BY DEF SettleInv
<1> QED BY <1>1, <1>2, PTL
=============================================================================
