---------------------------- MODULE EdgeDelivery ----------------------------
(***************************************************************************)
(* What the EA-direct transport promises, independent of polls, timeouts   *)
(* and sweeps.  Every device has a log of queue items.  An item is offered *)
(* once, may be handed to its device any number of times while it is open, *)
(* and is closed either by an acknowledgement of an item the device was    *)
(* really handed, or by expiry.  Closing is final, except that a late      *)
(* acknowledgement may still record the outcome of an expired item.        *)
(***************************************************************************)
EXTENDS Naturals, Sequences

CONSTANT Devices

VARIABLES item,    \* item[d]: the states of the items offered to device d
          handed   \* handed[d]: positions of item[d] handed to d so far

absVars == <<item, handed>>

ItemStates == {"open", "acked", "expired"}

AbsTypeOK ==
    /\ item \in [Devices -> Seq(ItemStates)]
    /\ handed \in [Devices -> SUBSET Nat]

AbsInit ==
    /\ item = [d \in Devices |-> <<>>]
    /\ handed = [d \in Devices |-> {}]

\* A new item is appended to the log of every device of D.
Offer(D) ==
    /\ item' = [d \in Devices |->
                   IF d \in D THEN Append(item[d], "open") ELSE item[d]]
    /\ UNCHANGED handed

\* Open items S are handed to device d, perhaps not for the first time.
HandOut(d, S) ==
    /\ \A i \in S : i \in DOMAIN item[d] /\ item[d][i] = "open"
    /\ handed' = [handed EXCEPT ![d] = @ \cup S]
    /\ UNCHANGED item

\* Device d acknowledges an item it was handed.
Acknowledge(d, i) ==
    /\ i \in DOMAIN item[d]
    /\ i \in handed[d]
    /\ item' = [item EXCEPT ![d][i] = "acked"]
    /\ UNCHANGED handed

\* Open items expire, on any number of devices; nothing else changes.
Expire ==
    /\ item' \in [Devices -> Seq(ItemStates)]
    /\ \A d \in Devices :
          /\ DOMAIN item'[d] = DOMAIN item[d]
          /\ \A i \in DOMAIN item[d] :
                \/ item'[d][i] = item[d][i]
                \/ item[d][i] = "open" /\ item'[d][i] = "expired"
    /\ UNCHANGED handed

AbsNext ==
    \/ \E D \in SUBSET Devices : Offer(D)
    \/ \E d \in Devices : \E S \in SUBSET (DOMAIN item[d]) : HandOut(d, S)
    \/ \E d \in Devices : \E i \in DOMAIN item[d] : Acknowledge(d, i)
    \/ Expire

AbsSpec == AbsInit /\ [][AbsNext]_absVars
=============================================================================
