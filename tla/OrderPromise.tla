------------------------------ MODULE OrderPromise ------------------------------
\* What the order service promises its customers, whatever the services behind it
\* do: an order is decided once, it is PAID only after the provider has charged it
\* and the parcel has been handed over, and nothing is shipped that was not charged.
EXTENDS Integers

CONSTANT Order

VARIABLES
  status,               \* status of an order as others read it
  charged,              \* orders that the payment provider has charged
  shipped               \* orders with a parcel

promiseVars == <<status, charged, shipped>>

Decided == {"PAID", "PAYMENT_FAILED", "CANCELLED"}

PromiseInit ==
  /\ status = [o \in Order |-> "NONE"]
  /\ charged = {}
  /\ shipped = {}

Place(o) ==
  /\ status[o] = "NONE"
  /\ status' = [status EXCEPT ![o] = "PENDING_PAYMENT"]
  /\ UNCHANGED <<charged, shipped>>

\* Only an order that customers can see is charged; it may have been cancelled since.
Charge(o) ==
  /\ status[o] # "NONE"
  /\ charged' = charged \cup {o}
  /\ UNCHANGED <<status, shipped>>

Ship(o) ==
  /\ status[o] = "PENDING_PAYMENT"
  /\ o \in charged
  /\ shipped' = shipped \cup {o}
  /\ UNCHANGED <<status, charged>>

Decide(o, decision) ==
  /\ status[o] = "PENDING_PAYMENT"
  /\ decision = "PAID" => o \in charged \cap shipped
  /\ status' = [status EXCEPT ![o] = decision]
  /\ UNCHANGED <<charged, shipped>>

PromiseNext == \E o \in Order :
  Place(o) \/ Charge(o) \/ Ship(o) \/ \E d \in Decided : Decide(o, d)

PromiseSpec == PromiseInit /\ [][PromiseNext]_promiseVars
=============================================================================
