--------------------------- MODULE PrepaidCredit ---------------------------
(***************************************************************************)
(* What the managed-credit store promises its callers, with no ledger, no  *)
(* idempotency table and no gateway: every owner has money that can be     *)
(* spent, money set aside under a key, and money spent.  A key is held at  *)
(* most once and settled at most once, and settling charges no more than   *)
(* was held.  CreditLedger implements this specification.                  *)
(***************************************************************************)
EXTENDS Integers

CONSTANTS Owners,      \* account owners
          Keys,        \* what a hold is taken under
          Credits,     \* amounts that may be granted
          HoldSizes    \* amounts that may be held

VARIABLES available,   \* [Owners -> Nat]: money that can be held
          hold,        \* [Owners -> [Keys -> [state, amount]]]
          spent        \* [Owners -> Nat]: money charged, for ever

pvars == <<available, hold, spent>>

NoHold == [state |-> "free", amount |-> 0]

PInit ==
  /\ available = [o \in Owners |-> 0]
  /\ hold = [o \in Owners |-> [k \in Keys |-> NoHold]]
  /\ spent = [o \in Owners |-> 0]

Credit(o, amount) ==
  /\ available' = [available EXCEPT ![o] = @ + amount]
  /\ UNCHANGED <<hold, spent>>

Hold(o, k, amount) ==
  /\ hold[o][k].state = "free"
  /\ amount <= available[o]
  /\ available' = [available EXCEPT ![o] = @ - amount]
  /\ hold' = [hold EXCEPT ![o][k] = [state |-> "held", amount |-> amount]]
  /\ UNCHANGED spent

Settle(o, k, charge) ==
  /\ hold[o][k].state = "held"
  /\ available' = [available EXCEPT ![o] = @ + hold[o][k].amount - charge]
  /\ spent' = [spent EXCEPT ![o] = @ + charge]
  /\ hold' = [hold EXCEPT ![o][k].state = "settled"]

PNext ==
  \E o \in Owners :
    \/ \E a \in Credits : Credit(o, a)
    \/ \E k \in Keys : \/ \E a \in HoldSizes : Hold(o, k, a)
                       \/ \E c \in 0 .. hold[o][k].amount : Settle(o, k, c)

PSpec == PInit /\ [][PNext]_pvars
=============================================================================
