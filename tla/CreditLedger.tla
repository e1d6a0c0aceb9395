---------------------------- MODULE CreditLedger ----------------------------
(***************************************************************************)
(* The managed-credit store of the Copilot's LLM gateway: the account row, *)
(* the append-only ledger and the reservation row, and the five database   *)
(* transactions that change them (creditLedger.ts, reservation.ts).  Every *)
(* transaction locks the owner's account row FOR UPDATE before it reads    *)
(* what it decides on, so each is one atomic step here.  Money is a        *)
(* natural number of micro-USD.                                            *)
(*                                                                         *)
(* LedgerNext lets the transactions come in any order with any arguments:  *)
(* what is proved of it holds for every caller.  CreditGateway.tla is the  *)
(* caller the system has.                                                  *)
(***************************************************************************)
EXTENDS Integers, Sequences, FiniteSetsExt

CONSTANTS Owners,       \* users with a credit account
          Keys,         \* idempotency keys a reservation is made under
          GrantKeys,    \* idempotency keys an admin grant is made under
          WelcomeKey,   \* the key of the one-time welcome grant
          Welcome,      \* its amount, WELCOME_CREDIT_MICRO_USD
          GrantSizes,   \* amounts an admin may grant
          HoldSizes,    \* worst-case estimates a reservation may hold
          Costs         \* metered costs of a provider call

ASSUME WelcomeAssumption == Welcome \in Nat \ {0}
ASSUME GrantSizesAssumption == GrantSizes \subseteq Nat \ {0}
ASSUME HoldSizesAssumption == HoldSizes \subseteq Nat
ASSUME CostsAssumption == Costs \subseteq Nat

VARIABLES status,    \* agent_credit_accounts.status, "none" before the row exists
          balance,   \* managed_balance_micro_usd
          grants,    \* lifetime_grants_micro_usd
          spend,     \* lifetime_spend_micro_usd
          ledger,    \* agent_credit_ledger rows of an owner, oldest first
          resv       \* agent_credit_reservations by (owner, idempotency_key)

ledgerVars == <<status, balance, grants, spend, ledger, resv>>

RowKinds == {"grant", "reserve", "reserve_release", "debit", "refund"}

LedgerRow ==
  [kind: RowKinds, key: Keys \cup GrantKeys \cup {WelcomeKey}, amount: Int, after: Nat]

Reservation ==
  [status: {"none", "reserved", "finalized", "released"}, held: Nat, charged: Nat]

Settled == {"finalized", "released"}

NoReservation == [status |-> "none", held |-> 0, charged |-> 0]

Row(kind, key, amount, after) ==
  [kind |-> kind, key |-> key, amount |-> amount, after |-> after]

\* The unique index on (owner_id, idempotency_key).  A reservation's rows are
\* keyed "<key>:reserve", "<id>:release", "<id>:debit" and "<id>:refund", so
\* the kind of a row is part of its key.
HasRow(rows, kind, key) ==
  \E i \in DOMAIN rows : rows[i].kind = kind /\ rows[i].key = key

Recorded(o, kind, key) == HasRow(ledger[o], kind, key)

LedgerInit ==
  /\ status = [o \in Owners |-> "none"]
  /\ balance = [o \in Owners |-> 0]
  /\ grants = [o \in Owners |-> 0]
  /\ spend = [o \in Owners |-> 0]
  /\ ledger = [o \in Owners |-> <<>>]
  /\ resv = [o \in Owners |-> [k \in Keys |-> NoReservation]]

\* INSERT ... ON CONFLICT DO NOTHING of a grant row and, when it was inserted,
\* the account update and the row's balance_after.
Grant(o, key, amount) ==
  IF Recorded(o, "grant", key)
  THEN UNCHANGED <<balance, grants, ledger>>
  ELSE /\ balance' = [balance EXCEPT ![o] = @ + amount]
       /\ grants' = [grants EXCEPT ![o] = @ + amount]
       /\ ledger' = [ledger EXCEPT
            ![o] = Append(@, Row("grant", key, amount, balance[o] + amount))]

\* ensureAccount: create the account if it is missing, and the welcome grant once.
EnsureAccount(o) ==
  /\ status' = [status EXCEPT ![o] = IF @ = "none" THEN "active" ELSE @]
  /\ Grant(o, WelcomeKey, Welcome)
  /\ UNCHANGED <<spend, resv>>

\* recordGrant, after its own call of ensureAccount.
RecordGrant(o, key, amount) ==
  /\ status[o] # "none"
  /\ Grant(o, key, amount)
  /\ UNCHANGED <<status, spend, resv>>

\* reserve: what makes it return a reservation, old or new, and not throw.
Reservable(o, k, amount) ==
  /\ status[o] = "active"
  /\ \/ resv[o][k].status # "none"
     \/ amount <= balance[o]

\* reserve: a key that was reserved before, whatever became of it, gives its
\* old reservation back; a fresh key moves the hold out of the balance.
Reserve(o, k, amount) ==
  /\ Reservable(o, k, amount)
  /\ IF resv[o][k].status # "none"
     THEN UNCHANGED ledgerVars
     ELSE /\ balance' = [balance EXCEPT ![o] = @ - amount]
          /\ ledger' = [ledger EXCEPT
               ![o] = Append(@, Row("reserve", k, -amount, balance[o] - amount))]
          /\ resv' = [resv EXCEPT
               ![o][k] = [status |-> "reserved", held |-> amount, charged |-> 0]]
          /\ UNCHANGED <<status, grants, spend>>

\* Mutation: settling forgets to give the hold back first.
WithoutHold(o, k) == balance[o]

\* The balance with the hold given back, which both settlements start from.
WithHold(o, k) == balance[o] + resv[o][k].held

\* Mutation: the cost is charged even beyond the hold.
ChargeUncapped(o, k, cost) == cost

\* What finalize charges: the cost, at most the hold.
Charge(o, k, cost) == IF cost < resv[o][k].held THEN cost ELSE resv[o][k].held

\* finalize past its status check: a row for the hold given back and, when
\* something is charged, a row for the debit.
SettleCharged(o, k, cost) ==
  LET charge == Charge(o, k, cost)
      freed  == Append(ledger[o],
                  Row("reserve_release", k, resv[o][k].held, WithHold(o, k)))
  IN  /\ balance' = [balance EXCEPT ![o] = WithHold(o, k) - charge]
      /\ spend' = [spend EXCEPT ![o] = @ + charge]
      /\ ledger' = [ledger EXCEPT
           ![o] = IF charge > 0
                  THEN Append(freed, Row("debit", k, -charge, WithHold(o, k) - charge))
                  ELSE freed]
      /\ resv' = [resv EXCEPT
           ![o][k] = [status |-> "finalized", held |-> @.held, charged |-> charge]]
      /\ UNCHANGED <<status, grants>>

\* Mutation: finalize settles whatever the reservation's status.
FinalizeUnguarded(o, k, cost) ==
  IF resv[o][k].status = "none" THEN UNCHANGED ledgerVars ELSE SettleCharged(o, k, cost)

\* finalize: a settled reservation is left alone.
Finalize(o, k, cost) ==
  IF resv[o][k].status # "reserved"
  THEN UNCHANGED ledgerVars
  ELSE SettleCharged(o, k, cost)

\* release past its status check: the whole hold goes back.
SettleRefunded(o, k) ==
  /\ balance' = [balance EXCEPT ![o] = WithHold(o, k)]
  /\ ledger' = [ledger EXCEPT
       ![o] = Append(@, Row("refund", k, resv[o][k].held, WithHold(o, k)))]
  /\ resv' = [resv EXCEPT
       ![o][k] = [status |-> "released", held |-> @.held, charged |-> 0]]
  /\ UNCHANGED <<status, grants, spend>>

\* Mutation: release updates the account and writes no ledger row.
ReleaseUnlogged(o, k) ==
  IF resv[o][k].status # "reserved"
  THEN UNCHANGED ledgerVars
  ELSE /\ balance' = [balance EXCEPT ![o] = WithHold(o, k)]
       /\ resv' = [resv EXCEPT ![o][k].status = "released"]
       /\ UNCHANGED <<status, grants, spend, ledger>>

\* release: a settled reservation is left alone.
Release(o, k) ==
  IF resv[o][k].status # "reserved"
  THEN UNCHANGED ledgerVars
  ELSE SettleRefunded(o, k)

\* An operator freezes or thaws an account in the database: the column and its
\* check constraint exist, no code of the repository writes it.
SetStatus(o, s) ==
  /\ status[o] # "none"
  /\ status' = [status EXCEPT ![o] = s]
  /\ UNCHANGED <<balance, grants, spend, ledger, resv>>

LedgerNext ==
  \E o \in Owners :
    \/ EnsureAccount(o)
    \/ \E g \in GrantKeys, a \in GrantSizes : RecordGrant(o, g, a)
    \/ \E k \in Keys, a \in HoldSizes : Reserve(o, k, a)
    \/ \E k \in Keys, c \in Costs : Finalize(o, k, c)
    \/ \E k \in Keys : Release(o, k)
    \/ \E s \in {"active", "frozen"} : SetStatus(o, s)

LedgerSpec == LedgerInit /\ [][LedgerNext]_ledgerVars

-----------------------------------------------------------------------------
(* Properties *)

\* Every column has its type; in particular the balance column is never
\* negative, which the database would refuse (the CHECK of migration 0014) by
\* failing a call that already reached the provider.
LedgerTypeOK ==
  /\ status \in [Owners -> {"none", "active", "frozen"}]
  /\ balance \in [Owners -> Nat]
  /\ grants \in [Owners -> Nat]
  /\ spend \in [Owners -> Nat]
  /\ ledger \in [Owners -> Seq(LedgerRow)]
  /\ resv \in [Owners -> [Keys -> Reservation]]

\* The balance a sequence of ledger rows ends with, as the rows record it.
LastBalance(rows) == IF rows = <<>> THEN 0 ELSE rows[Len(rows)].after

\* Each row's balance_after is the previous row's plus the row's signed amount.
Chained(rows) ==
  \A i \in DOMAIN rows :
    rows[i].after = (IF i = 1 THEN 0 ELSE rows[i - 1].after) + rows[i].amount

\* The audit trail: the rows of an owner chain from zero to the balance column,
\* so that the ledger alone reproduces the account whatever was interleaved.
AuditTrail ==
  \A o \in Owners : Chained(ledger[o]) /\ balance[o] = LastBalance(ledger[o])

\* No kind of row occurs twice for one key.
Distinct(rows) ==
  \A i, j \in DOMAIN rows :
    rows[i].kind = rows[j].kind /\ rows[i].key = rows[j].key => i = j

\* A reservation and the ledger agree: a hold row exactly when it was made, a
\* release row and a debit row exactly when it was finalized (the debit only
\* when something was charged), a refund row exactly when it was released.  A
\* double settlement, or a settlement of both kinds, breaks it.  No row is there
\* twice, so the ledger's unique index never aborts a transaction.
ReservationRows ==
  \A o \in Owners : Distinct(ledger[o]) /\ \A k \in Keys :
    LET r == resv[o][k] IN
      /\ Recorded(o, "reserve", k) <=> r.status # "none"
      /\ Recorded(o, "reserve_release", k) <=> r.status = "finalized"
      /\ Recorded(o, "debit", k) <=> r.status = "finalized" /\ r.charged > 0
      /\ Recorded(o, "refund", k) <=> r.status = "released"
      /\ r.charged <= r.held

\* Money out on hold for o.
Held(o) ==
  MapThenSumSet(LAMBDA k : resv[o][k].held,
                {k \in Keys : resv[o][k].status = "reserved"})

\* Conservation across the three account columns and the reservations: what was
\* ever granted is either spendable, or out on hold, or spent.
Conservation ==
  \A o \in Owners : grants[o] = balance[o] + Held(o) + spend[o]

\* The ledger, the account columns and the reservations agree after any sequence of
\* transactions (migrations/0014_agent_credits.sql:32-83).
BooksAgree == ReservationRows /\ Conservation

\* A settled reservation is final: no later call, replay or late answer
\* reopens it, changes what it charged, or moves its owner's money with it.
SettledIsFinal ==
  [][\A o \in Owners, k \in Keys :
       resv[o][k].status \in Settled => resv'[o][k] = resv[o][k]]_ledgerVars

-----------------------------------------------------------------------------
(* The store implements PrepaidCredit. *)

HoldOf(r) ==
  [state  |-> IF r.status = "none" THEN "free"
              ELSE IF r.status = "reserved" THEN "held" ELSE "settled",
   amount |-> r.held]

Prepaid == INSTANCE PrepaidCredit WITH
             Credits   <- GrantSizes \cup {Welcome},
             available <- balance,
             hold      <- [o \in Owners |-> [k \in Keys |-> HoldOf(resv[o][k])]],
             spent     <- spend

\* Every step of the store is a step of the abstract prepaid account or leaves
\* it unchanged.
ImplementsPrepaidCredit == Prepaid!PSpec
=============================================================================
