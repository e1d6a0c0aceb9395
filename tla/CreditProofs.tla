---------------------------- MODULE CreditProofs ----------------------------
(***************************************************************************)
(* Proofs about managed credit.  First the store, for any owners, keys and *)
(* amounts and for any order of its transactions; then the gateway, which  *)
(* moves credit only through the store's transactions, so that what is     *)
(* proved of the store holds of the system, and which never writes a usage *)
(* event for a key whose hold is outstanding.                              *)
(***************************************************************************)
EXTENDS CreditGateway, FoldFacts, TLAPS

\* Appending a row that continues the running balance keeps the rows chained
\* and makes its balance_after the last one.
LEMMA ChainedAppend ==
  ASSUME NEW S, NEW rows \in Seq(S), NEW r \in S, Chained(rows),
         r.after = LastBalance(rows) + r.amount
  PROVE  /\ Append(rows, r) \in Seq(S)
         /\ Chained(Append(rows, r))
         /\ LastBalance(Append(rows, r)) = r.after
<1> DEFINE t == Append(rows, r)
<1>1. /\ t \in Seq(S) /\ Len(t) = Len(rows) + 1 /\ DOMAIN t = 1 .. Len(rows) + 1
      /\ \A i \in 1 .. Len(rows) : t[i] = rows[i]
      /\ t[Len(rows) + 1] = r
      /\ Len(rows) \in Nat /\ DOMAIN rows = 1 .. Len(rows)
  OBVIOUS
<1>2. rows = <<>> <=> Len(rows) = 0
  OBVIOUS
<1>3. LastBalance(t) = r.after
  <2>1. t # <<>>
    BY <1>1
  <2> QED BY <2>1, <1>1 DEF LastBalance
<1>4. ASSUME NEW i \in DOMAIN t
      PROVE  t[i].after = (IF i = 1 THEN 0 ELSE t[i - 1].after) + t[i].amount
  <2>1. CASE i \in 1 .. Len(rows)
    <3>1. i = 1 \/ i - 1 \in 1 .. Len(rows)
      BY <2>1, <1>1
    <3> QED BY <2>1, <3>1, <1>1 DEF Chained
  <2>2. CASE i = Len(rows) + 1
    <3>1. CASE Len(rows) = 0
      BY <2>2, <3>1, <1>1, <1>2 DEF LastBalance
    <3>2. CASE Len(rows) # 0
      <4>1. Len(rows) \in 1 .. Len(rows) /\ i # 1 /\ i - 1 = Len(rows)
        BY <2>2, <3>2, <1>1
      <4> QED BY <4>1, <2>2, <1>1, <1>2, <3>2 DEF LastBalance
    <3> QED BY <3>1, <3>2
  <2> QED BY <2>1, <2>2, <1>1
<1> HIDE DEF t
<1>5. Chained(t)
  BY <1>4 DEF Chained
<1> QED BY <1>1, <1>3, <1>5 DEF t


-----------------------------------------------------------------------------
(* Types.  The only case with arithmetic is that a balance stays natural: a   *)
(* hold is taken within it, and a charge is within the hold.                  *)

LEMMA ChargeWithinHold ==
  ASSUME NEW o \in Owners, NEW k \in Keys, NEW c \in Costs, LedgerTypeOK
  PROVE  /\ Charge(o, k, c) \in Nat
         /\ Charge(o, k, c) <= resv[o][k].held
         /\ WithHold(o, k) \in Nat
         /\ WithHold(o, k) - Charge(o, k, c) \in Nat
<1>1. resv[o][k].held \in Nat /\ balance[o] \in Nat
  BY DEF LedgerTypeOK, Reservation
<1>2. c \in Nat
  BY CostsAssumption
<1> QED BY <1>1, <1>2 DEF Charge, WithHold

LEMMA GrantType ==
  ASSUME NEW o \in Owners, NEW key \in GrantKeys \cup {WelcomeKey},
         NEW amount \in Nat, LedgerTypeOK, Grant(o, key, amount)
  PROVE  /\ balance' \in [Owners -> Nat]
         /\ grants' \in [Owners -> Nat]
         /\ ledger' \in [Owners -> Seq(LedgerRow)]
<1>1. CASE Recorded(o, "grant", key)
  BY <1>1 DEF Grant, LedgerTypeOK
<1>2. CASE ~Recorded(o, "grant", key)
  <2>1. balance[o] + amount \in Nat /\ grants[o] + amount \in Nat
    BY DEF LedgerTypeOK
  <2>2. Row("grant", key, amount, balance[o] + amount) \in LedgerRow
    BY <2>1 DEF Row, LedgerRow, RowKinds
  <2>3. Append(ledger[o], Row("grant", key, amount, balance[o] + amount)) \in Seq(LedgerRow)
    BY <2>2 DEF LedgerTypeOK
  <2> QED BY <1>2, <2>1, <2>3 DEF Grant, LedgerTypeOK
<1> QED BY <1>1, <1>2

LEMMA LedgerTypeInit == LedgerInit => LedgerTypeOK
BY DEF LedgerInit, LedgerTypeOK, NoReservation, Reservation

LEMMA LedgerTypeStep == LedgerTypeOK /\ [LedgerNext]_ledgerVars => LedgerTypeOK'
<1> SUFFICES ASSUME LedgerTypeOK, [LedgerNext]_ledgerVars PROVE LedgerTypeOK'
  OBVIOUS
<1>1. CASE UNCHANGED ledgerVars
  BY <1>1 DEF LedgerTypeOK, ledgerVars
<1>2. ASSUME NEW o \in Owners, EnsureAccount(o) PROVE LedgerTypeOK'
  <2>1. Welcome \in Nat
    BY WelcomeAssumption
  <2>2. /\ balance' \in [Owners -> Nat]
        /\ grants' \in [Owners -> Nat]
        /\ ledger' \in [Owners -> Seq(LedgerRow)]
    BY <1>2, <2>1, GrantType DEF EnsureAccount
  <2>3. status' \in [Owners -> {"none", "active", "frozen"}]
    BY <1>2 DEF EnsureAccount, LedgerTypeOK
  <2> QED BY <1>2, <2>2, <2>3 DEF EnsureAccount, LedgerTypeOK
<1>3. ASSUME NEW o \in Owners, NEW g \in GrantKeys, NEW a \in GrantSizes,
             RecordGrant(o, g, a)
      PROVE  LedgerTypeOK'
  <2>1. a \in Nat
    BY GrantSizesAssumption
  <2>2. /\ balance' \in [Owners -> Nat]
        /\ grants' \in [Owners -> Nat]
        /\ ledger' \in [Owners -> Seq(LedgerRow)]
    BY <1>3, <2>1, GrantType DEF RecordGrant
  <2> QED BY <1>3, <2>2 DEF RecordGrant, LedgerTypeOK
<1>4. ASSUME NEW o \in Owners, NEW k \in Keys, NEW a \in HoldSizes, Reserve(o, k, a)
      PROVE  LedgerTypeOK'
  <2>1. CASE resv[o][k].status # "none"
    BY <1>4, <2>1, <1>1 DEF Reserve
  <2>2. CASE resv[o][k].status = "none"
    <3>1. a \in Nat /\ balance[o] \in Nat /\ a <= balance[o]
      BY <1>4, <2>2, HoldSizesAssumption DEF Reserve, Reservable, LedgerTypeOK
    <3>2. balance[o] - a \in Nat /\ -a \in Int
      BY <3>1
    <3>3. Row("reserve", k, -a, balance[o] - a) \in LedgerRow
      BY <3>2 DEF Row, LedgerRow, RowKinds
    <3>4. Append(ledger[o], Row("reserve", k, -a, balance[o] - a)) \in Seq(LedgerRow)
      BY <3>3 DEF LedgerTypeOK
    <3>5. [status |-> "reserved", held |-> a, charged |-> 0] \in Reservation
      BY <3>1 DEF Reservation
    <3>6. /\ balance' = [balance EXCEPT ![o] = @ - a]
          /\ ledger' = [ledger EXCEPT
               ![o] = Append(@, Row("reserve", k, -a, balance[o] - a))]
          /\ resv' = [resv EXCEPT
               ![o][k] = [status |-> "reserved", held |-> a, charged |-> 0]]
          /\ UNCHANGED <<status, grants, spend>>
      BY <1>4, <2>2 DEF Reserve
    <3> QED BY <3>2, <3>4, <3>5, <3>6 DEF LedgerTypeOK
  <2> QED BY <2>1, <2>2
<1>5. ASSUME NEW o \in Owners, NEW k \in Keys, NEW c \in Costs, Finalize(o, k, c)
      PROVE  LedgerTypeOK'
  <2>1. CASE resv[o][k].status # "reserved"
    BY <1>5, <2>1, <1>1 DEF Finalize
  <2>2. CASE SettleCharged(o, k, c)
    <3> DEFINE charge == Charge(o, k, c)
               whole  == WithHold(o, k)
               freed  == Append(ledger[o],
                           Row("reserve_release", k, resv[o][k].held, whole))
               all    == Append(freed, Row("debit", k, -charge, whole - charge))
    <3>1. charge \in Nat /\ whole \in Nat /\ whole - charge \in Nat
      BY ChargeWithinHold
    <3>2. resv[o][k].held \in Nat /\ spend[o] \in Nat
      BY DEF LedgerTypeOK, Reservation
    <3>3. Row("reserve_release", k, resv[o][k].held, whole) \in LedgerRow
      BY <3>1, <3>2 DEF Row, LedgerRow, RowKinds
    <3>4. Row("debit", k, -charge, whole - charge) \in LedgerRow
      BY <3>1 DEF Row, LedgerRow, RowKinds
    <3>5. freed \in Seq(LedgerRow)
      BY <3>3 DEF LedgerTypeOK
    <3>6. all \in Seq(LedgerRow)
      BY <3>4, <3>5
    <3>7. [status |-> "finalized", held |-> resv[o][k].held, charged |-> charge]
            \in Reservation
      BY <3>1, <3>2 DEF Reservation
    <3>8. /\ balance' = [balance EXCEPT ![o] = whole - charge]
          /\ spend' = [spend EXCEPT ![o] = @ + charge]
          /\ ledger' = [ledger EXCEPT ![o] = IF charge > 0 THEN all ELSE freed]
          /\ resv' = [resv EXCEPT
               ![o][k] = [status |-> "finalized", held |-> @.held, charged |-> charge]]
          /\ UNCHANGED <<status, grants>>
      BY <2>2 DEF SettleCharged
    <3>9. spend[o] + charge \in Nat
      BY <3>1, <3>2
    <3> HIDE DEF charge, whole, freed, all
    <3> QED BY <3>1, <3>5, <3>6, <3>7, <3>8, <3>9 DEF LedgerTypeOK
  <2> QED BY <1>5, <2>1, <2>2 DEF Finalize
<1>6. ASSUME NEW o \in Owners, NEW k \in Keys, Release(o, k) PROVE LedgerTypeOK'
  <2>1. CASE resv[o][k].status # "reserved"
    BY <1>6, <2>1, <1>1 DEF Release
  <2>2. CASE SettleRefunded(o, k)
    <3>1. WithHold(o, k) \in Nat /\ resv[o][k].held \in Nat
      BY DEF LedgerTypeOK, Reservation, WithHold
    <3>2. Row("refund", k, resv[o][k].held, WithHold(o, k)) \in LedgerRow
      BY <3>1 DEF Row, LedgerRow, RowKinds
    <3>3. Append(ledger[o], Row("refund", k, resv[o][k].held, WithHold(o, k)))
            \in Seq(LedgerRow)
      BY <3>2 DEF LedgerTypeOK
    <3>4. [status |-> "released", held |-> resv[o][k].held, charged |-> 0] \in Reservation
      BY <3>1 DEF Reservation
    <3> QED BY <2>2, <3>1, <3>3, <3>4 DEF SettleRefunded, LedgerTypeOK
  <2> QED BY <1>6, <2>1, <2>2 DEF Release
<1>7. ASSUME NEW o \in Owners, NEW s \in {"active", "frozen"}, SetStatus(o, s)
      PROVE  LedgerTypeOK'
  BY <1>7 DEF SetStatus, LedgerTypeOK
<1> QED BY <1>1, <1>2, <1>3, <1>4, <1>5, <1>6, <1>7 DEF LedgerNext

\* The columns keep their types, and no balance is ever negative, whatever the
\* owners, keys, grants, holds and costs are and however the transactions of
\* concurrent calls follow one another.
THEOREM LedgerTypeCorrect == LedgerSpec => []LedgerTypeOK
<1> QED BY LedgerTypeInit, LedgerTypeStep, PTL DEF LedgerSpec

-----------------------------------------------------------------------------
(* The audit trail.  Every transaction that moves money appends rows that     *)
(* continue the running balance, and sets the balance to the last one's.      *)

LEMMA AuditInit == LedgerInit => AuditTrail
BY DEF LedgerInit, AuditTrail, Chained, LastBalance

\* Grant keeps the audit trail of its owner.
LEMMA GrantAudit ==
  ASSUME NEW o \in Owners, NEW key \in GrantKeys \cup {WelcomeKey},
         NEW amount \in Nat, LedgerTypeOK, AuditTrail, Grant(o, key, amount)
  PROVE  AuditTrail'
<1>1. CASE Recorded(o, "grant", key)
  BY <1>1 DEF Grant, AuditTrail
<1>2. CASE ~Recorded(o, "grant", key)
  <2> DEFINE r == Row("grant", key, amount, balance[o] + amount)
  <2>1. r \in LedgerRow
    BY DEF Row, LedgerRow, RowKinds, LedgerTypeOK
  <2>2. r.after = LastBalance(ledger[o]) + r.amount /\ r.after = balance[o] + amount
    BY DEF Row, AuditTrail
  <2>3. ledger[o] \in Seq(LedgerRow) /\ Chained(ledger[o])
    BY DEF LedgerTypeOK, AuditTrail
  <2>4. Chained(Append(ledger[o], r)) /\ LastBalance(Append(ledger[o], r)) = r.after
    BY <2>1, <2>2, <2>3, ChainedAppend
  <2>5. /\ balance' = [balance EXCEPT ![o] = @ + amount]
        /\ ledger' = [ledger EXCEPT ![o] = Append(@, r)]
    BY <1>2 DEF Grant
  <2> HIDE DEF r
  <2> QED BY <2>2, <2>4, <2>5 DEF AuditTrail, LedgerTypeOK
<1> QED BY <1>1, <1>2

LEMMA AuditStep ==
  LedgerTypeOK /\ AuditTrail /\ [LedgerNext]_ledgerVars => AuditTrail'
<1> SUFFICES ASSUME LedgerTypeOK, AuditTrail, [LedgerNext]_ledgerVars
             PROVE  AuditTrail'
  OBVIOUS
<1>1. CASE UNCHANGED ledgerVars
  BY <1>1 DEF AuditTrail, ledgerVars
<1>2. ASSUME NEW o \in Owners, EnsureAccount(o) PROVE AuditTrail'
  BY <1>2, GrantAudit, WelcomeAssumption DEF EnsureAccount
<1>3. ASSUME NEW o \in Owners, NEW g \in GrantKeys, NEW a \in GrantSizes,
             RecordGrant(o, g, a)
      PROVE  AuditTrail'
  <2>1. a \in Nat
    BY GrantSizesAssumption
  <2> QED BY <1>3, <2>1, GrantAudit DEF RecordGrant
<1>4. ASSUME NEW o \in Owners, NEW k \in Keys, NEW a \in HoldSizes, Reserve(o, k, a)
      PROVE  AuditTrail'
  <2>1. CASE resv[o][k].status # "none"
    BY <1>4, <2>1, <1>1 DEF Reserve
  <2>2. CASE resv[o][k].status = "none"
    <3> DEFINE r == Row("reserve", k, -a, balance[o] - a)
    <3>1. a \in Nat /\ balance[o] \in Nat /\ a <= balance[o]
      BY <1>4, <2>2, HoldSizesAssumption DEF Reserve, Reservable, LedgerTypeOK
    <3>2. r \in LedgerRow
      BY <3>1 DEF Row, LedgerRow, RowKinds
    <3>3. r.after = LastBalance(ledger[o]) + r.amount /\ r.after = balance[o] - a
      BY <3>1 DEF Row, AuditTrail
    <3>4. ledger[o] \in Seq(LedgerRow) /\ Chained(ledger[o])
      BY DEF LedgerTypeOK, AuditTrail
    <3>5. Chained(Append(ledger[o], r)) /\ LastBalance(Append(ledger[o], r)) = r.after
      BY <3>2, <3>3, <3>4, ChainedAppend
    <3>6. /\ balance' = [balance EXCEPT ![o] = @ - a]
          /\ ledger' = [ledger EXCEPT ![o] = Append(@, r)]
      BY <1>4, <2>2 DEF Reserve
    <3> HIDE DEF r
    <3> QED BY <3>3, <3>5, <3>6 DEF AuditTrail, LedgerTypeOK
  <2> QED BY <2>1, <2>2
<1>5. ASSUME NEW o \in Owners, NEW k \in Keys, NEW c \in Costs, Finalize(o, k, c)
      PROVE  AuditTrail'
  <2>1. CASE resv[o][k].status # "reserved"
    BY <1>5, <2>1, <1>1 DEF Finalize
  <2>2. CASE SettleCharged(o, k, c)
    <3> DEFINE charge == Charge(o, k, c)
               whole  == WithHold(o, k)
               r1     == Row("reserve_release", k, resv[o][k].held, whole)
               r2     == Row("debit", k, -charge, whole - charge)
               freed  == Append(ledger[o], r1)
               all    == Append(freed, r2)
    <3>1. charge \in Nat /\ whole \in Nat /\ whole - charge \in Nat
      BY ChargeWithinHold
    <3>2. resv[o][k].held \in Nat /\ balance[o] \in Nat
      BY DEF LedgerTypeOK, Reservation
    <3>3. r1 \in LedgerRow /\ r2 \in LedgerRow
      BY <3>1, <3>2 DEF Row, LedgerRow, RowKinds
    <3>4. r1.after = LastBalance(ledger[o]) + r1.amount /\ r1.after = whole
      BY DEF Row, AuditTrail, WithHold
    <3>5. ledger[o] \in Seq(LedgerRow) /\ Chained(ledger[o])
      BY DEF LedgerTypeOK, AuditTrail
    <3>6. freed \in Seq(LedgerRow) /\ Chained(freed) /\ LastBalance(freed) = whole
      BY <3>3, <3>4, <3>5, ChainedAppend
    <3>7. r2.after = whole + r2.amount /\ r2.after = whole - charge
      BY <3>1 DEF Row
    <3>8. Chained(all) /\ LastBalance(all) = whole - charge
      BY <3>3, <3>6, <3>7, ChainedAppend
    <3>9. /\ balance' = [balance EXCEPT ![o] = whole - charge]
          /\ ledger' = [ledger EXCEPT ![o] = IF charge > 0 THEN all ELSE freed]
      BY <2>2 DEF SettleCharged
    <3>10. charge > 0 \/ whole - charge = whole
      BY <3>1
    <3> HIDE DEF charge, whole, r1, r2, freed, all
    <3>11. \A p \in Owners : Chained(ledger'[p])
      BY <3>6, <3>8, <3>9 DEF AuditTrail, LedgerTypeOK
    <3>12. \A p \in Owners : balance'[p] = LastBalance(ledger'[p])
      BY <3>6, <3>8, <3>9, <3>10 DEF AuditTrail, LedgerTypeOK
    <3> QED BY <3>11, <3>12 DEF AuditTrail
  <2> QED BY <1>5, <2>1, <2>2 DEF Finalize
<1>6. ASSUME NEW o \in Owners, NEW k \in Keys, Release(o, k) PROVE AuditTrail'
  <2>1. CASE resv[o][k].status # "reserved"
    BY <1>6, <2>1, <1>1 DEF Release
  <2>2. CASE SettleRefunded(o, k)
    <3> DEFINE r == Row("refund", k, resv[o][k].held, WithHold(o, k))
    <3>1. WithHold(o, k) \in Nat /\ resv[o][k].held \in Nat
      BY DEF LedgerTypeOK, Reservation, WithHold
    <3>2. r \in LedgerRow
      BY <3>1 DEF Row, LedgerRow, RowKinds
    <3>3. r.after = LastBalance(ledger[o]) + r.amount /\ r.after = WithHold(o, k)
      BY DEF Row, AuditTrail, WithHold
    <3>4. ledger[o] \in Seq(LedgerRow) /\ Chained(ledger[o])
      BY DEF LedgerTypeOK, AuditTrail
    <3>5. Chained(Append(ledger[o], r)) /\ LastBalance(Append(ledger[o], r)) = r.after
      BY <3>2, <3>3, <3>4, ChainedAppend
    <3>6. /\ balance' = [balance EXCEPT ![o] = WithHold(o, k)]
          /\ ledger' = [ledger EXCEPT ![o] = Append(@, r)]
      BY <2>2 DEF SettleRefunded
    <3> HIDE DEF r
    <3> QED BY <3>3, <3>5, <3>6 DEF AuditTrail, LedgerTypeOK
  <2> QED BY <1>6, <2>1, <2>2 DEF Release
<1>7. ASSUME NEW o \in Owners, NEW s \in {"active", "frozen"}, SetStatus(o, s)
      PROVE  AuditTrail'
  BY <1>7 DEF SetStatus, AuditTrail
<1> QED BY <1>1, <1>2, <1>3, <1>4, <1>5, <1>6, <1>7 DEF LedgerNext

\* For every owner, in every reachable state, the ledger's rows chain from zero
\* to the account's balance: the ledger alone reproduces the balance column.
THEOREM LedgerReproducesBalance == LedgerSpec => []AuditTrail
<1> QED BY LedgerTypeInit, LedgerTypeStep, AuditInit, AuditStep, PTL DEF LedgerSpec

\* A transaction leaves a settled reservation as it is, and never unmakes one.
LEMMA ReservationStep ==
  ASSUME LedgerTypeOK, [LedgerNext]_ledgerVars, NEW p \in Owners, NEW q \in Keys
  PROVE  /\ resv[p][q].status \in Settled => resv'[p][q] = resv[p][q]
         /\ resv[p][q].status # "none" => resv'[p][q].status # "none"
<1>1. CASE UNCHANGED ledgerVars
  BY <1>1 DEF ledgerVars
<1>2. ASSUME NEW o \in Owners,
             \/ EnsureAccount(o)
             \/ \E g \in GrantKeys, a \in GrantSizes : RecordGrant(o, g, a)
             \/ \E s \in {"active", "frozen"} : SetStatus(o, s)
      PROVE  resv' = resv
  BY <1>2 DEF EnsureAccount, RecordGrant, SetStatus
<1> DEFINE Kept == /\ resv[p][q].status \in Settled => resv'[p][q] = resv[p][q]
                   /\ resv[p][q].status # "none" => resv'[p][q].status # "none"
<1>3. ASSUME NEW o \in Owners, NEW k \in Keys, NEW a \in HoldSizes, Reserve(o, k, a)
      PROVE  Kept
  <2>1. CASE resv[o][k].status # "none"
    BY <1>3, <2>1 DEF Reserve, ledgerVars
  <2>2. CASE resv[o][k].status = "none"
    <3>1. resv' = [resv EXCEPT
            ![o][k] = [status |-> "reserved", held |-> a, charged |-> 0]]
      BY <1>3, <2>2 DEF Reserve
    <3>2. (p = o /\ q = k) => resv'[p][q].status = "reserved"
      BY <3>1 DEF LedgerTypeOK
    <3>3. (p # o \/ q # k) => resv'[p][q] = resv[p][q]
      BY <3>1 DEF LedgerTypeOK
    <3> QED BY <2>2, <3>2, <3>3 DEF Settled
  <2> QED BY <2>1, <2>2
<1>4. ASSUME NEW o \in Owners, NEW k \in Keys, NEW c \in Costs, Finalize(o, k, c)
      PROVE  Kept
  <2>1. CASE UNCHANGED ledgerVars
    BY <2>1 DEF ledgerVars
  <2>2. CASE resv[o][k].status = "reserved" /\ SettleCharged(o, k, c)
    <3> DEFINE r == [status  |-> "finalized", held |-> resv[o][k].held,
                     charged |-> Charge(o, k, c)]
    <3>1. resv' = [resv EXCEPT ![o][k] = r]
      BY <2>2 DEF SettleCharged
    <3>2. (p = o /\ q = k) => resv'[p][q].status = "finalized"
      BY <3>1 DEF LedgerTypeOK
    <3> HIDE DEF r
    <3>3. (p # o \/ q # k) => resv'[p][q] = resv[p][q]
      BY <3>1 DEF LedgerTypeOK
    <3> QED BY <2>2, <3>2, <3>3 DEF Settled
  <2> QED BY <1>4, <2>1, <2>2 DEF Finalize
<1>5. ASSUME NEW o \in Owners, NEW k \in Keys, Release(o, k)
      PROVE  Kept
  <2>1. CASE UNCHANGED ledgerVars
    BY <2>1 DEF ledgerVars
  <2>2. CASE resv[o][k].status = "reserved" /\ SettleRefunded(o, k)
    <3> DEFINE r == [status |-> "released", held |-> resv[o][k].held, charged |-> 0]
    <3>1. resv' = [resv EXCEPT ![o][k] = r]
      BY <2>2 DEF SettleRefunded
    <3>2. (p = o /\ q = k) => resv'[p][q].status = "released"
      BY <3>1 DEF LedgerTypeOK
    <3> HIDE DEF r
    <3>3. (p # o \/ q # k) => resv'[p][q] = resv[p][q]
      BY <3>1 DEF LedgerTypeOK
    <3> QED BY <2>2, <3>2, <3>3 DEF Settled
  <2> QED BY <1>5, <2>1, <2>2 DEF Release
<1> QED BY <1>1, <1>2, <1>3, <1>4, <1>5 DEF LedgerNext

\* A settled reservation is never reopened, recharged or refunded, by any
\* transaction of any call: settling happens once.
THEOREM SettlingIsFinal == LedgerSpec => SettledIsFinal
<1>1. LedgerTypeOK /\ [LedgerNext]_ledgerVars
        => [\A o \in Owners, k \in Keys :
              resv[o][k].status \in Settled => resv'[o][k] = resv[o][k]]_ledgerVars
  BY ReservationStep
<1> QED BY <1>1, LedgerTypeInit, LedgerTypeStep, PTL DEF LedgerSpec, SettledIsFinal

-----------------------------------------------------------------------------
(* The rows of the ledger and the reservations. *)

\* A row of a kind and key the ledger does not have keeps its rows distinct and adds
\* just that row.
LEMMA RowAppended ==
  ASSUME NEW rows \in Seq(LedgerRow), NEW r \in LedgerRow, Distinct(rows),
         ~ HasRow(rows, r.kind, r.key)
  PROVE  /\ Distinct(Append(rows, r))
         /\ \A kind, key : HasRow(Append(rows, r), kind, key)
                             <=> HasRow(rows, kind, key) \/ (kind = r.kind /\ key = r.key)
<1> DEFINE t == Append(rows, r)
<1>1. /\ DOMAIN t = 1 .. Len(rows) + 1 /\ DOMAIN rows = 1 .. Len(rows) /\ Len(rows) \in Nat
      /\ \A i \in 1 .. Len(rows) : t[i] = rows[i]
      /\ t[Len(rows) + 1] = r
  OBVIOUS
<1> HIDE DEF t
<1>2. Distinct(t)
  BY <1>1 DEF Distinct, HasRow
<1>3. \A kind, key : HasRow(t, kind, key)
                       <=> HasRow(rows, kind, key) \/ (kind = r.kind /\ key = r.key)
  BY <1>1 DEF HasRow
<1> QED BY <1>2, <1>3 DEF t

\* A grant touches no row of a reservation.
LEMMA GrantRows ==
  ASSUME NEW o \in Owners, NEW key \in GrantKeys \cup {WelcomeKey}, NEW amount \in Nat,
         LedgerTypeOK, ReservationRows, Grant(o, key, amount), resv' = resv
  PROVE  ReservationRows'
<1>1. CASE Recorded(o, "grant", key)
  BY <1>1 DEF Grant, ReservationRows, Recorded
<1>2. CASE ~ Recorded(o, "grant", key)
  <2> DEFINE r == Row("grant", key, amount, balance[o] + amount)
  <2>1. r \in LedgerRow /\ r.kind = "grant" /\ r.key = key
    BY DEF Row, LedgerRow, RowKinds, LedgerTypeOK
  <2>2. ledger' = [ledger EXCEPT ![o] = Append(ledger[o], r)]
    BY <1>2 DEF Grant
  <2> HIDE DEF r
  <2>3. /\ Distinct(Append(ledger[o], r))
        /\ \A kind, k : kind # "grant" =>
              (HasRow(Append(ledger[o], r), kind, k) <=> HasRow(ledger[o], kind, k))
    <3>1. ledger[o] \in Seq(LedgerRow) /\ Distinct(ledger[o]) /\ ~ HasRow(ledger[o], r.kind, r.key)
      BY <1>2, <2>1 DEF LedgerTypeOK, ReservationRows, Recorded
    <3> QED BY <2>1, <3>1, RowAppended
  <2>4. ledger' \in [Owners -> {Append(ledger[o], r)} \cup {ledger[p] : p \in Owners}]
    BY <2>2 DEF LedgerTypeOK
  <2>5. \A p \in Owners : ledger'[p] = IF p = o THEN Append(ledger[o], r) ELSE ledger[p]
    BY <2>2 DEF LedgerTypeOK
  <2> QED BY <2>3, <2>5 DEF ReservationRows, Recorded
<1> QED BY <1>1, <1>2

\* The rows of one key and its reservation.
Agree(rows, k, r) ==
  /\ HasRow(rows, "reserve", k) <=> r.status # "none"
  /\ HasRow(rows, "reserve_release", k) <=> r.status = "finalized"
  /\ HasRow(rows, "debit", k) <=> r.status = "finalized" /\ r.charged > 0
  /\ HasRow(rows, "refund", k) <=> r.status = "released"
  /\ r.charged <= r.held

\* ReservationRows, one reservation at a time.
LEMMA RowsOf ==
  ReservationRows <=> \A o \in Owners : /\ Distinct(ledger[o])
                                        /\ \A k \in Keys : Agree(ledger[o], k, resv[o][k])
BY DEF ReservationRows, Recorded, Agree

\* A transaction that writes rows of one key and its reservation disturbs no other.
LEMMA OneReservation ==
  ASSUME NEW o \in Owners, NEW k \in Keys, NEW rows, NEW r, LedgerTypeOK, ReservationRows,
         ledger' = [ledger EXCEPT ![o] = rows], resv' = [resv EXCEPT ![o][k] = r],
         Distinct(rows), Agree(rows, k, r),
         \A kind, q : q # k => (HasRow(rows, kind, q) <=> HasRow(ledger[o], kind, q))
  PROVE  ReservationRows'
<1>1. \A p \in Owners : ledger'[p] = IF p = o THEN rows ELSE ledger[p]
  BY DEF LedgerTypeOK
<1>2. \A p \in Owners, q \in Keys : resv'[p][q] = IF p = o /\ q = k THEN r ELSE resv[p][q]
  BY DEF LedgerTypeOK
<1>3. \A q \in Keys : q # k => Agree(rows, q, resv[o][q])
  BY RowsOf DEF Agree
<1>4. ASSUME NEW p \in Owners, NEW q \in Keys
      PROVE  Distinct(ledger'[p]) /\ Agree(ledger'[p], q, resv'[p][q])
  BY <1>1, <1>2, <1>3, RowsOf
<1> QED BY <1>4, <1>1 DEF ReservationRows, Recorded, Agree
\* A hold writes its row, and no second one.
LEMMA ReserveRows ==
  ASSUME NEW o \in Owners, NEW k \in Keys, NEW a \in HoldSizes, LedgerTypeOK, ReservationRows,
         Reserve(o, k, a)
  PROVE  ReservationRows'
<1>1. CASE resv[o][k].status # "none"
  BY <1>1 DEF Reserve, ledgerVars, ReservationRows, Recorded
<1>2. CASE resv[o][k].status = "none"
  <2> DEFINE row == Row("reserve", k, -a, balance[o] - a)
             r == [status |-> "reserved", held |-> a, charged |-> 0]
  <2>1. a \in Nat /\ balance[o] \in Nat /\ a <= balance[o]
    BY <1>2, HoldSizesAssumption DEF Reserve, Reservable, LedgerTypeOK
  <2>2. row \in LedgerRow /\ row.kind = "reserve" /\ row.key = k
    BY <2>1 DEF Row, LedgerRow, RowKinds
  <2>3. /\ ledger' = [ledger EXCEPT ![o] = Append(ledger[o], row)]
        /\ resv' = [resv EXCEPT ![o][k] = r]
    BY <1>2 DEF Reserve
  <2>4. Distinct(ledger[o]) /\ Agree(ledger[o], k, resv[o][k])
    BY RowsOf
  <2>5. r.status = "reserved" /\ r.charged <= r.held
    BY <2>1
  <2> HIDE DEF row, r
  <2>6. /\ Distinct(Append(ledger[o], row))
        /\ \A kind, key : HasRow(Append(ledger[o], row), kind, key)
                            <=> HasRow(ledger[o], kind, key) \/ (kind = "reserve" /\ key = k)
    BY <1>2, <2>2, <2>4, RowAppended DEF Agree, LedgerTypeOK
  <2>7. Agree(Append(ledger[o], row), k, r)
    BY <1>2, <2>4, <2>5, <2>6 DEF Agree
  <2> QED BY <2>3, <2>6, <2>7, OneReservation
<1> QED BY <1>1, <1>2

\* finalize writes the release, and the debit when something is charged.
LEMMA FinalizeRows ==
  ASSUME NEW o \in Owners, NEW k \in Keys, NEW c \in Costs, LedgerTypeOK, ReservationRows,
         Finalize(o, k, c)
  PROVE  ReservationRows'
<1>1. CASE resv[o][k].status # "reserved"
  BY <1>1 DEF Finalize, ledgerVars, ReservationRows, Recorded
<1>2. CASE resv[o][k].status = "reserved"
  <2> DEFINE charge == Charge(o, k, c)
             freedRow == Row("reserve_release", k, resv[o][k].held, WithHold(o, k))
             debitRow == Row("debit", k, -charge, WithHold(o, k) - charge)
             freed == Append(ledger[o], freedRow)
             rows == IF charge > 0 THEN Append(freed, debitRow) ELSE freed
             r == [status |-> "finalized", held |-> resv[o][k].held, charged |-> charge]
  <2>1. /\ charge \in Nat /\ charge <= resv[o][k].held
        /\ WithHold(o, k) \in Nat /\ WithHold(o, k) - charge \in Nat
    BY ChargeWithinHold
  <2>2. /\ freedRow \in LedgerRow /\ freedRow.kind = "reserve_release" /\ freedRow.key = k
        /\ debitRow \in LedgerRow /\ debitRow.kind = "debit" /\ debitRow.key = k
    BY <2>1 DEF Row, LedgerRow, RowKinds, LedgerTypeOK, Reservation
  <2>3. ledger' = [ledger EXCEPT ![o] = rows] /\ resv' = [resv EXCEPT ![o][k] = r]
    BY <1>2 DEF Finalize, SettleCharged
  <2>4. Distinct(ledger[o]) /\ Agree(ledger[o], k, resv[o][k]) /\ ledger[o] \in Seq(LedgerRow)
    BY RowsOf DEF LedgerTypeOK
  <2>5. r.status = "finalized" /\ r.charged = charge /\ r.charged <= r.held
    BY <2>1
  <2> HIDE DEF freedRow, debitRow, r, charge
  <2>6. /\ Distinct(freed) /\ freed \in Seq(LedgerRow)
        /\ \A kind, key : HasRow(freed, kind, key)
              <=> HasRow(ledger[o], kind, key) \/ (kind = "reserve_release" /\ key = k)
    BY <1>2, <2>2, <2>4, RowAppended DEF Agree
  <2> HIDE DEF freed
  <2>7. /\ Distinct(Append(freed, debitRow))
        /\ \A kind, key : HasRow(Append(freed, debitRow), kind, key)
              <=> HasRow(freed, kind, key) \/ (kind = "debit" /\ key = k)
    BY <1>2, <2>2, <2>4, <2>6, RowAppended DEF Agree
  <2>8. /\ Distinct(rows)
        /\ \A kind, key : HasRow(rows, kind, key)
              <=> \/ HasRow(ledger[o], kind, key)
                  \/ kind = "reserve_release" /\ key = k
                  \/ charge > 0 /\ kind = "debit" /\ key = k
    BY <2>6, <2>7
  <2> HIDE DEF rows
  <2>9. Agree(rows, k, r)
    BY <1>2, <2>4, <2>5, <2>8 DEF Agree
  <2> QED BY <2>3, <2>8, <2>9, OneReservation
<1> QED BY <1>1, <1>2

\* release writes the refund.
LEMMA ReleaseRows ==
  ASSUME NEW o \in Owners, NEW k \in Keys, LedgerTypeOK, ReservationRows, Release(o, k)
  PROVE  ReservationRows'
<1>1. CASE resv[o][k].status # "reserved"
  BY <1>1 DEF Release, ledgerVars, ReservationRows, Recorded
<1>2. CASE resv[o][k].status = "reserved"
  <2> DEFINE row == Row("refund", k, resv[o][k].held, WithHold(o, k))
             r == [status |-> "released", held |-> resv[o][k].held, charged |-> 0]
  <2>1. resv[o][k].held \in Nat /\ WithHold(o, k) \in Nat
    BY DEF LedgerTypeOK, Reservation, WithHold
  <2>2. row \in LedgerRow /\ row.kind = "refund" /\ row.key = k
    BY <2>1 DEF Row, LedgerRow, RowKinds
  <2>3. /\ ledger' = [ledger EXCEPT ![o] = Append(ledger[o], row)]
        /\ resv' = [resv EXCEPT ![o][k] = r]
    BY <1>2 DEF Release, SettleRefunded
  <2>4. Distinct(ledger[o]) /\ Agree(ledger[o], k, resv[o][k])
    BY RowsOf
  <2>5. r.status = "released" /\ r.charged <= r.held
    BY <2>1
  <2> HIDE DEF row, r
  <2>6. /\ Distinct(Append(ledger[o], row))
        /\ \A kind, key : HasRow(Append(ledger[o], row), kind, key)
                            <=> HasRow(ledger[o], kind, key) \/ (kind = "refund" /\ key = k)
    BY <1>2, <2>2, <2>4, RowAppended DEF Agree, LedgerTypeOK
  <2>7. Agree(Append(ledger[o], row), k, r)
    BY <1>2, <2>4, <2>5, <2>6 DEF Agree
  <2> QED BY <2>3, <2>6, <2>7, OneReservation
<1> QED BY <1>1, <1>2

LEMMA RowsInit == LedgerInit => ReservationRows
BY DEF LedgerInit, ReservationRows, Recorded, HasRow, Distinct, NoReservation

LEMMA RowsStep ==
  ASSUME LedgerTypeOK, ReservationRows, [LedgerNext]_ledgerVars
  PROVE  ReservationRows'
<1>1. ASSUME UNCHANGED <<ledger, resv>> PROVE ReservationRows'
  BY <1>1 DEF ReservationRows, Recorded
<1>2. ASSUME NEW o \in Owners, EnsureAccount(o) PROVE ReservationRows'
  BY <1>2, GrantRows, WelcomeAssumption DEF EnsureAccount
<1>3. ASSUME NEW o \in Owners, NEW g \in GrantKeys, NEW a \in GrantSizes, RecordGrant(o, g, a)
      PROVE  ReservationRows'
  BY <1>3, GrantRows, GrantSizesAssumption DEF RecordGrant
<1>4. CASE \/ \E o \in Owners, s \in {"active", "frozen"} : SetStatus(o, s)
           \/ UNCHANGED ledgerVars
  BY <1>1, <1>4 DEF SetStatus, ledgerVars
<1> QED BY <1>2, <1>3, <1>4, ReserveRows, FinalizeRows, ReleaseRows DEF LedgerNext

-----------------------------------------------------------------------------
(* Conservation: the sum over the reservations. *)

OnHold(rv) == {k \in Keys : rv[k].status = "reserved"}
Holding(rv) == MapThenSumSet(LAMBDA k : rv[k].held, OnHold(rv))
HoldAmounts(rv) == [k \in Keys |-> rv[k].held]

\* The recursive sum is the total, so that it can be taken apart at any key.
LEMMA HoldingIsSum ==
  ASSUME NEW rv, IsFiniteSet(OnHold(rv))
  PROVE  Holding(rv) = SumOver(HoldAmounts(rv), OnHold(rv))
<1> DEFINE S == OnHold(rv)
           IsIter(h) == h = [s \in SUBSET S |-> IF s = {} THEN 0
                                                ELSE rv[Pick(s)].held + h[s \ {Pick(s)}]]
           iter == CHOOSE h : IsIter(h)
<1>1. PICK g : Sums(g, HoldAmounts(rv), S)
  BY SumsExist
<1>2. \A h : IsIter(h) <=> Sums(h, HoldAmounts(rv), S)
  BY PickIn DEF Sums, HoldAmounts, OnHold
<1>3. Holding(rv) = iter[S]
  BY DEF Holding, MapThenSumSet, MapThenFoldSet, Pick
<1>4. IsIter(iter)
  <2> HIDE DEF IsIter
  <2> QED BY <1>1, <1>2
<1>5. Sums(iter, HoldAmounts(rv), S)
  <2> HIDE DEF IsIter
  <2> QED BY <1>2, <1>4
<1> QED BY <1>3, <1>5, SumOverIs

\* What a hold that is taken, kept or given back does to the sum.
LEMMA HoldingChanges ==
  ASSUME NEW rv \in [Keys -> Reservation], NEW k \in Keys, NEW r \in Reservation,
         IsFiniteSet(OnHold(rv))
  PROVE  /\ IsFiniteSet(OnHold([rv EXCEPT ![k] = r]))
         /\ Holding(rv) \in Int
         /\ Holding([rv EXCEPT ![k] = r])
              = Holding(rv) - (IF rv[k].status = "reserved" THEN rv[k].held ELSE 0)
                            + (IF r.status = "reserved" THEN r.held ELSE 0)
<1> DEFINE new == [rv EXCEPT ![k] = r]
           kept == OnHold(rv) \ {k}
<1>1. /\ OnHold(new) = IF r.status = "reserved" THEN kept \cup {k} ELSE kept
      /\ OnHold(rv) = IF rv[k].status = "reserved" THEN kept \cup {k} ELSE kept
  BY DEF OnHold
<1>2. kept \in SUBSET Keys /\ k \in Keys \ kept
  BY DEF OnHold
<1>3. IsFiniteSet(kept) /\ IsFiniteSet(OnHold(new))
  BY <1>1, FS_RemoveElement, FS_AddElement
<1>4. HoldAmounts(rv) \in [Keys -> Int] /\ HoldAmounts(new) \in [Keys -> Int]
  BY DEF HoldAmounts, Reservation
<1>5. HoldAmounts(new)[k] = r.held /\ HoldAmounts(rv)[k] = rv[k].held /\ r.held \in Int /\ rv[k].held \in Int
  BY DEF HoldAmounts, Reservation
<1>6. SumOver(HoldAmounts(new), kept) = SumOver(HoldAmounts(rv), kept)
  <2>1. \A x \in kept : HoldAmounts(new)[x] = HoldAmounts(rv)[x]
    BY <1>2 DEF HoldAmounts
  <2> HIDE DEF kept, new
  <2> QED BY <2>1, <1>3, SumOverSame
<1> HIDE DEF kept, new
<1>7. SumOver(HoldAmounts(rv), kept) \in Int
  BY <1>2, <1>3, <1>4, SumOverRemove
<1>8. /\ SumOver(HoldAmounts(rv), kept \cup {k}) = rv[k].held + SumOver(HoldAmounts(rv), kept)
      /\ SumOver(HoldAmounts(new), kept \cup {k}) = r.held + SumOver(HoldAmounts(new), kept)
  BY <1>2, <1>3, <1>4, <1>5, SumOverAdd
<1>9. Holding(rv) = SumOver(HoldAmounts(rv), OnHold(rv)) /\ Holding(new) = SumOver(HoldAmounts(new), OnHold(new))
  BY <1>3, HoldingIsSum
<1>10. /\ Holding(rv) \in Int
       /\ Holding(new) = Holding(rv) - (IF rv[k].status = "reserved" THEN rv[k].held ELSE 0)
                                     + (IF r.status = "reserved" THEN r.held ELSE 0)
  BY <1>1, <1>5, <1>6, <1>7, <1>8, <1>9
<1> QED BY <1>3, <1>10 DEF new

\* Only finitely many reservations are ever made, whatever set the keys are taken from.
FiniteHolds == \A o \in Owners : IsFiniteSet(OnHold(resv[o]))

Conserved == FiniteHolds /\ \A o \in Owners : grants[o] = balance[o] + Holding(resv[o]) + spend[o]

\* Conservation is about the sum of the holds of each owner.
LEMMA HeldIs ==
  Conservation <=> \A o \in Owners : grants[o] = balance[o] + Holding(resv[o]) + spend[o]
BY DEF Conservation, Held, Holding, OnHold, MapThenSumSet, MapThenFoldSet

LEMMA ConservedInit == LedgerInit => Conserved
<1> SUFFICES ASSUME LedgerInit PROVE Conserved
  OBVIOUS
<1>1. \A o \in Owners : OnHold(resv[o]) = {}
  BY DEF LedgerInit, OnHold, NoReservation
<1>2. \A o \in Owners : Holding(resv[o]) = 0
  BY <1>1, HoldingIsSum, SumOverEmpty, FS_EmptySet
<1>3. FiniteHolds
  BY <1>1, FS_EmptySet DEF FiniteHolds
<1>4. ASSUME NEW o \in Owners
      PROVE  grants[o] = balance[o] + Holding(resv[o]) + spend[o]
  <2>1. grants[o] = 0 /\ balance[o] = 0 /\ spend[o] = 0
    BY DEF LedgerInit
  <2> QED BY <1>2, <2>1
<1> QED BY <1>3, <1>4 DEF Conserved

\* A transaction that changes one reservation moves the money its hold gains or loses,
\* and what it charges, and nothing else.
LEMMA OneHoldConserves ==
  ASSUME NEW o \in Owners, NEW k \in Keys, NEW r \in Reservation, NEW c \in Nat,
         LedgerTypeOK, Conserved,
         resv' = [resv EXCEPT ![o][k] = r], UNCHANGED grants,
         spend' = [spend EXCEPT ![o] = @ + c],
         balance' = [balance EXCEPT ![o] =
            @ + (IF resv[o][k].status = "reserved" THEN resv[o][k].held ELSE 0)
              - (IF r.status = "reserved" THEN r.held ELSE 0) - c]
  PROVE  Conserved'
<1> DEFINE out == IF resv[o][k].status = "reserved" THEN resv[o][k].held ELSE 0
           in == IF r.status = "reserved" THEN r.held ELSE 0
           new == [resv[o] EXCEPT ![k] = r]
<1>1. /\ resv[o] \in [Keys -> Reservation] /\ IsFiniteSet(OnHold(resv[o]))
      /\ balance[o] \in Int /\ spend[o] \in Int /\ grants[o] \in Int /\ out \in Int /\ in \in Int
  BY DEF LedgerTypeOK, Conserved, FiniteHolds, Reservation
<1>2. \A p \in Owners : resv'[p] = IF p = o THEN new ELSE resv[p]
  BY DEF LedgerTypeOK
<1>3. \A p \in Owners : /\ balance'[p] = IF p = o THEN balance[o] + out - in - c ELSE balance[p]
                        /\ spend'[p] = IF p = o THEN spend[o] + c ELSE spend[p]
                        /\ grants'[p] = grants[p]
  BY DEF LedgerTypeOK
<1>4. IsFiniteSet(OnHold(new)) /\ Holding(resv[o]) \in Int /\ Holding(new) = Holding(resv[o]) - out + in
  BY <1>1, HoldingChanges
<1>5. grants[o] = balance[o] + Holding(resv[o]) + spend[o]
  BY DEF Conserved
<1> HIDE DEF out, in, new
<1>6. grants[o] = (balance[o] + out - in - c) + Holding(new) + (spend[o] + c)
  BY <1>1, <1>4, <1>5
<1> QED BY <1>2, <1>3, <1>4, <1>6 DEF Conserved, FiniteHolds

LEMMA ConservedStep ==
  ASSUME LedgerTypeOK, Conserved, [LedgerNext]_ledgerVars
  PROVE  Conserved'
<1>1. ASSUME UNCHANGED <<balance, grants, spend, resv>> PROVE Conserved'
  BY <1>1 DEF Conserved, FiniteHolds
<1>2. ASSUME NEW o \in Owners, NEW key, NEW amount \in Nat, Grant(o, key, amount),
             UNCHANGED <<spend, resv>>
      PROVE  Conserved'
  <2>1. CASE Recorded(o, "grant", key)
    BY <1>1, <1>2, <2>1 DEF Grant
  <2>2. CASE ~ Recorded(o, "grant", key)
    <3>1. /\ balance' = [balance EXCEPT ![o] = balance[o] + amount]
          /\ grants' = [grants EXCEPT ![o] = grants[o] + amount]
      BY <1>2, <2>2 DEF Grant
    <3>2. \A p \in Owners : balance[p] \in Int /\ spend[p] \in Int /\ Holding(resv[p]) \in Int
      <4>1. \A p \in Owners : resv[p] \in [Keys -> Reservation]
        BY DEF LedgerTypeOK
      <4>2. ASSUME NEW p \in Owners PROVE Holding(resv[p]) \in Int
        <5>1. IsFiniteSet(OnHold(resv[p])) /\ OnHold(resv[p]) \in SUBSET Keys
          BY DEF Conserved, FiniteHolds, OnHold
        <5>2. HoldAmounts(resv[p]) \in [Keys -> Int]
          BY <4>1 DEF HoldAmounts, Reservation
        <5> QED BY <5>1, <5>2, HoldingIsSum, SumOverRemove
      <4> QED BY <4>2 DEF LedgerTypeOK
    <3>3. \A p \in Owners : /\ balance'[p] = IF p = o THEN balance[o] + amount ELSE balance[p]
                            /\ grants'[p] = IF p = o THEN grants[o] + amount ELSE grants[p]
      BY <3>1 DEF LedgerTypeOK
    <3> QED BY <1>2, <3>2, <3>3 DEF Conserved, FiniteHolds
  <2> QED BY <2>1, <2>2
<1>3. ASSUME NEW o \in Owners, EnsureAccount(o) PROVE Conserved'
  BY <1>2, <1>3, WelcomeAssumption DEF EnsureAccount
<1>4. ASSUME NEW o \in Owners, NEW g \in GrantKeys, NEW a \in GrantSizes, RecordGrant(o, g, a)
      PROVE  Conserved'
  BY <1>2, <1>4, GrantSizesAssumption DEF RecordGrant
<1>5. ASSUME NEW o \in Owners, NEW k \in Keys, NEW a \in HoldSizes, Reserve(o, k, a)
      PROVE  Conserved'
  <2>1. CASE resv[o][k].status # "none"
    BY <1>1, <1>5, <2>1 DEF Reserve, ledgerVars
  <2>2. CASE resv[o][k].status = "none"
    <3> DEFINE r == [status |-> "reserved", held |-> a, charged |-> 0]
    <3>1. r \in Reservation /\ r.status = "reserved" /\ r.held = a /\ a \in Nat
      BY HoldSizesAssumption DEF Reservation
    <3>2. resv' = [resv EXCEPT ![o][k] = r] /\ UNCHANGED <<grants, spend>>
      BY <1>5, <2>2 DEF Reserve
    <3>3. balance' = [balance EXCEPT ![o] = @ + 0 - r.held - 0] /\ spend' = [spend EXCEPT ![o] = @ + 0]
      BY <1>5, <2>2, <3>1 DEF Reserve, LedgerTypeOK
    <3> HIDE DEF r
    <3> QED BY <2>2, <3>1, <3>2, <3>3, OneHoldConserves
  <2> QED BY <2>1, <2>2
<1>6. ASSUME NEW o \in Owners, NEW k \in Keys, NEW c \in Costs, Finalize(o, k, c)
      PROVE  Conserved'
  <2>1. CASE resv[o][k].status # "reserved"
    BY <1>1, <1>6, <2>1 DEF Finalize, ledgerVars
  <2>2. CASE resv[o][k].status = "reserved"
    <3> DEFINE r == [status |-> "finalized", held |-> resv[o][k].held, charged |-> Charge(o, k, c)]
    <3>1. r \in Reservation /\ r.status = "finalized" /\ Charge(o, k, c) \in Nat
      BY ChargeWithinHold DEF Reservation, LedgerTypeOK
    <3>2. /\ resv' = [resv EXCEPT ![o][k] = r] /\ UNCHANGED grants
          /\ spend' = [spend EXCEPT ![o] = @ + Charge(o, k, c)]
          /\ balance' = [balance EXCEPT ![o] = @ + resv[o][k].held - 0 - Charge(o, k, c)]
      <4>1. balance[o] + resv[o][k].held - 0 - Charge(o, k, c) = WithHold(o, k) - Charge(o, k, c)
        BY <3>1 DEF LedgerTypeOK, Reservation, WithHold
      <4> QED BY <1>6, <2>2, <4>1 DEF Finalize, SettleCharged
    <3> HIDE DEF r
    <3> QED BY <2>2, <3>1, <3>2, OneHoldConserves
  <2> QED BY <2>1, <2>2
<1>7. ASSUME NEW o \in Owners, NEW k \in Keys, Release(o, k)
      PROVE  Conserved'
  <2>1. CASE resv[o][k].status # "reserved"
    BY <1>1, <1>7, <2>1 DEF Release, ledgerVars
  <2>2. CASE resv[o][k].status = "reserved"
    <3> DEFINE r == [status |-> "released", held |-> resv[o][k].held, charged |-> 0]
    <3>1. r \in Reservation /\ r.status = "released"
      BY DEF Reservation, LedgerTypeOK
    <3>2. /\ resv' = [resv EXCEPT ![o][k] = r] /\ UNCHANGED grants
          /\ spend' = [spend EXCEPT ![o] = @ + 0]
          /\ balance' = [balance EXCEPT ![o] = @ + resv[o][k].held - 0 - 0]
      <4>1. balance[o] + resv[o][k].held - 0 - 0 = WithHold(o, k)
        BY DEF LedgerTypeOK, Reservation, WithHold
      <4> QED BY <1>7, <2>2, <4>1 DEF Release, SettleRefunded, LedgerTypeOK
    <3> HIDE DEF r
    <3> QED BY <2>2, <3>1, <3>2, OneHoldConserves
  <2> QED BY <2>1, <2>2
<1>8. CASE \/ \E o \in Owners, s \in {"active", "frozen"} : SetStatus(o, s)
           \/ UNCHANGED ledgerVars
  BY <1>1, <1>8 DEF SetStatus, ledgerVars
<1> QED BY <1>3, <1>4, <1>5, <1>6, <1>7, <1>8 DEF LedgerNext

\* After any sequence of transactions the ledger's rows tell of every reservation what
\* its row tells, no row is there twice, and what was granted is spendable, on hold or
\* spent: for any number of reservations, whatever their amounts.
THEOREM LedgerBooksAgree == LedgerSpec => []BooksAgree
<1>1. LedgerTypeOK /\ ReservationRows /\ Conserved => BooksAgree
  BY HeldIs DEF BooksAgree, Conserved
<1> QED BY <1>1, LedgerTypeInit, LedgerTypeStep, RowsInit, RowsStep, ConservedInit, ConservedStep, PTL
        DEF LedgerSpec

-----------------------------------------------------------------------------
(* The store implements the abstract prepaid account. *)

Holds == [o \in Owners |-> [k \in Keys |-> HoldOf(resv[o][k])]]

\* A transaction that changes one reservation changes the one abstract hold.
LEMMA OneHoldChanges ==
  ASSUME NEW o \in Owners, NEW k \in Keys, NEW r, LedgerTypeOK,
         resv' = [resv EXCEPT ![o][k] = r]
  PROVE  Holds' = [Holds EXCEPT ![o][k] = HoldOf(r)]
<1>1. ASSUME NEW p \in Owners, NEW q \in Keys
      PROVE  resv'[p][q] = IF p = o /\ q = k THEN r ELSE resv[p][q]
  BY DEF LedgerTypeOK
<1>2. Holds' = [p \in Owners |-> [q \in Keys |-> HoldOf(resv'[p][q])]]
  BY DEF Holds, HoldOf
<1>3. ASSUME NEW p \in Owners, NEW q \in Keys
      PROVE  Holds'[p][q] = [Holds EXCEPT ![o][k] = HoldOf(r)][p][q]
  BY <1>1, <1>2, <1>3 DEF Holds
<1>4. ASSUME NEW p \in Owners
      PROVE  Holds'[p] = [Holds EXCEPT ![o][k] = HoldOf(r)][p]
  BY <1>2, <1>3, <1>4 DEF Holds
<1> QED
  BY <1>2, <1>4 DEF Holds

\* A grant credits the account or leaves it alone.
LEMMA GrantIsCredit ==
  ASSUME NEW o \in Owners, NEW key, NEW amount \in GrantSizes \cup {Welcome},
         Grant(o, key, amount), UNCHANGED <<spend, resv>>
  PROVE  [Prepaid!PNext]_(Prepaid!pvars)
<1>1. Holds' = Holds
  BY DEF Holds, HoldOf
<1>2. CASE UNCHANGED balance
  BY <1>1, <1>2 DEF Prepaid!pvars, Holds
<1>3. CASE balance' = [balance EXCEPT ![o] = @ + amount]
  <2>1. Prepaid!Credit(o, amount)
    BY <1>1, <1>3 DEF Prepaid!Credit, Holds
  <2> QED
    BY <2>1 DEF Prepaid!PNext
<1> QED
  BY <1>2, <1>3 DEF Grant

LEMMA ReserveIsHold ==
  ASSUME NEW o \in Owners, NEW k \in Keys, NEW a \in HoldSizes, LedgerTypeOK,
         Reserve(o, k, a), resv[o][k].status = "none"
  PROVE  Prepaid!Hold(o, k, a)
<1> DEFINE r == [status |-> "reserved", held |-> a, charged |-> 0]
<1>1. /\ balance' = [balance EXCEPT ![o] = @ - a]
      /\ resv' = [resv EXCEPT ![o][k] = r]
      /\ UNCHANGED spend /\ a <= balance[o]
  BY DEF Reserve, Reservable
<1>2. HoldOf(r) = [state |-> "held", amount |-> a]
  BY DEF HoldOf
<1>3. Holds[o][k].state = "free"
  BY DEF Holds, HoldOf
<1>4. Holds' = [Holds EXCEPT ![o][k] = [state |-> "held", amount |-> a]]
  BY <1>1, <1>2, OneHoldChanges
<1> QED
  BY <1>1, <1>3, <1>4 DEF Prepaid!Hold, Holds

\* Either settlement: r is the row it leaves.
LEMMA SettlementIsSettle ==
  ASSUME NEW o \in Owners, NEW k \in Keys, NEW r \in Reservation, LedgerTypeOK,
         resv[o][k].status = "reserved", resv[o][k].held = r.held,
         r.status \in Settled, r.charged <= r.held,
         balance' = [balance EXCEPT ![o] = @ + r.held - r.charged],
         spend' = [spend EXCEPT ![o] = @ + r.charged],
         resv' = [resv EXCEPT ![o][k] = r]
  PROVE  Prepaid!PNext
<1>1. HoldOf(r) = [state |-> "settled", amount |-> r.held]
  BY DEF HoldOf, Settled
<1>2. Holds[o][k] = [state |-> "held", amount |-> r.held]
  BY DEF Holds, HoldOf
<1>3. Holds' = [Holds EXCEPT ![o][k] = HoldOf(r)]
  BY OneHoldChanges
<1>4. Holds' = [Holds EXCEPT ![o][k].state = "settled"]
  <2>1. HoldOf(r) = [Holds[o][k] EXCEPT !.state = "settled"]
    BY <1>1, <1>2
  <2> QED
    BY <1>3, <2>1
<1>5. Holds[o][k].state = "held" /\ Holds[o][k].amount = r.held
  BY <1>2
<1>6. r.charged \in 0 .. Holds[o][k].amount
  BY <1>5 DEF Reservation
<1>7. balance' = [balance EXCEPT ![o] = @ + Holds[o][k].amount - r.charged]
  BY <1>5
<1>8. Prepaid!Settle(o, k, r.charged)
  BY <1>4, <1>5, <1>7 DEF Prepaid!Settle, Holds
<1> QED
  BY <1>6, <1>8 DEF Prepaid!PNext, Holds

LEMMA PrepaidInit == LedgerInit => Prepaid!PInit
<1> SUFFICES ASSUME LedgerInit PROVE Prepaid!PInit
  OBVIOUS
<1>1. \A o \in Owners, k \in Keys : HoldOf(resv[o][k]) = Prepaid!NoHold
  BY DEF LedgerInit, Prepaid!NoHold, HoldOf, NoReservation
<1> QED
  BY <1>1 DEF LedgerInit, Prepaid!PInit

LEMMA PrepaidStep ==
  ASSUME LedgerTypeOK, [LedgerNext]_ledgerVars
  PROVE  [Prepaid!PNext]_(Prepaid!pvars)
<1>1. ASSUME UNCHANGED <<balance, spend, resv>> PROVE UNCHANGED Prepaid!pvars
  BY <1>1 DEF Prepaid!pvars, HoldOf
<1>2. ASSUME NEW o \in Owners, EnsureAccount(o) PROVE [Prepaid!PNext]_(Prepaid!pvars)
  BY <1>2, GrantIsCredit DEF EnsureAccount
<1>3. ASSUME NEW o \in Owners, NEW g \in GrantKeys, NEW a \in GrantSizes,
             RecordGrant(o, g, a)
      PROVE  [Prepaid!PNext]_(Prepaid!pvars)
  BY <1>3, GrantIsCredit DEF RecordGrant
<1>4. ASSUME NEW o \in Owners, NEW k \in Keys, NEW a \in HoldSizes, Reserve(o, k, a)
      PROVE  [Prepaid!PNext]_(Prepaid!pvars)
  <2>1. CASE resv[o][k].status = "none"
    BY <1>4, <2>1, ReserveIsHold DEF Prepaid!PNext
  <2>2. CASE resv[o][k].status # "none"
    BY <1>1, <1>4, <2>2 DEF Reserve, ledgerVars
  <2> QED
    BY <2>1, <2>2
<1>5. ASSUME NEW o \in Owners, NEW k \in Keys, NEW c \in Costs, Finalize(o, k, c)
      PROVE  [Prepaid!PNext]_(Prepaid!pvars)
  <2>1. CASE resv[o][k].status = "reserved"
    <3> DEFINE r == [status  |-> "finalized", held |-> resv[o][k].held,
                     charged |-> Charge(o, k, c)]
    <3>1. r \in Reservation /\ r.charged <= r.held
      BY ChargeWithinHold DEF Reservation, LedgerTypeOK
    <3>2. r.status \in Settled /\ resv[o][k].held = r.held
      BY DEF Settled
    <3>3. /\ balance[o] + r.held - r.charged = WithHold(o, k) - Charge(o, k, c)
          /\ spend[o] + r.charged = spend[o] + Charge(o, k, c)
      <4>1. r.held = resv[o][k].held /\ r.charged = Charge(o, k, c)
        OBVIOUS
      <4> HIDE DEF r
      <4>2. Charge(o, k, c) \in Nat
        BY ChargeWithinHold
      <4>3. balance[o] \in Nat /\ resv[o][k].held \in Nat
        BY DEF LedgerTypeOK, Reservation
      <4> QED
        BY <4>1, <4>2, <4>3 DEF WithHold
    <3>4. /\ balance' = [balance EXCEPT ![o] = WithHold(o, k) - Charge(o, k, c)]
          /\ spend' = [spend EXCEPT ![o] = @ + Charge(o, k, c)]
          /\ resv' = [resv EXCEPT ![o][k] = r]
      BY <1>5, <2>1 DEF Finalize, SettleCharged, LedgerTypeOK
    <3> HIDE DEF r
    <3>5. /\ balance' = [balance EXCEPT ![o] = @ + r.held - r.charged]
          /\ spend' = [spend EXCEPT ![o] = @ + r.charged]
      BY <3>3, <3>4
    <3> QED
      BY <2>1, <3>1, <3>2, <3>4, <3>5, SettlementIsSettle
  <2>2. CASE resv[o][k].status # "reserved"
    BY <1>1, <1>5, <2>2 DEF Finalize, ledgerVars
  <2> QED
    BY <2>1, <2>2
<1>6. ASSUME NEW o \in Owners, NEW k \in Keys, Release(o, k)
      PROVE  [Prepaid!PNext]_(Prepaid!pvars)
  <2>1. CASE resv[o][k].status = "reserved"
    <3> DEFINE r == [status |-> "released", held |-> resv[o][k].held, charged |-> 0]
    <3>1. r \in Reservation /\ r.charged <= r.held
      BY DEF Reservation, LedgerTypeOK
    <3>2. r.status \in Settled /\ resv[o][k].held = r.held
      BY DEF Settled
    <3>3. /\ balance[o] + r.held - r.charged = WithHold(o, k)
          /\ spend[o] + r.charged = spend[o]
      BY DEF LedgerTypeOK, Reservation, WithHold
    <3>4. /\ balance' = [balance EXCEPT ![o] = WithHold(o, k)]
          /\ spend' = [spend EXCEPT ![o] = spend[o]]
          /\ resv' = [resv EXCEPT ![o][k] = r]
      BY <1>6, <2>1 DEF Release, SettleRefunded, LedgerTypeOK
    <3> HIDE DEF r
    <3>5. /\ balance' = [balance EXCEPT ![o] = @ + r.held - r.charged]
          /\ spend' = [spend EXCEPT ![o] = @ + r.charged]
      BY <3>3, <3>4
    <3> QED
      BY <2>1, <3>1, <3>2, <3>4, <3>5, SettlementIsSettle
  <2>2. CASE resv[o][k].status # "reserved"
    BY <1>1, <1>6, <2>2 DEF Release, ledgerVars
  <2> QED
    BY <2>1, <2>2
<1>7. CASE \/ \E o \in Owners, s \in {"active", "frozen"} : SetStatus(o, s)
           \/ UNCHANGED ledgerVars
  BY <1>1, <1>7 DEF SetStatus, ledgerVars
<1> QED
  BY <1>2, <1>3, <1>4, <1>5, <1>6, <1>7 DEF LedgerNext

\* The store implements the prepaid account: every transaction of reservation.ts and
\* creditLedger.ts credits an account, takes a fresh hold that the account can pay,
\* settles a hold for no more than it took, or changes nothing a caller can see.
THEOREM LedgerImplementsPrepaid == LedgerSpec => ImplementsPrepaidCredit
BY PrepaidInit, PrepaidStep, LedgerTypeInit, LedgerTypeStep, PTL
DEF LedgerSpec, ImplementsPrepaidCredit, Prepaid!PSpec

-----------------------------------------------------------------------------
(* The gateway. *)

\* A call that is about to finalize has metered a cost the provider can have.
MeteredCost ==
  \A c \in Calls : pc[c] \in {"finalize", "finalizeTimeout"} => cost[c] \in Costs

\* Where a call stands tells what its key's reservation must be.
NeedsHold == {"execute", "finalize", "finalizeTimeout", "release"}

NeedsSettled == {"record", "reply", "recordTimeout", "recordError",
                 "ok", "timedOut", "refunded"}

PhaseOfHold ==
  \A c \in Calls :
    /\ pc[c] \in NeedsHold => resv[Owner(c)][Key(c)].status # "none"
    /\ pc[c] \in NeedsSettled => resv[Owner(c)][Key(c)].status \in Settled

\* The inductive invariant: UsageMeansSettled alone is not inductive, since
\* that a recorded event finds its hold settled depends on the calls' phases.
GatewayInv == GatewayTypeOK /\ MeteredCost /\ PhaseOfHold /\ UsageMeansSettled

-----------------------------------------------------------------------------
(* Every step is a transaction of the store or leaves the store alone.        *)

LEMMA RequestType ==
  ASSUME GatewayTypeOK, NEW c \in Calls
  PROVE  Owner(c) \in Owners /\ Key(c) \in Keys /\ req[c].est \in HoldSizes
BY DEF GatewayTypeOK, Request, Owner, Key

LEMMA GatewayStepIsLedgerStep ==
  GatewayTypeOK /\ MeteredCost /\ [Next]_vars => [LedgerNext]_ledgerVars
<1> SUFFICES ASSUME GatewayTypeOK, MeteredCost, [Next]_vars
             PROVE  [LedgerNext]_ledgerVars
  OBVIOUS
<1>1. CASE UNCHANGED vars
  BY <1>1 DEF vars, ledgerVars
<1>2. CASE Crash
  BY <1>2 DEF Crash
<1>3. ASSUME NEW c \in Calls, Submit(c) \/ DbError(c)
      PROVE  UNCHANGED ledgerVars
  BY <1>3 DEF Submit, SubmitComplete, SubmitEmbed, DbError
<1>4. ASSUME NEW c \in Calls, Advance(c) PROVE [LedgerNext]_ledgerVars
  <2>1. CASE Ensure(c)
    BY <2>1, RequestType DEF Ensure, LedgerNext
  <2>2. CASE ReserveHold(c)
    BY <2>2, RequestType DEF ReserveHold, LedgerNext
  <2>3. CASE FinalizeHold(c)
    <3>1. cost[c] \in Costs /\ Finalize(Owner(c), Key(c), cost[c])
      BY <2>3 DEF FinalizeHold, MeteredCost
    <3> QED BY <3>1, RequestType DEF LedgerNext
  <2>4. CASE ReleaseHold(c)
    BY <2>4, RequestType DEF ReleaseHold, LedgerNext
  <2>5. CASE \/ ReplayGuard(c) \/ ReserveRefused(c) \/ ProviderFails(c)
             \/ \E amount \in Costs : \/ ProviderAnswers(c, amount)
                                      \/ ProviderTimesOut(c, amount)
             \/ RecordAnswer(c) \/ RecordTimeout(c) \/ Reply(c) \/ RecordError(c)
    BY <2>5 DEF ReplayGuard, ReserveRefused, ProviderFails, ProviderAnswers,
                ProviderTimesOut, RecordAnswer, RecordTimeout, Reply, RecordError
  <2> QED BY <1>4, <2>1, <2>2, <2>3, <2>4, <2>5 DEF Advance
<1>5. ASSUME NEW o \in Owners,
             \/ Activate(o)
             \/ \E g \in GrantKeys, amount \in GrantSizes : AdminGrant(o, g, amount)
             \/ \E s \in {"active", "frozen"} : OperatorSetsStatus(o, s)
      PROVE  LedgerNext
  BY <1>5 DEF Activate, AdminGrant, OperatorSetsStatus, LedgerNext
<1> QED BY <1>1, <1>2, <1>3, <1>4, <1>5 DEF Next

-----------------------------------------------------------------------------
(* Types                                                                      *)

LEMMA GatewayTypeInit == Init => GatewayTypeOK /\ MeteredCost
<1> SUFFICES ASSUME Init PROVE GatewayTypeOK /\ MeteredCost
  OBVIOUS
<1>1. LedgerTypeOK
  BY LedgerTypeInit DEF Init
<1> QED BY <1>1, FaultBoundsAssumption
        DEF Init, GatewayTypeOK, MeteredCost, NoEvent, UsageEvent, InFlight, Ended

LEMMA RecordUsageType ==
  ASSUME NEW o \in Owners, NEW k \in Keys, NEW how \in {"ok", "timeout", "error"},
         NEW debit \in Nat, GatewayTypeOK, RecordUsage(o, k, how, debit)
  PROVE  usage' \in [Owners -> [Keys -> UsageEvent]]
<1>1. [status |-> how, debit |-> debit] \in UsageEvent
  BY DEF UsageEvent
<1>2. (IF usage[o][k] = NoEvent THEN [status |-> how, debit |-> debit] ELSE usage[o][k])
        \in UsageEvent
  BY <1>1 DEF GatewayTypeOK
<1> QED BY <1>2 DEF RecordUsage, GatewayTypeOK

LEMMA GatewayTypeStep ==
  GatewayTypeOK /\ MeteredCost /\ [Next]_vars => GatewayTypeOK' /\ MeteredCost'
<1> SUFFICES ASSUME GatewayTypeOK, MeteredCost, [Next]_vars
             PROVE  GatewayTypeOK' /\ MeteredCost'
  OBVIOUS
<1>1. LedgerTypeOK'
  BY GatewayStepIsLedgerStep, LedgerTypeStep DEF GatewayTypeOK
<1>2. CASE UNCHANGED vars
  BY <1>1, <1>2 DEF vars, GatewayTypeOK, MeteredCost
<1>3. CASE Crash
  BY <1>1, <1>3, FaultBoundsAssumption DEF Crash, GatewayTypeOK, MeteredCost
<1>4. ASSUME NEW c \in Calls, Submit(c) PROVE GatewayTypeOK' /\ MeteredCost'
  <2>1. PICK o \in Owners, k \in Keys, est \in HoldSizes, where \in {"replayGuard", "ensure"} :
          /\ req' = [req EXCEPT ![c] = [owner |-> o, key |-> k, est |-> est]]
          /\ Goto(c, where)
          /\ UNCHANGED <<cost, usage, faultVars>>
    BY <1>4 DEF Submit, SubmitComplete, SubmitEmbed
  <2>2. [owner |-> o, key |-> k, est |-> est] \in Request
    BY DEF Request
  <2>3. req' \in [Calls -> Request]
    BY <2>1, <2>2 DEF GatewayTypeOK
  <2>4. pc' \in [Calls -> {"idle"} \cup InFlight \cup Ended]
    BY <2>1 DEF Goto, GatewayTypeOK, InFlight, Entry
  <2>5. MeteredCost'
    BY <2>1 DEF Goto, GatewayTypeOK, MeteredCost
  <2> QED BY <1>1, <2>1, <2>3, <2>4, <2>5 DEF GatewayTypeOK, faultVars
<1>5. ASSUME NEW c \in Calls, DbError(c) PROVE GatewayTypeOK' /\ MeteredCost'
  BY <1>1, <1>5, FaultBoundsAssumption
     DEF DbError, Goto, GatewayTypeOK, MeteredCost, InFlight, OnError, Ended
<1>6. ASSUME NEW c \in Calls, Advance(c) PROVE GatewayTypeOK' /\ MeteredCost'
  <2> USE <1>1 DEF GatewayTypeOK, MeteredCost, Goto, faultVars,
                   InFlight, Entry, InTry, OnTimeout, OnError, Ended
  <2>1. CASE ReplayGuard(c) \/ Ensure(c) \/ ReserveHold(c) \/ ReserveRefused(c)
    BY <2>1 DEF ReplayGuard, Ensure, ReserveHold, ReserveRefused
  <2>2. CASE ProviderFails(c) \/ Reply(c) \/ ReleaseHold(c)
    BY <2>2 DEF ProviderFails, Reply, ReleaseHold
  <2>3. ASSUME NEW amount \in Costs,
               ProviderAnswers(c, amount) \/ ProviderTimesOut(c, amount)
        PROVE  GatewayTypeOK' /\ MeteredCost'
    BY <2>3, CostsAssumption DEF ProviderAnswers, ProviderTimesOut
  <2>4. CASE FinalizeHold(c)
    BY <2>4 DEF FinalizeHold
  <2>5. CASE RecordAnswer(c) \/ RecordTimeout(c) \/ RecordError(c)
    <3>1. usage' \in [Owners -> [Keys -> UsageEvent]]
      BY <2>5, RequestType, RecordUsageType
         DEF RecordAnswer, RecordTimeout, RecordError
    <3> QED BY <2>5, <3>1 DEF RecordAnswer, RecordTimeout, RecordError
  <2> QED BY <1>6, <2>1, <2>2, <2>3, <2>4, <2>5 DEF Advance
<1>7. ASSUME NEW o \in Owners,
             \/ Activate(o)
             \/ \E g \in GrantKeys, amount \in GrantSizes : AdminGrant(o, g, amount)
             \/ \E s \in {"active", "frozen"} : OperatorSetsStatus(o, s)
      PROVE  GatewayTypeOK' /\ MeteredCost'
  BY <1>1, <1>7 DEF Activate, AdminGrant, OperatorSetsStatus, callVars, faultVars,
                    GatewayTypeOK, MeteredCost
<1> QED BY <1>2, <1>3, <1>4, <1>5, <1>6, <1>7 DEF Next

\* The gateway's variables keep their types for any number of concurrent calls,
\* any keys, estimates and costs, and any faults.
THEOREM GatewayTypeCorrect == Spec => []GatewayTypeOK
<1> QED BY GatewayTypeInit, GatewayTypeStep, PTL DEF Spec

\* The gateway implements the store's specification: however its calls are
\* interleaved, fail, time out or crash, credit moves only by the store's
\* transactions.
THEOREM GatewayImplementsLedger == Spec => ImplementsCreditLedger
<1>1. Init => LedgerInit
  BY DEF Init
<1> QED BY <1>1, GatewayTypeInit, GatewayTypeStep, GatewayStepIsLedgerStep, PTL
        DEF Spec, LedgerSpec, ImplementsCreditLedger

-----------------------------------------------------------------------------
(* A usage event finds its hold settled.                                      *)

LEMMA GatewayInvInit == Init => GatewayInv
<1> SUFFICES ASSUME Init PROVE GatewayInv
  OBVIOUS
<1>1. PhaseOfHold /\ UsageMeansSettled
  BY DEF Init, PhaseOfHold, UsageMeansSettled, NeedsHold, NeedsSettled
<1> QED BY <1>1, GatewayTypeInit DEF GatewayInv

\* A settled hold stays settled and a hold once taken stays on record, so a call
\* whose phase did not change keeps what its phase says.
LEMMA HoldsPersist ==
  ASSUME GatewayInv, [Next]_vars
  PROVE  \A o \in Owners, k \in Keys :
           /\ resv[o][k].status \in Settled => resv'[o][k].status \in Settled
           /\ resv[o][k].status # "none" => resv'[o][k].status # "none"
BY GatewayStepIsLedgerStep, ReservationStep DEF GatewayInv, GatewayTypeOK

LEMMA PhaseStep == GatewayInv /\ [Next]_vars => PhaseOfHold'
<1> SUFFICES ASSUME GatewayInv, [Next]_vars, NEW d \in Calls
             PROVE  /\ pc'[d] \in NeedsHold => resv'[req'[d].owner][req'[d].key].status # "none"
                    /\ pc'[d] \in NeedsSettled => resv'[req'[d].owner][req'[d].key].status \in Settled
  BY DEF PhaseOfHold, Owner, Key
<1> DEFINE Held1 == pc'[d] \in NeedsHold => resv'[req'[d].owner][req'[d].key].status # "none"
           Settled1 == pc'[d] \in NeedsSettled => resv'[req'[d].owner][req'[d].key].status \in Settled
<1>1. /\ Owner(d) \in Owners /\ Key(d) \in Keys
      /\ pc \in [Calls -> {"idle"} \cup InFlight \cup Ended]
  BY RequestType DEF GatewayInv, GatewayTypeOK
<1>2. /\ resv[Owner(d)][Key(d)].status \in Settled => resv'[Owner(d)][Key(d)].status \in Settled
      /\ resv[Owner(d)][Key(d)].status # "none" => resv'[Owner(d)][Key(d)].status # "none"
  BY <1>1, HoldsPersist
<1>3. /\ pc[d] \in NeedsHold => resv[Owner(d)][Key(d)].status # "none"
      /\ pc[d] \in NeedsSettled => resv[Owner(d)][Key(d)].status \in Settled
  BY DEF GatewayInv, PhaseOfHold
<1>4. CASE pc'[d] = pc[d] /\ req'[d] = req[d]
  BY <1>2, <1>3, <1>4 DEF Owner, Key
<1>5. CASE pc'[d] \notin NeedsHold \cup NeedsSettled
  BY <1>5
<1>6. CASE /\ req'[d] = req[d]
           /\ \/ pc[d] \in NeedsHold \cup NeedsSettled /\ pc'[d] \in NeedsHold
              \/ pc[d] \in NeedsSettled /\ pc'[d] \in NeedsSettled
  <2>1. pc[d] \in NeedsHold \cup NeedsSettled => resv[Owner(d)][Key(d)].status # "none"
    BY <1>3 DEF Settled
  <2>2. pc'[d] \in NeedsHold => pc'[d] \notin NeedsSettled
    BY DEF NeedsHold, NeedsSettled
  <2>3. pc'[d] \in NeedsSettled => pc'[d] \notin NeedsHold
    BY DEF NeedsHold, NeedsSettled
  <2> QED BY <1>2, <1>3, <1>6, <2>1, <2>2, <2>3 DEF Owner, Key
<1>7. CASE ReserveHold(d)
  <2>1. pc'[d] = "execute" /\ req'[d] = req[d]
    BY <1>1, <1>7 DEF ReserveHold, Goto
  <2>2. resv'[Owner(d)][Key(d)].status # "none"
    <3>1. CASE resv[Owner(d)][Key(d)].status # "none"
      BY <1>2, <3>1
    <3>2. CASE resv[Owner(d)][Key(d)].status = "none"
      BY <1>1, <1>7, <3>2 DEF ReserveHold, Reserve, GatewayInv, GatewayTypeOK, LedgerTypeOK
    <3> QED BY <3>1, <3>2
  <2> QED BY <2>1, <2>2 DEF NeedsSettled, Owner, Key
<1>8. CASE FinalizeHold(d)
  <2>1. pc'[d] \in {"record", "recordTimeout"} /\ req'[d] = req[d]
    BY <1>1, <1>8 DEF FinalizeHold, Goto
  <2>2. pc[d] \in NeedsHold
    BY <1>8 DEF FinalizeHold, NeedsHold
  <2>3. resv'[Owner(d)][Key(d)].status \in Settled
    <3>1. CASE resv[Owner(d)][Key(d)].status \in Settled
      BY <1>2, <3>1
    <3>2. CASE resv[Owner(d)][Key(d)].status = "reserved"
      <4>1. SettleCharged(Owner(d), Key(d), cost[d])
        BY <1>8, <3>2 DEF FinalizeHold, Finalize
      <4>2. resv' = [resv EXCEPT ![Owner(d)][Key(d)] =
                       [status |-> "finalized", held |-> resv[Owner(d)][Key(d)].held,
                        charged |-> Charge(Owner(d), Key(d), cost[d])]]
        BY <4>1 DEF SettleCharged
      <4> QED BY <1>1, <4>2 DEF GatewayInv, GatewayTypeOK, LedgerTypeOK, Settled
    <3>3. resv[Owner(d)][Key(d)].status \in {"none", "reserved"} \cup Settled
      BY <1>1 DEF GatewayInv, GatewayTypeOK, LedgerTypeOK, Reservation, Settled
    <3> QED BY <1>3, <2>2, <3>1, <3>2, <3>3
  <2> QED BY <2>1, <2>3 DEF NeedsHold, Owner, Key
<1>9. CASE ReleaseHold(d)
  <2>1. pc'[d] \in {"refunded", "recordError"} /\ req'[d] = req[d]
    BY <1>1, <1>9 DEF ReleaseHold, Goto
  <2>2. pc[d] \in NeedsHold
    BY <1>9 DEF ReleaseHold, NeedsHold
  <2>3. resv'[Owner(d)][Key(d)].status \in Settled
    <3>1. CASE resv[Owner(d)][Key(d)].status \in Settled
      BY <1>2, <3>1
    <3>2. CASE resv[Owner(d)][Key(d)].status = "reserved"
      <4>1. SettleRefunded(Owner(d), Key(d))
        BY <1>9, <3>2 DEF ReleaseHold, Release
      <4>2. resv' = [resv EXCEPT ![Owner(d)][Key(d)] =
                       [status |-> "released", held |-> resv[Owner(d)][Key(d)].held,
                        charged |-> 0]]
        BY <4>1 DEF SettleRefunded
      <4> QED BY <1>1, <4>2 DEF GatewayInv, GatewayTypeOK, LedgerTypeOK, Settled
    <3>3. resv[Owner(d)][Key(d)].status \in {"none", "reserved"} \cup Settled
      BY <1>1 DEF GatewayInv, GatewayTypeOK, LedgerTypeOK, Reservation, Settled
    <3> QED BY <1>3, <2>2, <3>1, <3>2, <3>3
  <2> QED BY <2>1, <2>3 DEF NeedsHold, Owner, Key
<1>10. CASE UNCHANGED vars
  BY <1>4, <1>10 DEF vars
<1>11. CASE Crash
  BY <1>1, <1>4, <1>5, <1>11 DEF Crash, NeedsHold, NeedsSettled
<1>12. ASSUME NEW o \in Owners,
              \/ Activate(o)
              \/ \E g \in GrantKeys, amount \in GrantSizes : AdminGrant(o, g, amount)
              \/ \E s \in {"active", "frozen"} : OperatorSetsStatus(o, s)
       PROVE  Held1 /\ Settled1
  BY <1>4, <1>12 DEF Activate, AdminGrant, OperatorSetsStatus, callVars
<1>13. ASSUME NEW c \in Calls, c # d, Submit(c) \/ Advance(c) \/ DbError(c)
       PROVE  Held1 /\ Settled1
  <2>1. pc'[d] = pc[d] /\ req'[d] = req[d]
    BY <1>1, <1>13
       DEF Submit, SubmitComplete, SubmitEmbed, DbError, Advance, ReplayGuard, Ensure,
           ReserveHold, ReserveRefused, ProviderFails, ProviderAnswers, ProviderTimesOut,
           FinalizeHold, RecordAnswer, RecordTimeout, Reply, ReleaseHold, RecordError,
           Goto, GatewayInv, GatewayTypeOK
  <2> QED BY <1>4, <2>1
<1>14. CASE Submit(d) \/ ReplayGuard(d) \/ Ensure(d) \/ ReserveRefused(d)
  <2>1. pc'[d] \in {"replayGuard", "ensure", "replayed", "rejected", "reserve"}
    BY <1>1, <1>14 DEF Submit, SubmitComplete, SubmitEmbed, ReplayGuard, Ensure,
                       ReserveRefused, Goto
  <2> QED BY <1>5, <2>1 DEF NeedsHold, NeedsSettled
<1>15. CASE DbError(d)
  <2>1. /\ req'[d] = req[d]
        /\ \/ pc'[d] = "failed"
           \/ pc'[d] = "release" /\ pc[d] \in InTry
    BY <1>1, <1>15 DEF DbError, Goto
  <2>2. InTry \subseteq NeedsHold \cup NeedsSettled
    BY DEF InTry, NeedsHold, NeedsSettled
  <2>3. "failed" \notin NeedsHold \cup NeedsSettled /\ "release" \in NeedsHold
    BY DEF NeedsHold, NeedsSettled
  <2> QED BY <1>5, <1>6, <2>1, <2>2, <2>3
<1>16. CASE \/ ProviderFails(d) \/ Reply(d)
            \/ \E amount \in Costs : ProviderAnswers(d, amount) \/ ProviderTimesOut(d, amount)
            \/ RecordAnswer(d) \/ RecordTimeout(d) \/ RecordError(d)
  <2>1. /\ req'[d] = req[d]
        /\ \/ pc[d] = "execute" /\ pc'[d] \in {"finalize", "finalizeTimeout", "release"}
           \/ /\ pc[d] \in {"record", "reply", "recordTimeout", "recordError"}
              /\ pc'[d] \in {"ok", "reply", "timedOut", "refunded"}
    BY <1>1, <1>16 DEF ProviderFails, Reply, ProviderAnswers, ProviderTimesOut,
                       RecordAnswer, RecordTimeout, RecordError, Goto
  <2> QED BY <1>6, <2>1 DEF NeedsHold, NeedsSettled
<1> QED BY <1>7, <1>8, <1>9, <1>10, <1>11, <1>12, <1>13, <1>14, <1>15, <1>16
        DEF Next, Advance

LEMMA UsageStep == GatewayInv /\ [Next]_vars => UsageMeansSettled'
<1> SUFFICES ASSUME GatewayInv, [Next]_vars, NEW o \in Owners, NEW k \in Keys,
                    usage'[o][k] # NoEvent
             PROVE  resv'[o][k].status \in Settled
  BY DEF UsageMeansSettled
<1>1. CASE usage'[o][k] = usage[o][k]
  BY <1>1, HoldsPersist DEF GatewayInv, UsageMeansSettled
<1>2. ASSUME NEW c \in Calls, RecordAnswer(c) \/ RecordTimeout(c) \/ RecordError(c)
      PROVE  resv'[o][k].status \in Settled
  <2>1. PICK event : usage' = [usage EXCEPT ![Owner(c)][Key(c)] = event]
    BY <1>2 DEF RecordAnswer, RecordTimeout, RecordError, RecordUsage
  <2>2. CASE o = Owner(c) /\ k = Key(c)
    <3>1. pc[c] \in NeedsSettled
      BY <1>2 DEF RecordAnswer, RecordTimeout, RecordError, NeedsSettled
    <3> QED BY <2>2, <3>1, HoldsPersist DEF GatewayInv, PhaseOfHold
  <2>3. CASE o # Owner(c) \/ k # Key(c)
    <3>1. usage'[o][k] = usage[o][k]
      BY <2>1, <2>3 DEF GatewayInv, GatewayTypeOK
    <3> QED BY <1>1, <3>1
  <2> QED BY <2>2, <2>3
<1>3. ASSUME NEW c \in Calls,
             \/ Submit(c) \/ DbError(c) \/ ReplayGuard(c) \/ Ensure(c)
             \/ ReserveHold(c) \/ ReserveRefused(c) \/ ProviderFails(c)
             \/ \E amount \in Costs : ProviderAnswers(c, amount) \/ ProviderTimesOut(c, amount)
             \/ FinalizeHold(c) \/ Reply(c) \/ ReleaseHold(c)
      PROVE  usage' = usage
  BY <1>3 DEF Submit, SubmitComplete, SubmitEmbed, DbError, ReplayGuard, Ensure,
              ReserveHold, ReserveRefused, ProviderFails, ProviderAnswers,
              ProviderTimesOut, FinalizeHold, Reply, ReleaseHold
<1>4. ASSUME NEW p \in Owners,
             \/ Activate(p)
             \/ \E g \in GrantKeys, amount \in GrantSizes : AdminGrant(p, g, amount)
             \/ \E s \in {"active", "frozen"} : OperatorSetsStatus(p, s)
      PROVE  usage' = usage
  BY <1>4 DEF Activate, AdminGrant, OperatorSetsStatus
<1>5. CASE Crash \/ UNCHANGED vars
  BY <1>1, <1>5 DEF Crash, vars
<1> QED BY <1>1, <1>2, <1>3, <1>4, <1>5 DEF Next, Advance

\* A usage event is recorded only for a key whose hold is settled, so the replay
\* guard never shuts out the call that would still have to settle it; and a call
\* that came back left nothing on hold.
THEOREM EventsFollowSettlement == Spec => []SettledBeforeTold
<1>1. GatewayInv /\ [Next]_vars => GatewayInv'
  BY GatewayTypeStep, PhaseStep, UsageStep DEF GatewayInv
<1>2. GatewayInv => SettledBeforeTold
  BY DEF GatewayInv, PhaseOfHold, SettledBeforeTold, ReturnedMeansSettled, NeedsSettled
<1> QED BY <1>1, <1>2, GatewayInvInit, PTL DEF Spec

\* So does what the gateway's calls, operators and admins do to the store, whatever
\* fails: the three accounts of the money agree in every reachable state.
THEOREM GatewayBooksAgree == Spec => []BooksAgree
BY GatewayImplementsLedger, LedgerBooksAgree, PTL DEF ImplementsCreditLedger
=============================================================================
