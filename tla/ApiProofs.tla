----------------------------- MODULE ApiProofs -----------------------------
(***************************************************************************)
(* The pool of Amm.tla is backed whatever any account does, and no step    *)
(* dilutes a share; the vault of StockVault.tla never trades at a loss at  *)
(* the price of the moment.  Each function moves reserves, shares and      *)
(* supplies by an integer division; the first lemmas state what that       *)
(* rounding leaves, in the products the invariants are about.              *)
(*                                                                         *)
(* The requests of AgentExec.tla then: each await is one function of a     *)
(* contract, so the same holds of everything they do; what bridges release *)
(* is backed by what they lock; and a request with no other beside it      *)
(* answers with what its trade paid.                                       *)
(*                                                                         *)
(* Evidence.tla: what a request has read of a run is in its row, rows are  *)
(* only added, and an attempt that a request waits for is the only one.    *)
(*                                                                         *)
(* PaperSessions.tla, in the bounds of MCAgentExec.tla: positions are      *)
(* fills through every overlap; in turn, the count of fresh ticks is never *)
(* more than the fresh ticks since the data last went stale.               *)
(***************************************************************************)
EXTENDS MCAgentExec, FoldFacts, TLAPS

LEMMA DivBounds ==
    ASSUME NEW x \in Nat, NEW d \in Nat \ {0}
    PROVE  x \div d \in Nat /\ (x \div d) * d <= x
  BY SMT

LEMMA MulMono ==
    ASSUME NEW a \in Nat, NEW b \in Nat, NEW c \in Nat, NEW d \in Nat, a <= b, c <= d
    PROVE  a * c <= b * d
  <1>1. a * c <= b * c
    BY SMT
  <1>2. b * c <= b * d
    BY SMT
  <1> QED
    BY <1>1, <1>2, SMT

(* Four factors, two by two. *)
LEMMA Regroup ==
    ASSUME NEW a \in Int, NEW b \in Int, NEW c \in Int, NEW d \in Int
    PROVE  (a * c) * (b * d) = a * b * c * d
  BY SMT

LEMMA CancelRight ==
    ASSUME NEW a \in Nat, NEW b \in Nat, NEW c \in Nat \ {0}, a * c >= b * c
    PROVE  a >= b
  <1>1. SUFFICES ASSUME a < b PROVE FALSE
    BY SMT
  <1>2. (a + 1) * c <= b * c
    BY <1>1, MulMono, SMT
  <1>3. (a + 1) * c = a * c + c
    BY SMT
  <1> QED
    BY <1>2, <1>3, SMT

(* A withdrawal pays out no more than its part of a reserve. *)
LEMMA WithdrawnPart ==
    ASSUME NEW r \in Nat, NEW t \in Nat \ {0}, NEW s \in Nat, s <= t,
           NEW out \in Nat, out = (s * r) \div t
    PROVE  out <= r /\ (r - out) * t >= r * (t - s)
  <1>1. s * r \in Nat
    BY SMT
  <1>2. out * t <= s * r
    BY <1>1, DivBounds
  <1>3. s * r <= r * t
    BY MulMono, SMT
  <1>4. out <= r
    BY <1>2, <1>3, CancelRight, SMT
  <1>5. (r - out) * t = r * t - out * t /\ r * (t - s) = r * t - s * r
    BY SMT
  <1>6. out * t \in Nat /\ r * t \in Nat
    BY SMT
  <1> QED
    BY <1>1, <1>2, <1>4, <1>5, <1>6, SMT

(* A deposit buys no more shares than its part of a reserve. *)
LEMMA DepositedPart ==
    ASSUME NEW r \in Nat \ {0}, NEW t \in Nat, NEW a \in Nat, NEW m \in Nat,
           m <= (a * t) \div r
    PROVE  (r + a) * t >= r * (t + m)
  <1>1. a * t \in Nat
    BY SMT
  <1>2. ((a * t) \div r) \in Nat /\ ((a * t) \div r) * r <= a * t
    BY <1>1, DivBounds
  <1>3. m * r <= ((a * t) \div r) * r
    BY <1>2, MulMono, SMT
  <1>4. (r + a) * t = r * t + a * t /\ r * (t + m) = r * t + m * r
    BY SMT
  <1>5. m * r \in Nat /\ r * t \in Nat /\ ((a * t) \div r) * r \in Nat
    BY <1>2, SMT
  <1> QED
    BY <1>1, <1>2, <1>3, <1>4, <1>5, SMT

(* Two reserves that each keep their part keep the product. *)
LEMMA ProductKept ==
    ASSUME NEW r0 \in Nat, NEW r1 \in Nat, NEW t \in Nat,
           NEW q0 \in Nat, NEW q1 \in Nat, NEW u \in Nat,
           q0 * t >= r0 * u, q1 * t >= r1 * u
    PROVE  q0 * q1 * t * t >= r0 * r1 * u * u
  <1>1. q0 * t \in Nat /\ r0 * u \in Nat /\ q1 * t \in Nat /\ r1 * u \in Nat
    BY SMT
  <1>2. (r0 * u) * (r1 * u) <= (q0 * t) * (q1 * t)
    BY <1>1, MulMono
  <1>3. (r0 * u) * (r1 * u) = r0 * r1 * u * u /\ (q0 * t) * (q1 * t) = q0 * q1 * t * t
    BY Regroup
  <1> QED
    BY <1>2, <1>3, SMT

(* A swap leaves the product of the reserves at least where it was. *)
LEMMA SwapKeepsProduct ==
    ASSUME NEW rin \in Nat, NEW rout \in Nat, NEW fee \in Nat, NEW amount \in Nat,
           fee <= amount, rin + fee > 0,
           NEW out \in Nat, out = (fee * rout) \div (rin + fee), out <= rout
    PROVE  (rin + amount) * (rout - out) >= rin * rout
  <1>1. fee * rout \in Nat /\ rin + fee \in Nat \ {0}
    BY SMT
  <1>2. out * (rin + fee) <= fee * rout
    BY <1>1, DivBounds
  <1>3. (rin + fee) * (rout - out) <= (rin + amount) * (rout - out)
    BY MulMono, SMT
  <1>4. (rin + fee) * (rout - out) = rin * rout + fee * rout - out * (rin + fee)
    BY SMT
  <1>5. rin * rout \in Nat /\ out * (rin + fee) \in Nat /\ (rin + amount) * (rout - out) \in Int
    BY SMT
  <1> QED
    BY <1>1, <1>2, <1>3, <1>4, <1>5, SMT

-----------------------------------------------------------------------------
AmmInv == AmmTypeOK /\ PoolBacked

(* What NoDilution asks of one step. *)
Undiluted == totalShares > 0 /\ totalShares' > 0 =>
               reserve'[0] * reserve'[1] * totalShares * totalShares
                 >= reserve[0] * reserve[1] * totalShares' * totalShares'

USE DEF Tokens

LEMMA MovedType ==
    ASSUME AmmTypeOK, NEW t \in Tokens, NEW from \in Holders, NEW to \in Holders,
           from # to, NEW amount \in Nat, bal[t][from] >= amount
    PROVE  /\ Moved(t, from, to, amount) \in [Holders -> Nat]
           /\ Moved(t, from, to, amount)[from] = bal[t][from] - amount
           /\ Moved(t, from, to, amount)[to] = bal[t][to] + amount
           /\ \A h \in Holders \ {from, to} : Moved(t, from, to, amount)[h] = bal[t][h]
  <1>1. bal[t] \in [Holders -> Nat]
    BY DEF AmmTypeOK
  <1> QED
    BY <1>1, SMT DEF Moved

(* With shares outstanding neither reserve is zero. *)
LEMMA ReservesPositive ==
    ASSUME AmmInv, totalShares > 0
    PROVE  /\ reserve[0] \in Nat \ {0} /\ reserve[1] \in Nat \ {0}
           /\ totalShares \in Nat \ {0}
  <1>1. reserve[0] \in Nat /\ reserve[1] \in Nat /\ totalShares \in Nat \ {0}
    BY SMT DEF AmmInv, AmmTypeOK
  <1>2. totalShares * totalShares > 0
    BY <1>1, MulMono, SMT
  <1>3. reserve[0] * reserve[1] > 0
    BY <1>1, <1>2, SMT DEF AmmInv, PoolBacked
  <1> QED
    BY <1>1, <1>3, SMT

(* Reserves that keep their product per squared share keep covering the shares. *)
LEMMA CoverKept ==
    ASSUME NEW p \in Nat, NEW q \in Nat, NEW t \in Nat \ {0}, NEW u \in Nat,
           p >= t * t, q * t * t >= p * u * u
    PROVE  q >= u * u
  <1>1. t * t \in Nat \ {0} /\ u * u \in Nat
    BY SMT
  <1>2. (t * t) * (u * u) <= p * (u * u)
    BY <1>1, MulMono
  <1>3. q * t * t = q * (t * t) /\ p * u * u = p * (u * u) /\ (t * t) * (u * u) = (u * u) * (t * t)
    BY SMT
  <1>4. (u * u) * (t * t) <= q * (t * t)
    BY <1>1, <1>2, <1>3, SMT
  <1> QED
    BY <1>1, <1>4, CancelRight

LEMMA FeeTaken ==
    ASSUME AmmAssumption, NEW amount \in Nat
    PROVE  AfterFee(amount) \in Nat /\ AfterFee(amount) <= amount
  <1>1. FeeBps \in 0 .. 10000
    BY DEF AmmAssumption
  <1>2. amount * (10000 - FeeBps) \in Nat
    BY <1>1, SMT
  <1> DEFINE x == amount * (10000 - FeeBps)
  <1>3. x \div 10000 \in Nat /\ (x \div 10000) * 10000 <= x
    <2> HIDE DEF x
    <2>1. 10000 \in Nat \ {0} /\ x \in Nat
      BY <1>2, SMT DEF x
    <2> QED
      BY <2>1, DivBounds
  <1>4. x <= amount * 10000
    <2>1. 10000 - FeeBps \in Nat /\ 10000 - FeeBps <= 10000
      BY <1>1, SMT
    <2> QED
      BY <2>1, MulMono, SMT
  <1>5. x \div 10000 <= amount
    <2>1. x \in Nat
      BY <1>2
    <2> DEFINE q == x \div 10000
    <2>2. q \in Nat /\ q * 10000 <= amount * 10000
      <3>1. q * 10000 \in Nat /\ amount * 10000 \in Nat
        BY <1>3, SMT
      <3> HIDE DEF q
      <3> HIDE DEF x
      <3>2. q \in Nat /\ q * 10000 <= x
        BY <1>3 DEF q
      <3> QED
        BY <1>4, <2>1, <3>1, <3>2, SMT
    <2> HIDE DEF q
    <2>3. q <= amount
      BY <2>2, SMT
    <2> QED
      BY <2>3 DEF q
  <1> QED
    BY <1>3, <1>5 DEF AfterFee

-----------------------------------------------------------------------------
(* The tokens' own functions: no account but an owned one is charged. *)
LEMMA TokenSteps ==
    ASSUME AccountsAssumption, AmmAssumption, AmmInv, NEW u \in Users, NEW t \in Tokens, NEW a \in Nat,
           Faucet(t, u, a) \/ Approve(t, u, a) \/ Transfer(t, u, Sink, a)
    PROVE  AmmInv' /\ Undiluted
  <1> USE DEF AmmInv
  <1>0. u \in Holders /\ Sink \in Holders /\ Pool \in Holders /\ u # Pool /\ u # Sink /\ Sink # Pool
    BY DEF Holders, AccountsAssumption, AmmAssumption
  <1>1. UNCHANGED <<reserve, shares, totalShares>>
    BY DEF Faucet, Approve, Transfer
  <1>2. AmmTypeOK' /\ \A i \in Tokens : bal'[i][Pool] = bal[i][Pool]
    <2>0. AmmTypeOK' <=> /\ bal' \in [Tokens -> [Holders -> Nat]]
                         /\ allowance' \in [Tokens -> [Users -> Nat]]
      BY <1>1 DEF AmmTypeOK
    <2>a. bal \in [Tokens -> [Holders -> Nat]] /\ allowance \in [Tokens -> [Users -> Nat]]
      BY DEF AmmTypeOK
    <2>b. AmmTypeOK
      OBVIOUS
    <2> HIDE DEF AmmInv
    <2>1. CASE Faucet(t, u, a)
      <3>1. bal' = [bal EXCEPT ![t][u] = @ + a] /\ allowance' = allowance
        BY <2>1 DEF Faucet
      <3>2. bal' \in [Tokens -> [Holders -> Nat]]
        <4>1. [bal[t] EXCEPT ![u] = @ + a] \in [Holders -> Nat]
          BY <1>0, <2>a
        <4>2. bal' = [bal EXCEPT ![t] = [bal[t] EXCEPT ![u] = @ + a]]
          BY <3>1
        <4> QED BY <2>a, <4>1, <4>2
      <3>3. \A i \in Tokens : bal'[i][Pool] = bal[i][Pool]
        BY <1>0, <2>a, <3>1
      <3> QED
        BY <2>0, <2>a, <3>1, <3>2, <3>3
    <2>2. CASE Approve(t, u, a)
      <3>1. allowance' = [allowance EXCEPT ![t][u] = a] /\ bal' = bal
        BY <2>2 DEF Approve
      <3>2. allowance' \in [Tokens -> [Users -> Nat]]
        <4>1. [allowance[t] EXCEPT ![u] = a] \in [Users -> Nat]
          BY <2>a
        <4>2. allowance' = [allowance EXCEPT ![t] = [allowance[t] EXCEPT ![u] = a]]
          BY <3>1
        <4> QED BY <2>a, <4>1, <4>2
      <3> QED
        BY <2>0, <2>a, <3>1, <3>2
    <2>3. CASE Transfer(t, u, Sink, a)
      <3> DEFINE moved == Moved(t, u, Sink, a)
      <3>0. bal[t][u] >= a
        BY <2>3 DEF Transfer
      <3>1. moved \in [Holders -> Nat] /\ moved[Pool] = bal[t][Pool]
        <4>1. Pool \in Holders \ {u, Sink}
          BY <1>0
        <4>2. /\ moved \in [Holders -> Nat]
              /\ \A h \in Holders \ {u, Sink} : moved[h] = bal[t][h]
          BY <1>0, <2>b, <3>0, MovedType, SMTT(20)
        <4> QED
          BY <4>1, <4>2
      <3>2. bal' = [bal EXCEPT ![t] = moved] /\ allowance' = allowance
        BY <2>3 DEF Transfer
      <3> HIDE DEF moved
      <3> QED
        BY <2>0, <2>a, <3>1, <3>2
    <2> QED
      BY <2>1, <2>2, <2>3
  <1>3. PoolBacked'
    BY <1>1, <1>2, SMT DEF PoolBacked, AmmTypeOK
  <1>4. Undiluted
    <2>1. reserve[0] * reserve[1] * totalShares * totalShares \in Int
      BY SMT DEF AmmTypeOK
    <2> QED
      BY <1>1, <2>1, SMT DEF Undiluted
  <1> QED
    BY <1>2, <1>3, <1>4

(* A step of the pool, from what it does to the reserves and the shares. *)
LEMMA StepKeeps ==
    ASSUME AmmInv, AmmTypeOK', totalShares > 0,
           reserve'[0] * totalShares >= reserve[0] * totalShares',
           reserve'[1] * totalShares >= reserve[1] * totalShares'
    PROVE  Undiluted /\ reserve'[0] * reserve'[1] >= totalShares' * totalShares'
  <1>1. /\ reserve[0] \in Nat /\ reserve[1] \in Nat /\ totalShares \in Nat \ {0}
        /\ reserve'[0] \in Nat /\ reserve'[1] \in Nat /\ totalShares' \in Nat
    BY ReservesPositive, SMT DEF AmmTypeOK
  <1>2. reserve'[0] * reserve'[1] * totalShares * totalShares
          >= reserve[0] * reserve[1] * totalShares' * totalShares'
    BY <1>1, ProductKept
  <1>3. reserve[0] * reserve[1] >= totalShares * totalShares
    BY DEF AmmInv, PoolBacked
  <1>4. reserve[0] * reserve[1] \in Nat /\ reserve'[0] * reserve'[1] \in Nat
    BY <1>1, SMT
  <1>5. reserve'[0] * reserve'[1] >= totalShares' * totalShares'
    BY <1>1, <1>2, <1>3, <1>4, CoverKept
  <1> QED
    BY <1>2, <1>5 DEF Undiluted

LEMMA ProvideType ==
    ASSUME AccountsAssumption, AmmAssumption, AmmInv, NEW u \in Users, NEW a0 \in Nat, NEW a1 \in Nat,
           NEW m \in Nat, Provide(u, a0, a1, m)
    PROVE  AmmTypeOK' /\ \A t \in Tokens : reserve'[t] <= bal'[t][Pool]
  <1> DEFINE amount(t) == IF t = 0 THEN a0 ELSE a1
             moved(t) == Moved(t, u, Pool, amount(t))
  <1>1. u \in Holders /\ Pool \in Holders /\ u # Pool
    BY DEF Holders, AccountsAssumption, AmmAssumption
  <1>2. \A t \in Tokens : amount(t) \in Nat /\ MayPull(t, u, amount(t))
    BY DEF Provide
  <1>3. \A t \in Tokens : moved(t) \in [Holders -> Nat] /\ moved(t)[Pool] = bal[t][Pool] + amount(t)
    <2> TAKE t \in Tokens
    <2>1. amount(t) \in Nat /\ bal[t][u] >= amount(t) /\ AmmTypeOK
      BY <1>2 DEF MayPull, AmmInv
    <2> HIDE DEF amount
    <2> QED
      BY <1>1, <2>1, MovedType
  <1>4. /\ bal' = [t \in Tokens |-> moved(t)]
        /\ allowance' = [t \in Tokens |-> [allowance[t] EXCEPT ![u] = @ - amount(t)]]
        /\ reserve' = [t \in Tokens |-> reserve[t] + amount(t)]
        /\ shares' = [shares EXCEPT ![u] = @ + m]
        /\ totalShares' = totalShares + m
    BY DEF Provide
  <1>5. allowance' \in [Tokens -> [Users -> Nat]]
    <2>1. \A t \in Tokens : allowance[t] \in [Users -> Nat] /\ allowance[t][u] >= amount(t)
      BY <1>2 DEF MayPull, AmmInv, AmmTypeOK
    <2> HIDE DEF amount
    <2>2. \A t \in Tokens : [allowance[t] EXCEPT ![u] = @ - amount(t)] \in [Users -> Nat]
      BY <1>2, <2>1, SMT
    <2>3. allowance' = [t \in Tokens |-> [allowance[t] EXCEPT ![u] = @ - amount(t)]]
      BY <1>4
    <2> QED
      BY <2>2, <2>3
  <1>6. bal' \in [Tokens -> [Holders -> Nat]] /\ \A t \in Tokens : bal'[t][Pool] = bal[t][Pool] + amount(t)
    <2> HIDE DEF moved, amount
    <2> QED
      BY <1>3, <1>4
  <1>7. /\ reserve' \in [Tokens -> Nat] /\ shares' \in [Users -> Nat] /\ totalShares' \in Nat
        /\ \A t \in Tokens : reserve'[t] = reserve[t] + amount(t)
    <2> HIDE DEF amount
    <2> QED
      BY <1>2, <1>4, SMT DEF AmmInv, AmmTypeOK
  <1>8. \A t \in Tokens : bal[t][Pool] \in Nat /\ reserve[t] \in Nat /\ reserve[t] <= bal[t][Pool]
    BY <1>1, SMT DEF AmmInv, AmmTypeOK, PoolBacked
  <1> QED
    <2> HIDE DEF amount
    <2> QED
      BY <1>2, <1>5, <1>6, <1>7, <1>8, SMT DEF AmmTypeOK

LEMMA AddLiquidityStep ==
    ASSUME AccountsAssumption, AmmAssumption, AmmInv, NEW u \in Users, NEW a0 \in Nat, NEW a1 \in Nat,
           AddLiquidity(u, a0, a1)
    PROVE  AmmInv' /\ Undiluted
  <1>1. CASE totalShares = 0
    <2>1. PICK root \in 1 .. a0 * a1 : IsSqrt(root, a0 * a1) /\ Provide(u, a0, a1, root)
      BY <1>1 DEF AddLiquidity
    <2>2. root \in Nat /\ a0 * a1 \in Nat
      BY SMT
    <2>3. AmmTypeOK' /\ \A t \in Tokens : reserve'[t] <= bal'[t][Pool]
      <3>1. Provide(u, a0, a1, root)
        BY <2>1
      <3> QED
        BY <2>2, <3>1, ProvideType
    <2>4. /\ reserve'[0] = reserve[0] + a0 /\ reserve'[1] = reserve[1] + a1
          /\ totalShares' = root
      BY <1>1, <2>1, <2>2, SMT DEF Provide, AmmInv, AmmTypeOK
    <2>5. a0 <= reserve'[0] /\ a1 <= reserve'[1] /\ reserve'[0] \in Nat /\ reserve'[1] \in Nat
      BY <2>4, SMT DEF AmmInv, AmmTypeOK
    <2>6. a0 * a1 <= reserve'[0] * reserve'[1]
      BY <2>5, MulMono
    <2>7. root * root <= a0 * a1
      BY <2>1 DEF IsSqrt
    <2>8. reserve'[0] * reserve'[1] >= totalShares' * totalShares'
      <3>1. root * root \in Int /\ reserve'[0] * reserve'[1] \in Int
        BY <2>2, <2>5, SMT
      <3> QED
        BY <2>2, <2>4, <2>6, <2>7, <3>1, SMT
    <2> QED
      BY <1>1, <2>3, <2>8 DEF AmmInv, PoolBacked, Undiluted
  <1>2. CASE totalShares # 0
    <2> DEFINE m0 == (a0 * totalShares) \div reserve[0]
               m1 == (a1 * totalShares) \div reserve[1]
               m  == Least(m0, m1)
    <2>1. /\ reserve[0] \in Nat \ {0} /\ reserve[1] \in Nat \ {0}
          /\ totalShares \in Nat \ {0} /\ totalShares > 0
      BY <1>2, ReservesPositive, SMT DEF AmmInv, AmmTypeOK
    <2>2. Provide(u, a0, a1, m)
      BY <1>2 DEF AddLiquidity
    <2>3. m0 \in Nat /\ m1 \in Nat
      <3>1. a0 * totalShares \in Nat /\ a1 * totalShares \in Nat
        BY <2>1, SMT
      <3> QED
        BY <2>1, <3>1, DivBounds
    <2>4. m \in Nat /\ m <= m0 /\ m <= m1
      <3> HIDE DEF m0, m1
      <3> QED
        BY <2>3, SMT DEF Least
    <2>5. AmmTypeOK' /\ \A t \in Tokens : reserve'[t] <= bal'[t][Pool]
      <3> HIDE DEF m
      <3> QED
        BY <2>2, <2>4, ProvideType
    <2>6. /\ reserve'[0] = reserve[0] + a0 /\ reserve'[1] = reserve[1] + a1
          /\ totalShares' = totalShares + m
      <3> HIDE DEF m
      <3> QED
        BY <2>2, SMT DEF Provide, AmmInv, AmmTypeOK
    <2>7. (reserve[0] + a0) * totalShares >= reserve[0] * (totalShares + m)
      <3> HIDE DEF m
      <3> QED
        BY <2>1, <2>4, DepositedPart
    <2>8. (reserve[1] + a1) * totalShares >= reserve[1] * (totalShares + m)
      <3> HIDE DEF m
      <3> QED
        BY <2>1, <2>4, DepositedPart
    <2>9. Undiluted /\ reserve'[0] * reserve'[1] >= totalShares' * totalShares'
      BY <2>1, <2>5, <2>6, <2>7, <2>8, StepKeeps
    <2> QED
      BY <2>5, <2>9 DEF AmmInv, PoolBacked
  <1> QED
    BY <1>1, <1>2

LEMMA RemoveLiquidityStep ==
    ASSUME AccountsAssumption, AmmAssumption, AmmInv, NEW u \in Users, NEW s \in Nat, RemoveLiquidity(u, s)
    PROVE  AmmInv' /\ Undiluted
  <1> DEFINE moved(t) == Moved(t, Pool, u, PaidOut(s, t))
  <1>1. u \in Holders /\ Pool \in Holders /\ u # Pool
    BY DEF Holders, AccountsAssumption, AmmAssumption
  <1>2. s \in Nat /\ s <= totalShares /\ totalShares > 0 /\ totalShares \in Nat \ {0} /\ s <= shares[u]
    BY SMT DEF RemoveLiquidity, AmmInv, AmmTypeOK
  <1>3. \A t \in Tokens : reserve[t] \in Nat /\ bal[t][Pool] \in Nat /\ reserve[t] <= bal[t][Pool]
    BY <1>1, SMT DEF AmmInv, AmmTypeOK, PoolBacked
  <1>4. \A t \in Tokens : /\ PaidOut(s, t) \in Nat /\ PaidOut(s, t) <= reserve[t]
                          /\ (reserve[t] - PaidOut(s, t)) * totalShares
                               >= reserve[t] * (totalShares - s)
    <2> TAKE t \in Tokens
    <2>1. s * reserve[t] \in Nat
      BY <1>2, <1>3, SMT
    <2>2. PaidOut(s, t) = (s * reserve[t]) \div totalShares
      BY DEF PaidOut
    <2>3. PaidOut(s, t) \in Nat
      BY <1>2, <2>1, <2>2, DivBounds
    <2> QED
      BY <1>2, <1>3, <2>2, <2>3, WithdrawnPart
  <1>5. \A t \in Tokens : /\ moved(t) \in [Holders -> Nat]
                          /\ moved(t)[Pool] = bal[t][Pool] - PaidOut(s, t)
    <2> TAKE t \in Tokens
    <2>1. PaidOut(s, t) \in Nat /\ bal[t][Pool] >= PaidOut(s, t) /\ AmmTypeOK
      BY <1>4 DEF RemoveLiquidity, AmmInv
    <2> QED
      BY <1>1, <2>1, MovedType
  <1>6. /\ bal' = [t \in Tokens |-> moved(t)] /\ allowance' = allowance
        /\ reserve' = [t \in Tokens |-> reserve[t] - PaidOut(s, t)]
        /\ shares' = [shares EXCEPT ![u] = @ - s]
        /\ totalShares' = totalShares - s
    BY DEF RemoveLiquidity
  <1>7. bal' \in [Tokens -> [Holders -> Nat]] /\ \A t \in Tokens : bal'[t][Pool] = bal[t][Pool] - PaidOut(s, t)
    <2> HIDE DEF moved
    <2> QED
      BY <1>5, <1>6
  <1>8. /\ reserve' \in [Tokens -> Nat] /\ shares' \in [Users -> Nat] /\ totalShares' \in Nat
        /\ allowance' \in [Tokens -> [Users -> Nat]]
        /\ \A t \in Tokens : reserve'[t] = reserve[t] - PaidOut(s, t)
    BY <1>2, <1>3, <1>4, <1>6, SMT DEF AmmInv, AmmTypeOK
  <1>9. AmmTypeOK' /\ \A t \in Tokens : reserve'[t] <= bal'[t][Pool]
    BY <1>3, <1>4, <1>7, <1>8, SMT DEF AmmTypeOK
  <1>10. /\ reserve'[0] * totalShares >= reserve[0] * totalShares'
         /\ reserve'[1] * totalShares >= reserve[1] * totalShares'
    BY <1>4, <1>6, <1>8
  <1>11. Undiluted /\ reserve'[0] * reserve'[1] >= totalShares' * totalShares'
    BY <1>2, <1>9, <1>10, StepKeeps
  <1> QED
    BY <1>9, <1>11 DEF AmmInv, PoolBacked

LEMMA SwapStep ==
    ASSUME AccountsAssumption, AmmAssumption, AmmInv, NEW u \in Users, NEW in \in Tokens,
           NEW amount \in Nat, NEW least \in Nat, Swap(u, in, amount, least)
    PROVE  AmmInv' /\ Undiluted
  <1> DEFINE out == Quote(in, amount)
             fee == AfterFee(amount)
             moved(t) == IF t = in THEN Moved(t, u, Pool, amount) ELSE Moved(t, Pool, u, out)
  <1>1. u \in Holders /\ Pool \in Holders /\ u # Pool /\ 1 - in \in Tokens /\ 1 - in # in
    BY SMT DEF Holders, AccountsAssumption, AmmAssumption
  <1>2. \A t \in Tokens : reserve[t] \in Nat \ {0} /\ bal[t][Pool] \in Nat /\ reserve[t] <= bal[t][Pool]
    <2>1. totalShares > 0
      BY DEF Swap
    <2>2. reserve[0] \in Nat \ {0} /\ reserve[1] \in Nat \ {0}
      BY <2>1, ReservesPositive
    <2> QED
      BY <1>1, <2>2, SMT DEF AmmInv, AmmTypeOK, PoolBacked
  <1>3. fee \in Nat /\ fee <= amount
    BY FeeTaken
  <1>4. out = (fee * reserve[1 - in]) \div (reserve[in] + fee)
    BY <1>2, SMT DEF Quote
  <1>5. out \in Nat
    <2> HIDE DEF fee, out
    <2>1. fee * reserve[1 - in] \in Nat /\ reserve[in] + fee \in Nat \ {0}
      BY <1>1, <1>2, <1>3, SMT
    <2> QED
      BY <1>4, <2>1, DivBounds
  <1>6. bal[in][u] >= amount /\ allowance[in][u] >= amount /\ out < reserve[1 - in] /\ bal[1 - in][Pool] >= out
    BY DEF Swap, MayPull
  <1>7. (reserve[in] + amount) * (reserve[1 - in] - out) >= reserve[in] * reserve[1 - in]
    <2> HIDE DEF fee, out
    <2>1. reserve[in] + fee > 0 /\ out <= reserve[1 - in]
      BY <1>1, <1>2, <1>3, <1>5, <1>6, SMT
    <2>2. reserve[in] \in Nat /\ reserve[1 - in] \in Nat
      BY <1>1, <1>2
    <2> QED
      BY <1>3, <1>4, <1>5, <2>1, <2>2, SwapKeepsProduct
  <1>8. \A t \in Tokens : /\ moved(t) \in [Holders -> Nat]
                          /\ moved(t)[Pool] = IF t = in THEN bal[t][Pool] + amount ELSE bal[t][Pool] - out
    <2> TAKE t \in Tokens
    <2>1. CASE t = in
      <3>1. Moved(t, u, Pool, amount) \in [Holders -> Nat]
            /\ Moved(t, u, Pool, amount)[Pool] = bal[t][Pool] + amount
        BY <1>1, <1>6, <2>1, MovedType DEF AmmInv
      <3> QED
        BY <2>1, <3>1
    <2>2. CASE t # in
      <3>0. t = 1 - in
        BY <2>2, SMT
      <3>1. Moved(t, Pool, u, out) \in [Holders -> Nat]
            /\ Moved(t, Pool, u, out)[Pool] = bal[t][Pool] - out
        <4> HIDE DEF out
        <4>1. bal[t][Pool] >= out /\ AmmTypeOK
          BY <1>6, <3>0 DEF AmmInv
        <4> QED
          BY <1>1, <1>5, <4>1, MovedType
      <3> QED
        BY <2>2, <3>1
    <2> QED
      BY <2>1, <2>2
  <1>9. /\ bal' = [t \in Tokens |-> moved(t)]
        /\ allowance' = [allowance EXCEPT ![in][u] = @ - amount]
        /\ reserve' = [t \in Tokens |-> IF t = in THEN reserve[t] + amount ELSE reserve[t] - out]
        /\ shares' = shares /\ totalShares' = totalShares
    BY DEF Swap
  <1>10. /\ bal' \in [Tokens -> [Holders -> Nat]]
         /\ \A t \in Tokens : bal'[t][Pool] = IF t = in THEN bal[t][Pool] + amount ELSE bal[t][Pool] - out
    <2> HIDE DEF moved, out
    <2> QED
      BY <1>8, <1>9
  <1>11. allowance' \in [Tokens -> [Users -> Nat]]
    <2>1. allowance[in] \in [Users -> Nat] /\ allowance \in [Tokens -> [Users -> Nat]]
      BY DEF AmmInv, AmmTypeOK
    <2>2. [allowance[in] EXCEPT ![u] = @ - amount] \in [Users -> Nat]
      BY <1>6, <2>1, SMT
    <2>3. allowance' = [allowance EXCEPT ![in] = [allowance[in] EXCEPT ![u] = @ - amount]]
      BY <1>9
    <2> QED
      BY <2>1, <2>2, <2>3
  <1>12. /\ reserve' \in [Tokens -> Nat] /\ shares' \in [Users -> Nat] /\ totalShares' \in Nat
         /\ reserve'[in] = reserve[in] + amount /\ reserve'[1 - in] = reserve[1 - in] - out
    <2> HIDE DEF out
    <2>1. /\ reserve'[in] = reserve[in] + amount /\ reserve'[1 - in] = reserve[1 - in] - out
          /\ in \in Tokens /\ 1 - in \in Tokens /\ 1 - in # in
      BY <1>9, SMT
    <2>2. shares' \in [Users -> Nat] /\ totalShares' \in Nat
      BY <1>9 DEF AmmInv, AmmTypeOK
    <2>4. DOMAIN reserve' = Tokens /\ reserve' = [t \in Tokens |-> reserve'[t]]
      BY <1>9
    <2>5. \A t \in Tokens : t = in \/ t = 1 - in
      BY SMT
    <2>3. reserve'[in] \in Nat /\ reserve'[1 - in] \in Nat
      BY <1>1, <1>2, <1>5, <1>6, <2>1, SMT DEF AmmInv, AmmTypeOK
    <2> QED
      BY <2>1, <2>2, <2>3, <2>4, <2>5
  <1>13. AmmTypeOK' /\ \A t \in Tokens : reserve'[t] <= bal'[t][Pool]
    <2> HIDE DEF out
    <2>1. \A t \in Tokens : reserve'[t] <= bal'[t][Pool]
      BY <1>2, <1>5, <1>9, <1>10, SMT
    <2> QED
      BY <1>10, <1>11, <1>12, <2>1 DEF AmmTypeOK
  <1>14. reserve'[0] * reserve'[1] >= reserve[0] * reserve[1]
    <2> HIDE DEF out
    <2>1. \A a, b \in Int : a * b = b * a
      BY SMT
    <2>2. CASE in = 0
      BY <1>7, <1>12, <2>2, SMT
    <2>3. CASE in = 1
      <3>1. reserve'[1] * reserve'[0] >= reserve[1] * reserve[0]
        BY <1>7, <1>12, <2>3, SMT
      <3>2. reserve'[1] \in Int /\ reserve'[0] \in Int /\ reserve[1] \in Int /\ reserve[0] \in Int
        BY <1>2, <1>12, SMT
      <3> QED
        BY <2>1, <3>1, <3>2
    <2> QED
      BY <2>2, <2>3
  <1>15. AmmInv'
    <2>1. /\ reserve'[0] * reserve'[1] \in Nat /\ reserve[0] * reserve[1] \in Nat
          /\ totalShares * totalShares \in Nat
      BY <1>2, <1>12, SMT DEF AmmInv, AmmTypeOK
    <2>2. reserve[0] * reserve[1] >= totalShares * totalShares
      BY DEF AmmInv, PoolBacked
    <2> QED
      BY <1>9, <1>13, <1>14, <2>1, <2>2, SMT DEF AmmInv, PoolBacked
  <1>16. Undiluted
    <2> DEFINE p == reserve[0] * reserve[1]
               q == reserve'[0] * reserve'[1]
    <2>1. p \in Nat /\ q \in Nat /\ totalShares \in Nat
      BY <1>2, <1>12, SMT DEF AmmInv, AmmTypeOK
    <2>2. totalShares * totalShares \in Nat /\ totalShares' = totalShares
      BY <1>9, <2>1, SMT
    <2>3. p * (totalShares * totalShares) <= q * (totalShares * totalShares)
      <3> HIDE DEF p, q
      <3> QED
        BY <1>14, <2>1, <2>2, MulMono DEF p, q
    <2>4. p * (totalShares * totalShares) = p * totalShares * totalShares
          /\ q * (totalShares * totalShares) = q * totalShares * totalShares
      <3> HIDE DEF p, q
      <3> QED
        BY <2>1, SMT
    <2> QED
      BY <2>2, <2>3, <2>4 DEF Undiluted
  <1> QED
    BY <1>15, <1>16

-----------------------------------------------------------------------------
LEMMA AmmInitKeeps == ASSUME AccountsAssumption, AmmAssumption PROVE AmmInit => AmmInv
  BY SMT DEF AmmInit, AmmInv, AmmTypeOK, PoolBacked, Holders, AccountsAssumption, AmmAssumption

LEMMA AmmStepKeeps ==
    ASSUME AccountsAssumption, AmmAssumption, AmmInv, [AmmStep]_ammVars
    PROVE  AmmInv' /\ (ammVars' # ammVars => Undiluted)
  <1>1. CASE UNCHANGED ammVars
    BY <1>1 DEF ammVars, AmmInv, AmmTypeOK, PoolBacked
  <1>2. CASE AmmStep
    <2>1. PICK u \in Users, t \in Tokens, a, b \in Nat :
             \/ Faucet(t, u, a) \/ Approve(t, u, a) \/ Transfer(t, u, Sink, a)
             \/ AddLiquidity(u, a, b) \/ RemoveLiquidity(u, a) \/ Swap(u, t, a, b)
      BY <1>2 DEF AmmStep
    <2>2. CASE Faucet(t, u, a) \/ Approve(t, u, a) \/ Transfer(t, u, Sink, a)
      BY <2>2, TokenSteps
    <2>3. CASE AddLiquidity(u, a, b) \/ RemoveLiquidity(u, a)
      BY <2>3, AddLiquidityStep, RemoveLiquidityStep
    <2>4. CASE Swap(u, t, a, b)
      BY <2>4, SwapStep
    <2> QED
      BY <2>1, <2>2, <2>3, <2>4
  <1> QED
    BY <1>1, <1>2

(* The pool holds its reserves, and they cover the shares, for every sequence of *)
(* transactions of any accounts.                                                 *)
THEOREM PoolAlwaysBacked == AmmSpec => []PoolBacked
  <1>1. AmmInit => AmmInv
    BY AccountsAssumption, AmmAssumption, AmmInitKeeps
  <1>2. AmmInv /\ [AmmStep]_ammVars => AmmInv'
    BY AccountsAssumption, AmmAssumption, AmmStepKeeps
  <1>3. AmmInv => PoolBacked
    BY DEF AmmInv
  <1> QED
    BY <1>1, <1>2, <1>3, PTL DEF AmmSpec

(* No transaction of any account lowers what one share of the pool stands for. *)
THEOREM SharesNeverDiluted == AmmSpec => NoDilution
  <1>1. AmmInit => AmmInv
    BY AccountsAssumption, AmmAssumption, AmmInitKeeps
  <1>2. AmmInv /\ [AmmStep]_ammVars => AmmInv'
    BY AccountsAssumption, AmmAssumption, AmmStepKeeps
  <1>3. AmmInv /\ [AmmStep]_ammVars => [Undiluted]_ammVars
    BY AccountsAssumption, AmmAssumption, AmmStepKeeps
  <1>4. [Undiluted]_ammVars =>
          [totalShares > 0 /\ totalShares' > 0 =>
             reserve'[0] * reserve'[1] * totalShares * totalShares
               >= reserve[0] * reserve[1] * totalShares' * totalShares']_ammVars
    BY DEF Undiluted
  <1> QED
    BY <1>1, <1>2, <1>3, <1>4, PTL DEF AmmSpec, NoDilution

-----------------------------------------------------------------------------
VaultInv == /\ VaultTypeOK
            /\ \A s \in Symbols : fresh[s] => price[s] > 0

(* What OnlyPricesOpenADeficit asks of one step. *)
Covered == price' = price =>
         \/ /\ supply' = supply
            /\ usd'[Vault] >= usd[Vault]
         \/ \E s \in Symbols :
              /\ \A o \in Symbols \ {s} : supply'[o] = supply[o]
              /\ (usd'[Vault] - usd[Vault]) * PriceScale
                   >= (supply'[s] - supply[s]) * price[s]

LEMMA OwnerSteps ==
    ASSUME AccountsAssumption, VaultAssumption, VaultInv, OwnerStep
    PROVE  VaultInv' /\ Covered
  <1> USE DEF VaultInv, VaultTypeOK
  <1>0. usd[Vault] \in Nat
    BY DEF UsdHolders
  <1>1. CASE \E s \in Symbols : ListStock(s)
    BY <1>0, <1>1, SMT DEF ListStock, Covered
  <1>2. CASE \E syms \in SUBSET Symbols, pushed \in [Symbols -> Nat] : SetPrices(syms, pushed)
    <2>1. PICK syms \in SUBSET Symbols, pushed \in [Symbols -> Nat] : SetPrices(syms, pushed)
      BY <1>2
    <2>2. UNCHANGED <<usd, usdAllowance, stock, supply, listed, marketOpen, rthOnly>>
      BY <2>1 DEF SetPrices
    <2>3. price' \in [Symbols -> Nat] /\ fresh' \in [Symbols -> BOOLEAN]
      BY <2>1 DEF SetPrices
    <2>4. \A s \in Symbols : fresh'[s] => price'[s] > 0
      BY <2>1, SMT DEF SetPrices
    <2> QED
      BY <1>0, <2>2, <2>3, <2>4, SMT DEF Covered
  <1>3. CASE \E ages \in [Symbols -> BOOLEAN] : Reage(ages)
    BY <1>0, <1>3, SMT DEF Reage, Covered
  <1>4. CASE \E open, only \in BOOLEAN : SetWindow(open, only)
    BY <1>0, <1>4, SMT DEF SetWindow, Covered
  <1> QED
    BY <1>1, <1>2, <1>3, <1>4 DEF OwnerStep

LEMMA UsdSteps ==
    ASSUME AccountsAssumption, VaultAssumption, VaultInv, NEW u \in Users, NEW amount \in Nat,
           UsdFaucet(u, amount) \/ UsdApprove(u, amount) \/ UsdTransfer(u, Sink, amount)
    PROVE  VaultInv' /\ Covered
  <1> USE DEF VaultInv, VaultTypeOK, oracleVars
  <1>0. u \in UsdHolders /\ u # Vault /\ Sink \in UsdHolders /\ Vault \in UsdHolders /\ Vault # Sink
    BY DEF UsdHolders, AccountsAssumption, VaultAssumption
  <1>1. CASE UsdFaucet(u, amount)
    BY <1>0, <1>1, SMT DEF UsdFaucet, Covered
  <1>2. CASE UsdApprove(u, amount)
    BY <1>0, <1>2, SMT DEF UsdApprove, Covered
  <1>3. CASE UsdTransfer(u, Sink, amount)
    BY <1>0, <1>3, SMT DEF UsdTransfer, Covered
  <1> QED
    BY <1>1, <1>2, <1>3

LEMMA MintStep ==
    ASSUME AccountsAssumption, VaultAssumption, VaultInv, NEW u \in Users, NEW s \in Symbols,
           NEW amount \in Nat, Mint(u, s, amount)
    PROVE  VaultInv' /\ Covered
  <1> USE DEF VaultInv, VaultTypeOK, oracleVars
  <1> DEFINE out == StockOut(s, amount)
  <1>0. u \in UsdHolders /\ u # Vault /\ Vault \in UsdHolders
    BY DEF UsdHolders, AccountsAssumption, VaultAssumption
  <1>1. price[s] \in Nat \ {0} /\ PriceScale \in Nat \ {0} /\ amount * PriceScale \in Nat
    BY SMT DEF Mint, Trades, VaultAssumption
  <1>2. out \in Nat /\ out * price[s] <= amount * PriceScale
    BY <1>1, DivBounds DEF StockOut
  <1> HIDE DEF out
  <1>3. /\ usdAllowance' = [usdAllowance EXCEPT ![u] = @ - amount]
        /\ usd' = [usd EXCEPT ![u] = @ - amount, ![Vault] = @ + amount]
        /\ stock' = [stock EXCEPT ![s][u] = @ + out]
        /\ supply' = [supply EXCEPT ![s] = @ + out]
        /\ UNCHANGED oracleVars
        /\ usdAllowance[u] >= amount /\ usd[u] >= amount
    BY DEF Mint, out
  <1>4. VaultInv'
    <2>1. usd' \in [UsdHolders -> Nat] /\ usdAllowance' \in [Users -> Nat]
      BY <1>0, <1>3, SMT
    <2>2. supply' \in [Symbols -> Int]
      BY <1>2, <1>3, SMT
    <2>3. stock' \in [Symbols -> [Users -> Nat]]
      BY <1>2, <1>3, SMT
    <2> QED
      BY <1>3, <2>1, <2>2, <2>3
  <1>5. usd'[Vault] - usd[Vault] = amount /\ supply'[s] - supply[s] = out
    BY <1>0, <1>2, <1>3, SMT
  <1>6. \A o \in Symbols \ {s} : supply'[o] = supply[o]
    BY <1>3
  <1> QED
    BY <1>2, <1>4, <1>5, <1>6 DEF Covered

LEMMA RedeemStep ==
    ASSUME AccountsAssumption, VaultAssumption, VaultInv, NEW u \in Users, NEW s \in Symbols,
           NEW amount \in Nat, Redeem(u, s, amount)
    PROVE  VaultInv' /\ Covered
  <1> USE DEF VaultInv, VaultTypeOK, oracleVars
  <1> DEFINE out == CollateralOut(s, amount)
  <1>0. u \in UsdHolders /\ u # Vault /\ Vault \in UsdHolders
    BY DEF UsdHolders, AccountsAssumption, VaultAssumption
  <1>1. PriceScale \in Nat \ {0} /\ price[s] \in Nat /\ amount * price[s] \in Nat
    BY SMT DEF VaultAssumption
  <1>2. out \in Nat /\ out * PriceScale <= amount * price[s]
    BY <1>1, DivBounds DEF CollateralOut
  <1> HIDE DEF out
  <1>3. /\ usdAllowance' = usdAllowance
        /\ usd' = [usd EXCEPT ![Vault] = @ - out, ![u] = @ + out]
        /\ stock' = [stock EXCEPT ![s][u] = @ - amount]
        /\ supply' = [supply EXCEPT ![s] = @ - amount]
        /\ UNCHANGED oracleVars
        /\ stock[s][u] >= amount /\ usd[Vault] >= out
    BY DEF Redeem, out
  <1>4. VaultInv'
    <2>1. usd' \in [UsdHolders -> Nat] /\ usdAllowance' \in [Users -> Nat]
      BY <1>0, <1>2, <1>3, SMT
    <2>2. supply' \in [Symbols -> Int]
      BY <1>3, SMT
    <2>3. stock' \in [Symbols -> [Users -> Nat]]
      BY <1>3, SMT
    <2> QED
      BY <1>3, <2>1, <2>2, <2>3
  <1>5. usd'[Vault] - usd[Vault] = -out /\ supply'[s] - supply[s] = -amount
    BY <1>0, <1>2, <1>3, SMT
  <1>6. \A o \in Symbols \ {s} : supply'[o] = supply[o]
    BY <1>3
  <1>7. (-out) * PriceScale >= (-amount) * price[s]
    <2>1. (-out) * PriceScale = -(out * PriceScale) /\ (-amount) * price[s] = -(amount * price[s])
      BY <1>1, <1>2, SMT
    <2>2. out * PriceScale \in Nat
      BY <1>1, <1>2, SMT
    <2> QED
      BY <1>1, <1>2, <2>1, <2>2, SMT
  <1> QED
    BY <1>4, <1>5, <1>6, <1>7 DEF Covered

LEMMA VaultStepKeeps ==
    ASSUME AccountsAssumption, VaultAssumption, VaultInv, [OwnerStep \/ AccountStep]_vaultVars
    PROVE  VaultInv' /\ (vaultVars' # vaultVars => Covered)
  <1>1. CASE UNCHANGED vaultVars
    BY <1>1 DEF vaultVars, VaultInv, VaultTypeOK
  <1>2. CASE OwnerStep
    BY <1>2, OwnerSteps
  <1>3. CASE AccountStep
    <2>1. PICK u \in Users, s \in Symbols, amount \in Nat :
             \/ UsdFaucet(u, amount) \/ UsdApprove(u, amount) \/ UsdTransfer(u, Sink, amount)
             \/ Mint(u, s, amount) \/ Redeem(u, s, amount)
      BY <1>3 DEF AccountStep
    <2> QED
      BY <2>1, UsdSteps, MintStep, RedeemStep
  <1> QED
    BY <1>1, <1>2, <1>3

(* At unchanged prices no mint or redemption of any account leaves the vault *)
(* with less than the stock it issued or burnt is worth.                     *)
THEOREM VaultTradesAtNoLoss == VaultSpec => OnlyPricesOpenADeficit
  <1>1. VaultInit => VaultInv
    <2> SUFFICES ASSUME VaultInit PROVE VaultInv
      OBVIOUS
    <2>1. usd \in [UsdHolders -> Nat] /\ usdAllowance \in [Users -> Nat]
      BY SMT DEF VaultInit
    <2>2. stock \in [Symbols -> [Users -> Nat]] /\ supply \in [Symbols -> Int]
      BY SMT DEF VaultInit
    <2>3. /\ price \in [Symbols -> Nat] /\ fresh \in [Symbols -> BOOLEAN]
          /\ listed \subseteq Symbols /\ marketOpen \in BOOLEAN /\ rthOnly \in BOOLEAN
      BY DEF VaultInit
    <2> QED
      BY <2>1, <2>2, <2>3 DEF VaultInit, VaultInv, VaultTypeOK
  <1>2. VaultInv /\ [OwnerStep \/ AccountStep]_vaultVars => VaultInv'
    BY AccountsAssumption, VaultAssumption, VaultStepKeeps
  <1>3. VaultInv /\ [OwnerStep \/ AccountStep]_vaultVars => [Covered]_vaultVars
    BY AccountsAssumption, VaultAssumption, VaultStepKeeps
  <1> QED
    BY <1>1, <1>2, <1>3, PTL DEF VaultSpec, OnlyPricesOpenADeficit, Covered

-----------------------------------------------------------------------------
(* The requests of AgentExec.tla on these contracts.  What a request wants is *)
(* an amount and a path; the first lemmas say so of the legs of a launch.     *)

USE DEF Tokens

(* A total of natural numbers is one, and covers each of them. *)
LEMMA TotalIs ==
    ASSUME NEW S, IsFiniteSet(S), NEW f \in [S -> Nat]
    PROVE  /\ SumFunction(f) \in Nat
           /\ \A x \in S : f[x] <= SumFunction(f)
  <1> DEFINE h == CHOOSE h : Sums(h, f, S)
  <1>0. DOMAIN f = S /\ f \in [S -> Int] /\ \A x \in S : f[x] \in Nat
    OBVIOUS
  <1>1. SumFunction(f) = h[S]
    BY <1>0 DEF SumFunction, SumFunctionOnSet, FoldFunctionOnSet, MapThenFoldSet, Sums, Pick
  <1>2. Sums(h, f, S)
    BY SumsExist
  <1>3. SumFunction(f) = SumOver(f, S)
    BY <1>1, <1>2, SumOverIs
  <1>4. SumOver(f, S) \in Int /\ SumOver(f, S) >= 0
    <2>1. SumOver(f, S) >= Cardinality(S) * 0 /\ Cardinality(S) \in Nat
      BY <1>0, SumOverAtLeast, FS_CardinalityType
    <2>2. SumOver(f, S) \in Int
      BY <1>0, SumOverRemove
    <2> QED BY <2>1, <2>2
  <1>5. ASSUME NEW x \in S PROVE f[x] <= SumOver(f, S)
    <2>1. IsFiniteSet(S \ {x}) /\ Cardinality(S \ {x}) \in Nat
      BY FS_RemoveElement, FS_CardinalityType
    <2>2. SumOver(f, S) = f[x] + SumOver(f, S \ {x}) /\ SumOver(f, S \ {x}) \in Int
      <3>1. S \ {x} \in SUBSET S
        OBVIOUS
      <3> QED BY <1>0, <2>1, <3>1, SumOverRemove
    <2>3. SumOver(f, S \ {x}) >= Cardinality(S \ {x}) * 0
      <3> DEFINE e == [y \in S \ {x} |-> f[y]]
      <3>1. e \in [S \ {x} -> Int] /\ \A y \in S \ {x} : e[y] >= 0 /\ e[y] = f[y]
        BY <1>0
      <3> HIDE DEF e
      <3>2. SumOver(e, S \ {x}) >= Cardinality(S \ {x}) * 0
        BY <2>1, <3>1, SumOverAtLeast
      <3>3. SumOver(e, S \ {x}) = SumOver(f, S \ {x})
        BY <2>1, <3>1, SumOverSame
      <3> QED BY <3>2, <3>3
    <2>4. f[x] \in Nat /\ Cardinality(S \ {x}) * 0 = 0
      BY <1>0, <2>1
    <2> QED BY <2>2, <2>3, <2>4
  <1> QED BY <1>3, <1>4, <1>5

(* The legs of a launch are deals for natural amounts. *)
LaunchOrder == [kind : {"launch"}, legs : Launches, amount : Nat]

LEMMA LegsAreDeals ==
    ASSUME NEW q \in LaunchOrder
    PROVE  /\ Legs(q) \in Seq(Deal)
           /\ Need(q, TRUE) \in Nat /\ Need(q, FALSE) \in Nat
  <1> DEFINE legs == q.legs
             n == Len(legs)
             w == [i \in DOMAIN legs |-> legs[i].weight]
             T == TotalWeight(legs)
  <1>1. /\ legs \in Seq(LaunchLeg) /\ (\E i \in DOMAIN legs : legs[i].weight > 0)
        /\ q.amount \in Nat
    BY ExecAssumption DEF LaunchOrder
  <1>2. /\ n \in Nat /\ DOMAIN legs = 1..n /\ IsFiniteSet(1..n)
        /\ \A i \in 1..n : legs[i] \in LaunchLeg
    <2>1. n \in Nat /\ DOMAIN legs = 1..n /\ \A i \in 1..n : legs[i] \in LaunchLeg
      BY <1>1
    <2> HIDE DEF n
    <2>2. IsFiniteSet(1..n)
      BY <2>1, FS_Interval
    <2> QED BY <2>1, <2>2
  <1>3. \A i \in 1..n : /\ legs[i].weight \in Nat
                        /\ legs[i].kind \in {"buy", "swap", "lp"}
                        /\ legs[i].sym \in Symbols \union {"usd"}
                        /\ legs[i].kind = "buy" => legs[i].sym \in Symbols
    BY <1>2 DEF LaunchLeg
  <1>4. w \in [1..n -> Nat] /\ \E i \in 1..n : w[i] > 0
    BY <1>1, <1>2, <1>3
  <1>5. T \in Nat /\ T > 0
    <2>1. T = SumFunction(w)
      BY DEF TotalWeight
    <2> HIDE DEF w
    <2>2. T \in Nat /\ \A x \in 1..n : w[x] <= T
      BY <1>2, <1>4, <2>1, TotalIs
    <2> QED BY <1>4, <2>2
  <1>6. ASSUME NEW i \in 1..n PROVE LegUsd(legs[i], q) \in Nat
    <2>1. LegUsd(legs[i], q) = (2 * q.amount * legs[i].weight + T) \div (2 * T)
      BY DEF LegUsd
    <2>2. 2 * q.amount * legs[i].weight + T \in Nat
      <3> DEFINE v == legs[i].weight
      <3>1. v \in Nat
        BY <1>3
      <3> HIDE DEF v, T
      <3>2. (2 * q.amount) * v \in Nat
        BY <1>1, <3>1, SMT
      <3>3. (2 * q.amount) * v + T \in Nat
        BY <1>5, <3>2
      <3> QED BY <3>3 DEF v
    <2>3. 2 * T \in Nat \ {0}
      BY <1>5
    <2> HIDE DEF T
    <2> QED BY <2>1, <2>2, <2>3, DivBounds
  <1>7. Legs(q) \in Seq(Deal)
    <2>1. Legs(q) = [i \in 1..n |-> [kind |-> legs[i].kind, sym |-> legs[i].sym, side |-> 1,
                                     amount |-> LegUsd(legs[i], q)]]
      BY <1>2 DEF Legs
    <2>2. ASSUME NEW i \in 1..n
          PROVE  [kind |-> legs[i].kind, sym |-> legs[i].sym, side |-> 1,
                  amount |-> LegUsd(legs[i], q)] \in Deal
      BY <1>3, <1>6 DEF Deal
    <2> HIDE DEF legs, n
    <2> QED BY <1>2, <2>1, <2>2
  <1>8. ASSUME NEW rh \in BOOLEAN PROVE Need(q, rh) \in Nat
    <2> DEFINE f == [i \in 1..n |-> IF (legs[i].kind = "buy") = rh THEN LegUsd(legs[i], q) ELSE 0]
    <2>1. Need(q, rh) = SumFunction(f)
      BY <1>2 DEF Need
    <2>2. f \in [1..n -> Nat]
      BY <1>6
    <2> HIDE DEF f, n
    <2> QED BY <1>2, <2>1, <2>2, TotalIs
  <1> QED BY <1>7, <1>8

(* What Sized makes of each set of the legs, the last one last. *)
Kept(g, legs) ==
    g = [s \in SUBSET (DOMAIN legs) |->
           IF s = {} THEN <<>>
           ELSE IF legs[Max(s)].amount > 0 THEN Append(g[s \ {Max(s)}], legs[Max(s)])
                ELSE g[s \ {Max(s)}]]

(* The legs that are not of nothing are deals, as all are. *)
LEMMA SizedIs ==
    ASSUME NEW legs \in Seq(Deal)
    PROVE  Sized(legs) \in Seq(Deal)
  <1> DEFINE n == Len(legs)
             A == Seq(Deal)
             step == [p \in A \X (1..n) |->
                        IF legs[p[2]].amount > 0 THEN Append(p[1], legs[p[2]]) ELSE p[1]]
             h == CHOOSE h : Kept(h, legs)
  <1>1. n \in Nat /\ DOMAIN legs = 1..n /\ <<>> \in A /\ \A i \in 1..n : legs[i] \in Deal
    OBVIOUS
  <1>2. \A acc \in A, i \in 1..n : Append(acc, legs[i]) \in A
    BY <1>1
  <1> HIDE DEF n, A
  <1>3. step \in [A \X (1..n) -> A]
    BY <1>2
  <1>4. \A acc \in A, i \in 1..n :
          step[<<acc, i>>] = IF legs[i].amount > 0 THEN Append(acc, legs[i]) ELSE acc
    OBVIOUS
  <1> HIDE DEF step
  <1>5. PICK g \in [SUBSET (1..n) -> A] : Folds(g, n, <<>>, step)
    BY <1>1, <1>3, FoldExists
  <1>6. ASSUME NEW s \in SUBSET (1..n), s # {}
        PROVE  Max(s) \in 1..n /\ g[s \ {Max(s)}] \in A
    <2>1. s \in SUBSET (0..n)
      BY <1>1
    <2>2. Max(s) \in s
      BY <1>1, <1>6, <2>1, MaxIs
    <2> QED BY <2>2
  <1>7. ASSUME NEW s \in SUBSET (1..n)
        PROVE  g[s] = IF s = {} THEN <<>>
                      ELSE IF legs[Max(s)].amount > 0 THEN Append(g[s \ {Max(s)}], legs[Max(s)])
                           ELSE g[s \ {Max(s)}]
    BY <1>4, <1>5, <1>6 DEF Folds
  <1>8. Kept(h, legs)
    <2>1. g = [s \in SUBSET (1..n) |-> g[s]]
      OBVIOUS
    <2>2. Kept(g, legs)
      BY <1>1, <1>7, <2>1 DEF Kept
    <2> QED BY <2>2
  <1>9. Sized(legs) = h[1..n]
    BY <1>1 DEF Sized, FoldLeft, MapThenFoldSet, Kept
  <1> HIDE DEF h
  <1>10. h[1..0] \in A
    <2>1. 1..0 = {} /\ {} \in SUBSET (1..n)
      OBVIOUS
    <2> QED BY <1>1, <1>8, <2>1 DEF Kept
  <1>11. ASSUME NEW k \in 1..n, h[1..(k - 1)] \in A PROVE h[1..k] \in A
    <2>1. k \in Nat \ {0} /\ 1..k \in SUBSET (1..n) /\ 1..k # {}
      <3>1. k \in Nat \ {0} /\ k \in 1..k /\ \A i \in 1..k : i \in 1..n
        BY <1>1
      <3> QED BY <3>1
    <2>2. Max(1..k) = k /\ (1..k) \ {k} = 1..(k - 1)
      BY <2>1, LastIs
    <2>3. h[1..k] = IF legs[k].amount > 0 THEN Append(h[1..(k - 1)], legs[k]) ELSE h[1..(k - 1)]
      BY <1>1, <1>8, <2>1, <2>2 DEF Kept
    <2> QED BY <1>2, <1>11, <2>3
  <1>12. h[1..n] \in A
    BY <1>1, <1>10, <1>11, FoldStays
  <1> QED BY <1>9, <1>12 DEF A

-----------------------------------------------------------------------------
(* What the requests are doing, and where. *)
Work == Deal \union LaunchOrder \union {Idle, Done}
LookupStates == {"off", "todo", "insert", "fund", "ready", "failed"}
Numbers == [before0 : Nat, before1 : Nat, missed0 : Nat, missed1 : Nat,
            least : Nat, put0 : Nat, put1 : Nat]

ExecShaped ==
    /\ running \in [Requests -> Work] /\ todo \in [Requests -> Seq(Deal)]
    /\ at \in [Requests -> Nat] /\ memory \in [Requests -> Numbers]
    /\ lookup \in [Requests -> [Roles -> [st : LookupStates, key : Keys \union {NoKey}]]]
    /\ gained \in [Requests -> Nat] /\ alone \in [Requests -> BOOLEAN]
    /\ released \in Nat /\ stored \in Keys \union {NoKey}

(* An action is at one of the awaits of its path. *)
Placed(r) == Busy(r) => at[r] \in 1 .. Len(Path(running[r].kind))

(* The wallets an action needs are looked up, all of them before its second await. *)
LookedUp(r) ==
    /\ Busy(r) => /\ \A x \in RolesOf(running[r]) : lookup[r][x].st # "off"
                  /\ at[r] > 1 => Ready(r)
    /\ \A x \in Roles : lookup[r][x].st \in {"insert", "fund", "ready"} => lookup[r][x].key \in Keys

ExecTyped == /\ ExecShaped /\ AmmInv /\ VaultInv
             /\ \A r \in Requests : Placed(r) /\ LookedUp(r)

Kinds == {"buy", "sell", "swap", "lp", "bridge", "launch"}

(* The awaits of each path, one by one. *)
LEMMA PathsAre ==
    /\ Path("buy") = <<"price", "usdFaucet", "usdApprove", "mint", "report">>
    /\ Path("sell") = <<"price", "redeem", "report">>
    /\ Path("swap") = <<"faucet", "approve", "quote", "swap", "report">>
    /\ Path("lp") = <<"quote", "faucet", "approve", "swap", "measure",
                      "approve0", "approve1", "add", "report">>
    /\ Path("bridge") = <<"fill", "lock", "release", "report">>
    /\ Path("launch") = <<"plan">>
  BY DEF Path

(* Each await has its place. *)
Awaits(kind, i, w) ==
    /\ w = "price" => kind \in {"buy", "sell"} /\ i = 1
    /\ w = "usdFaucet" => kind = "buy" /\ i = 2
    /\ w = "usdApprove" => kind = "buy" /\ i = 3
    /\ w = "mint" => kind = "buy" /\ i = 4
    /\ w = "redeem" => kind = "sell" /\ i = 2
    /\ w = "faucet" => (kind = "swap" /\ i = 1) \/ (kind = "lp" /\ i = 2)
    /\ w = "approve" => (kind = "swap" /\ i = 2) \/ (kind = "lp" /\ i = 3)
    /\ w = "quote" => (kind = "swap" /\ i = 3) \/ (kind = "lp" /\ i = 1)
    /\ w = "swap" => kind \in {"swap", "lp"} /\ i = 4
    /\ w = "measure" => kind = "lp" /\ i = 5
    /\ w = "approve0" => kind = "lp" /\ i = 6
    /\ w = "approve1" => kind = "lp" /\ i = 7
    /\ w = "add" => kind = "lp" /\ i = 8
    /\ w = "fill" => kind = "bridge" /\ i = 1
    /\ w = "lock" <=> kind = "bridge" /\ i = 2
    /\ w = "release" <=> kind = "bridge" /\ i = 3
    /\ w = "plan" <=> kind = "launch"
    /\ w = "report" => \/ kind \in {"buy", "swap"} /\ i = 5
                       \/ kind = "sell" /\ i = 3
                       \/ kind = "lp" /\ i = 9
                       \/ kind = "bridge" /\ i = 4

(* And none but the last is the last. *)
NotLast(kind, i, w) == w \notin {"report", "plan"} => i + 1 \in 1 .. Len(Path(kind))

LEMMA AwaitIs ==
    ASSUME NEW kind \in Kinds, NEW i \in 1 .. Len(Path(kind))
    PROVE  Awaits(kind, i, Path(kind)[i]) /\ NotLast(kind, i, Path(kind)[i])
  <1>1. CASE kind = "buy"
    <2>1. i \in 1 .. 5 /\ Len(Path(kind)) = 5
      BY <1>1, PathsAre
    <2>2. \/ i = 1 /\ Path(kind)[i] = "price"
          \/ i = 2 /\ Path(kind)[i] = "usdFaucet"
          \/ i = 3 /\ Path(kind)[i] = "usdApprove"
          \/ i = 4 /\ Path(kind)[i] = "mint"
          \/ i = 5 /\ Path(kind)[i] = "report"
      BY <1>1, <2>1, PathsAre
    <2>3. NotLast(kind, i, Path(kind)[i])
      <3>1. i = 5 => Path(kind)[i] = "report"
        BY <2>2
      <3>2. i # 5 => i + 1 \in 1 .. Len(Path(kind))
        BY <2>1
      <3> QED BY <3>1, <3>2 DEF NotLast
    <2>4. \A w : w = Path(kind)[i] => Awaits(kind, i, w)
      BY <1>1, <2>2 DEF Awaits
    <2> QED BY <2>3, <2>4
  <1>2. CASE kind = "sell"
    <2>1. i \in 1 .. 3 /\ Len(Path(kind)) = 3
      BY <1>2, PathsAre
    <2>2. \/ i = 1 /\ Path(kind)[i] = "price"
          \/ i = 2 /\ Path(kind)[i] = "redeem"
          \/ i = 3 /\ Path(kind)[i] = "report"
      BY <1>2, <2>1, PathsAre
    <2>3. NotLast(kind, i, Path(kind)[i])
      <3>1. i = 3 => Path(kind)[i] = "report"
        BY <2>2
      <3>2. i # 3 => i + 1 \in 1 .. Len(Path(kind))
        BY <2>1
      <3> QED BY <3>1, <3>2 DEF NotLast
    <2>4. \A w : w = Path(kind)[i] => Awaits(kind, i, w)
      BY <1>2, <2>2 DEF Awaits
    <2> QED BY <2>3, <2>4
  <1>3. CASE kind = "swap"
    <2>1. i \in 1 .. 5 /\ Len(Path(kind)) = 5
      BY <1>3, PathsAre
    <2>2. \/ i = 1 /\ Path(kind)[i] = "faucet"
          \/ i = 2 /\ Path(kind)[i] = "approve"
          \/ i = 3 /\ Path(kind)[i] = "quote"
          \/ i = 4 /\ Path(kind)[i] = "swap"
          \/ i = 5 /\ Path(kind)[i] = "report"
      BY <1>3, <2>1, PathsAre
    <2>3. NotLast(kind, i, Path(kind)[i])
      <3>1. i = 5 => Path(kind)[i] = "report"
        BY <2>2
      <3>2. i # 5 => i + 1 \in 1 .. Len(Path(kind))
        BY <2>1
      <3> QED BY <3>1, <3>2 DEF NotLast
    <2>4. \A w : w = Path(kind)[i] => Awaits(kind, i, w)
      BY <1>3, <2>2 DEF Awaits
    <2> QED BY <2>3, <2>4
  <1>4. CASE kind = "lp"
    <2>1. i \in 1 .. 9 /\ Len(Path(kind)) = 9
      BY <1>4, PathsAre
    <2>2. \/ i = 1 /\ Path(kind)[i] = "quote"
          \/ i = 2 /\ Path(kind)[i] = "faucet"
          \/ i = 3 /\ Path(kind)[i] = "approve"
          \/ i = 4 /\ Path(kind)[i] = "swap"
          \/ i = 5 /\ Path(kind)[i] = "measure"
          \/ i = 6 /\ Path(kind)[i] = "approve0"
          \/ i = 7 /\ Path(kind)[i] = "approve1"
          \/ i = 8 /\ Path(kind)[i] = "add"
          \/ i = 9 /\ Path(kind)[i] = "report"
      BY <1>4, <2>1, PathsAre
    <2>3. NotLast(kind, i, Path(kind)[i])
      <3>1. i = 9 => Path(kind)[i] = "report"
        BY <2>2
      <3>2. i # 9 => i + 1 \in 1 .. Len(Path(kind))
        BY <2>1
      <3> QED BY <3>1, <3>2 DEF NotLast
    <2>4. \A w : w = Path(kind)[i] => Awaits(kind, i, w)
      BY <1>4, <2>2 DEF Awaits
    <2> QED BY <2>3, <2>4
  <1>5. CASE kind = "bridge"
    <2>1. i \in 1 .. 4 /\ Len(Path(kind)) = 4
      BY <1>5, PathsAre
    <2>2. \/ i = 1 /\ Path(kind)[i] = "fill"
          \/ i = 2 /\ Path(kind)[i] = "lock"
          \/ i = 3 /\ Path(kind)[i] = "release"
          \/ i = 4 /\ Path(kind)[i] = "report"
      BY <1>5, <2>1, PathsAre
    <2>3. NotLast(kind, i, Path(kind)[i])
      <3>1. i = 4 => Path(kind)[i] = "report"
        BY <2>2
      <3>2. i # 4 => i + 1 \in 1 .. Len(Path(kind))
        BY <2>1
      <3> QED BY <3>1, <3>2 DEF NotLast
    <2>4. \A w : w = Path(kind)[i] => Awaits(kind, i, w)
      BY <1>5, <2>2 DEF Awaits
    <2> QED BY <2>3, <2>4
  <1>6. CASE kind = "launch"
    <2>1. Len(Path(kind)) = 1 /\ Path(kind)[1] = "plan"
      BY <1>6, PathsAre
    <2>2. i = 1
      BY <2>1
    <2> QED BY <1>6, <2>1, <2>2 DEF Awaits, NotLast
  <1> QED BY <1>1, <1>2, <1>3, <1>4, <1>5, <1>6 DEF Kinds

LEMMA DealIs ==
    ASSUME NEW q \in Deal
    PROVE  /\ q.kind \in {"buy", "sell", "swap", "lp", "bridge"}
           /\ q.amount \in Nat /\ q.side \in Tokens
           /\ q.kind \in {"buy", "sell"} => q.sym \in Symbols
           /\ In(q) \in Tokens /\ Spent(q) \in Nat
  <1>1. /\ q.kind \in {"buy", "sell", "swap", "lp", "bridge"}
        /\ q.amount \in Nat /\ q.side \in Tokens
        /\ q.kind \in {"buy", "sell"} => q.sym \in Symbols
    BY DEF Deal
  <1> QED BY <1>1 DEF In, Spent

(* A request that is busy runs a deal or plans a launch. *)
LEMMA BusyIs ==
    ASSUME ExecShaped, NEW r \in Requests, Busy(r)
    PROVE  /\ running[r].kind \in Kinds
           /\ running[r].kind = "launch" => running[r] \in LaunchOrder
           /\ running[r].kind # "launch" => running[r] \in Deal
  <1>1. running[r] \in Deal \union LaunchOrder
    BY DEF ExecShaped, Work, Busy, Idle, Done
  <1>2. ASSUME NEW q \in LaunchOrder PROVE q.kind = "launch"
    BY DEF LaunchOrder
  <1>3. ASSUME NEW q \in Deal PROVE q.kind \in Kinds /\ q.kind # "launch"
    BY DealIs DEF Kinds
  <1> QED BY <1>1, <1>2, <1>3 DEF Kinds

(* A request at an await is at its place, with the keys it signs with. *)
LEMMA AtIs ==
    ASSUME ExecTyped, NEW r \in Requests, NEW w, At(r, w)
    PROVE  /\ Busy(r) /\ Ready(r) /\ running[r].kind \in Kinds
           /\ Awaits(running[r].kind, at[r], w) /\ NotLast(running[r].kind, at[r], w)
           /\ at[r] \in 1 .. Len(Path(running[r].kind))
           /\ Key(r) \in Keys
           /\ running[r].kind = "bridge" => lookup[r]["b"].key \in Keys
           /\ running[r].kind = "launch" => \A x \in Roles : lookup[r][x].key \in Keys
  <1>1. Busy(r) /\ Ready(r) /\ w = Path(running[r].kind)[at[r]] /\ ExecShaped
        /\ at[r] \in 1 .. Len(Path(running[r].kind)) /\ LookedUp(r)
    BY DEF At, ExecTyped, Placed
  <1>2. running[r].kind \in Kinds
    BY <1>1, BusyIs
  <1>3. Awaits(running[r].kind, at[r], w) /\ NotLast(running[r].kind, at[r], w)
    BY <1>1, <1>2, AwaitIs
  <1>4. \A x \in Roles : x \in RolesOf(running[r]) => lookup[r][x].key \in Keys
    BY <1>1 DEF LookedUp, Ready
  <1>5. /\ "a" \in Roles /\ "b" \in Roles /\ "a" \in RolesOf(running[r])
        /\ running[r].kind = "bridge" => "b" \in RolesOf(running[r])
        /\ running[r].kind = "launch" => RolesOf(running[r]) = Roles
    BY DEF Roles, RolesOf
  <1> QED BY <1>1, <1>2, <1>3, <1>4, <1>5 DEF Key

-----------------------------------------------------------------------------
(* What the transactions of an account leave alone: other accounts' money. *)
LEMMA MovedOthers ==
    ASSUME AmmTypeOK, NEW t \in Tokens, NEW from \in Holders, NEW to \in Holders, NEW amount,
           NEW h \in Holders \ {from, to}
    PROVE  Moved(t, from, to, amount)[h] = bal[t][h]
  <1>1. bal[t] \in [Holders -> Nat]
    BY DEF AmmTypeOK
  <1> QED BY <1>1 DEF Moved

LEMMA PoolFrame ==
    ASSUME AmmInv, NEW u \in Users, NEW t \in Tokens, NEW a, NEW b,
           \/ Faucet(t, u, a) \/ Approve(t, u, a)
           \/ AddLiquidity(u, a, b) \/ RemoveLiquidity(u, a) \/ Swap(u, t, a, b)
    PROVE  \A i \in Tokens, h \in Holders \ {u, Pool} : bal'[i][h] = bal[i][h]
  <1> USE DEF AmmInv
  <1>0. u \in Holders /\ Pool \in Holders /\ bal \in [Tokens -> [Holders -> Nat]]
    BY DEF Holders, AmmTypeOK
  <1> SUFFICES ASSUME NEW i \in Tokens, NEW h \in Holders \ {u, Pool}
               PROVE  bal'[i][h] = bal[i][h]
    OBVIOUS
  <1>1. CASE Faucet(t, u, a)
    BY <1>0, <1>1 DEF Faucet
  <1>2. CASE Approve(t, u, a)
    BY <1>2 DEF Approve
  <1>3. \A amount : /\ Moved(i, u, Pool, amount)[h] = bal[i][h]
                    /\ Moved(i, Pool, u, amount)[h] = bal[i][h]
    BY <1>0, MovedOthers
  <1>4. CASE AddLiquidity(u, a, b)
    <2>1. PICK m : Provide(u, a, b, m)
      BY <1>4 DEF AddLiquidity
    <2>2. bal'[i] = Moved(i, u, Pool, IF i = 0 THEN a ELSE b)
      BY <2>1 DEF Provide
    <2> QED BY <1>3, <2>2
  <1>5. CASE RemoveLiquidity(u, a)
    <2>1. bal'[i] = Moved(i, Pool, u, PaidOut(a, i))
      BY <1>5 DEF RemoveLiquidity
    <2> QED BY <1>3, <2>1
  <1>6. CASE Swap(u, t, a, b)
    <2>1. bal'[i] = IF i = t THEN Moved(i, u, Pool, a) ELSE Moved(i, Pool, u, Quote(t, a))
      BY <1>6 DEF Swap
    <2> QED BY <1>3, <2>1
  <1> QED BY <1>1, <1>2, <1>4, <1>5, <1>6

LEMMA VaultFrame ==
    ASSUME VaultInv, NEW u \in Users, NEW s, NEW a,
           UsdFaucet(u, a) \/ UsdApprove(u, a) \/ Mint(u, s, a) \/ Redeem(u, s, a)
    PROVE  \A h \in UsdHolders \ {u, Vault} : usd'[h] = usd[h]
  <1>0. usd \in [UsdHolders -> Nat] /\ u \in UsdHolders /\ Vault \in UsdHolders
    BY DEF VaultInv, VaultTypeOK, UsdHolders
  <1> SUFFICES ASSUME NEW h \in UsdHolders \ {u, Vault} PROVE usd'[h] = usd[h]
    OBVIOUS
  <1>1. CASE UsdFaucet(u, a)
    BY <1>0, <1>1 DEF UsdFaucet
  <1>2. CASE UsdApprove(u, a)
    BY <1>2 DEF UsdApprove
  <1>3. CASE Mint(u, s, a)
    BY <1>0, <1>3 DEF Mint
  <1>4. CASE Redeem(u, s, a)
    BY <1>0, <1>4 DEF Redeem
  <1> QED BY <1>1, <1>2, <1>3, <1>4

(* What is at the bridge's address. *)
Locked == usd[Sink] + bal[1][Sink]

LEMMA SinkIs ==
    ASSUME AccountsAssumption, AmmAssumption, VaultAssumption, ExecAssumption
    PROVE  /\ Sink \in UsdHolders /\ Sink \in Holders
           /\ Keys \subseteq Users /\ Trader \in Users
           /\ \A u \in Users : Sink \in UsdHolders \ {u, Vault} /\ Sink \in Holders \ {u, Pool}
           /\ \A u \in Users : u \in UsdHolders /\ u \in Holders /\ u # Sink
  BY DEF AccountsAssumption, AmmAssumption, VaultAssumption, ExecAssumption, UsdHolders, Holders, Keys

(* A transaction of the vault's dollars and of the pool's tokens, for the bridge. *)
PoolFine == AmmInv' /\ (ammVars' # ammVars => Undiluted)
VaultFine == VaultInv' /\ (vaultVars' # vaultVars => Covered)

LEMMA VaultDeal ==
    ASSUME AccountsAssumption, VaultAssumption, VaultInv, NEW u \in Users, NEW a \in Nat,
           \/ UsdFaucet(u, a) \/ UsdApprove(u, a)
           \/ \E s \in Symbols : Mint(u, s, a) \/ Redeem(u, s, a)
    PROVE  VaultFine /\ \A h \in UsdHolders \ {u, Vault} : usd'[h] = usd[h]
  <1>1. CASE UsdFaucet(u, a) \/ UsdApprove(u, a)
    BY <1>1, UsdSteps, VaultFrame DEF VaultFine
  <1>2. CASE \E s \in Symbols : Mint(u, s, a)
    BY <1>2, MintStep, VaultFrame DEF VaultFine
  <1>3. CASE \E s \in Symbols : Redeem(u, s, a)
    BY <1>3, RedeemStep, VaultFrame DEF VaultFine
  <1> QED BY <1>1, <1>2, <1>3

PoolMove(u, t, a, b) ==
    \/ Faucet(t, u, a) \/ Approve(t, u, a)
    \/ AddLiquidity(u, a, b) \/ RemoveLiquidity(u, a) \/ Swap(u, t, a, b)

PoolKept(u) == PoolFine /\ \A i \in Tokens, h \in Holders \ {u, Pool} : bal'[i][h] = bal[i][h]

LEMMA PoolDeal ==
    ASSUME AccountsAssumption, AmmAssumption, AmmInv, NEW u \in Users, NEW t \in Tokens,
           NEW a \in Nat, NEW b \in Nat, PoolMove(u, t, a, b)
    PROVE  PoolKept(u)
  <1>1. AmmInv' /\ Undiluted
    <2>1. CASE Faucet(t, u, a) \/ Approve(t, u, a)
      BY <2>1, TokenSteps
    <2>2. CASE AddLiquidity(u, a, b) \/ RemoveLiquidity(u, a)
      BY <2>2, AddLiquidityStep, RemoveLiquidityStep
    <2>3. CASE Swap(u, t, a, b)
      BY <2>3, SwapStep
    <2> QED BY <2>1, <2>2, <2>3 DEF PoolMove
  <1> QED BY <1>1, PoolFrame DEF PoolFine, PoolMove, PoolKept

(* A lock on either side adds to what is locked. *)
LEMMA LocksAdd ==
    ASSUME AccountsAssumption, AmmAssumption, VaultAssumption, ExecAssumption, AmmInv, VaultInv,
           NEW u \in Users, NEW a \in Nat
    PROVE  /\ UsdTransfer(u, Sink, a) => VaultFine /\ usd'[Sink] = usd[Sink] + a
           /\ Transfer(1, u, Sink, a) => PoolFine /\ bal'[1][Sink] = bal[1][Sink] + a
  <1>1. ASSUME UsdTransfer(u, Sink, a) PROVE VaultFine /\ usd'[Sink] = usd[Sink] + a
    <2>1. usd \in [UsdHolders -> Nat] /\ u \in UsdHolders /\ u # Sink /\ Sink \in UsdHolders
      <3>1. u \in UsdHolders /\ u # Sink /\ Sink \in UsdHolders
        BY SinkIs
      <3> QED BY <3>1 DEF VaultInv, VaultTypeOK
    <2>2. usd' = [usd EXCEPT ![u] = @ - a, ![Sink] = @ + a]
      BY <1>1 DEF UsdTransfer
    <2>3. usd'[Sink] = usd[Sink] + a
      BY <2>1, <2>2
    <2>4. VaultFine
      BY <1>1, UsdSteps DEF VaultFine
    <2> QED BY <2>3, <2>4
  <1>2. ASSUME Transfer(1, u, Sink, a) PROVE PoolFine /\ bal'[1][Sink] = bal[1][Sink] + a
    <2>1. u \in Holders /\ u # Sink /\ Sink \in Holders /\ 1 \in Tokens
      BY DEF Holders, AccountsAssumption
    <2>0. AmmTypeOK /\ bal \in [Tokens -> [Holders -> Nat]]
      BY DEF AmmInv, AmmTypeOK
    <2>2. bal[1][u] >= a /\ bal' = [bal EXCEPT ![1] = Moved(1, u, Sink, a)]
      BY <1>2 DEF Transfer
    <2>3. Moved(1, u, Sink, a)[Sink] = bal[1][Sink] + a
      <3>1. Moved(1, u, Sink, a) = [bal[1] EXCEPT ![u] = @ - a, ![Sink] = @ + a]
        BY DEF Moved
      <3>2. bal[1] \in [Holders -> Nat]
        BY <2>0, <2>1
      <3> QED BY <2>1, <3>1, <3>2
    <2>4. bal'[1] = Moved(1, u, Sink, a)
      BY <2>0, <2>1, <2>2
    <2>5. PoolFine
      BY <1>2, <2>1, TokenSteps DEF PoolFine
    <2> QED BY <2>3, <2>4, <2>5
  <1> QED BY <1>1, <1>2

-----------------------------------------------------------------------------
(* What a mined transaction of a request does to the contracts and the bridge. *)
Owes(r, w) == IF At(r, w) THEN running[r].amount ELSE 0

ChainFine == PoolFine /\ VaultFine

ExecAssumptions == AccountsAssumption /\ AmmAssumption /\ VaultAssumption /\ ExecAssumption

LEMMA LockedIs ==
    ASSUME ExecAssumptions, AmmInv, VaultInv
    PROVE  usd[Sink] \in Nat /\ bal[1][Sink] \in Nat /\ Locked \in Nat
  <1>1. Sink \in UsdHolders /\ Sink \in Holders
    BY SinkIs DEF ExecAssumptions
  <1>2. usd \in [UsdHolders -> Nat] /\ bal \in [Tokens -> [Holders -> Nat]]
    BY DEF VaultInv, VaultTypeOK, AmmInv, AmmTypeOK
  <1>3. usd[Sink] \in Nat /\ bal[1][Sink] \in Nat
    BY <1>1, <1>2
  <1> QED BY <1>3 DEF Locked

LEMMA OnVaultIs ==
    ASSUME ExecAssumptions, ExecTyped, NEW r \in Requests, OnVault(r),
           UNCHANGED <<ammVars, released>>
    PROVE  ChainFine /\ Locked' = Locked + Owes(r, "lock") /\ ~ At(r, "release")
  <1> DEFINE q == running[r]
             k == Key(r)
  <1>0. PICK w : /\ At(r, w) /\ w \in {"usdFaucet", "usdApprove", "mint", "redeem", "fill", "lock"}
                 /\ \/ w = "usdFaucet" /\ UsdFaucet(k, q.amount)
                    \/ w = "usdApprove" /\ UsdApprove(k, q.amount)
                    \/ w = "mint" /\ Mint(k, q.sym, q.amount)
                    \/ w = "redeem" /\ Redeem(k, q.sym, q.amount)
                    \/ w = "fill" /\ UsdFaucet(k, q.amount)
                    \/ w = "lock" /\ UsdTransfer(k, Sink, q.amount)
    BY DEF OnVault
  <1>1. /\ Busy(r) /\ q.kind \in Kinds /\ Awaits(q.kind, at[r], w) /\ k \in Keys
        /\ ExecShaped /\ AmmInv /\ VaultInv
    BY <1>0, AtIs DEF ExecTyped
  <1>2. q \in Deal /\ q.amount \in Nat /\ (q.kind \in {"buy", "sell"} => q.sym \in Symbols)
    <2>1. q.kind # "launch"
      BY <1>0, <1>1 DEF Awaits
    <2> QED BY <1>1, <2>1, BusyIs, DealIs
  <1>3. k \in Users /\ Sink \in UsdHolders \ {k, Vault}
    BY <1>1, SinkIs DEF ExecAssumptions
  <1>4. w \in {"mint", "redeem"} => q.sym \in Symbols
    BY <1>1, <1>2 DEF Awaits
  <1>5. ~ At(r, "release") /\ (At(r, "lock") <=> w = "lock")
    BY <1>0 DEF At
  <1>6. PoolFine /\ bal' = bal
    BY <1>1 DEF PoolFine, ammVars, AmmInv, AmmTypeOK, PoolBacked
  <1>7. usd[Sink] \in Nat /\ bal[1][Sink] \in Nat
    BY <1>1, LockedIs
  <1> HIDE DEF q, k
  <1>8. CASE w = "lock"
    <2>1. VaultFine /\ usd'[Sink] = usd[Sink] + q.amount
      BY <1>0, <1>1, <1>2, <1>3, <1>8, LocksAdd DEF ExecAssumptions
    <2>2. Owes(r, "lock") = q.amount
      BY <1>5, <1>8 DEF Owes, q
    <2> QED BY <1>2, <1>5, <1>6, <1>7, <2>1, <2>2 DEF Locked, ChainFine
  <1>9. CASE w # "lock"
    <2>1. \/ UsdFaucet(k, q.amount) \/ UsdApprove(k, q.amount)
          \/ \E s \in Symbols : Mint(k, s, q.amount) \/ Redeem(k, s, q.amount)
      BY <1>0, <1>4, <1>9
    <2>2. VaultFine /\ usd'[Sink] = usd[Sink]
      BY <1>1, <1>2, <1>3, <2>1, VaultDeal DEF ExecAssumptions
    <2>3. Owes(r, "lock") = 0
      BY <1>5, <1>9 DEF Owes
    <2> QED BY <1>5, <1>6, <1>7, <2>2, <2>3 DEF Locked, ChainFine
  <1> QED BY <1>8, <1>9

LEMMA OnPoolIs ==
    ASSUME ExecAssumptions, ExecTyped, NEW r \in Requests, OnPool(r),
           UNCHANGED <<vaultVars, released>>
    PROVE  ChainFine /\ Locked' = Locked + Owes(r, "lock") /\ ~ At(r, "release")
  <1> DEFINE q == running[r]
             k == Key(r)
             m == memory[r]
  <1>0. PICK w : /\ At(r, w)
                 /\ w \in {"faucet", "approve", "swap", "approve0", "approve1", "add", "fill", "lock"}
                 /\ \/ w = "faucet" /\ Faucet(In(q), k, q.amount)
                    \/ w = "approve" /\ Approve(In(q), k, Spent(q))
                    \/ w = "swap" /\ Swap(k, In(q), Spent(q), m.least)
                    \/ w = "approve0" /\ Approve(0, k, m.put0)
                    \/ w = "approve1" /\ Approve(1, k, m.put1)
                    \/ w = "add" /\ AddLiquidity(k, m.put0, m.put1)
                    \/ w = "fill" /\ Faucet(1, k, q.amount)
                    \/ w = "lock" /\ Transfer(1, k, Sink, q.amount)
    BY DEF OnPool
  <1>1. /\ Busy(r) /\ q.kind \in Kinds /\ Awaits(q.kind, at[r], w) /\ k \in Keys
        /\ ExecShaped /\ AmmInv /\ VaultInv
    BY <1>0, AtIs DEF ExecTyped
  <1>2. q.amount \in Nat /\ In(q) \in Tokens /\ Spent(q) \in Nat
    <2>1. q.kind # "launch"
      BY <1>0, <1>1 DEF Awaits
    <2> QED BY <1>1, <2>1, BusyIs, DealIs
  <1>3. m.least \in Nat /\ m.put0 \in Nat /\ m.put1 \in Nat /\ 0 \in Tokens /\ 1 \in Tokens
    BY <1>1 DEF ExecShaped, Numbers
  <1>4. k \in Users /\ Sink \in Holders \ {k, Pool}
    BY <1>1, SinkIs DEF ExecAssumptions
  <1>5. ~ At(r, "release") /\ (At(r, "lock") <=> w = "lock")
    BY <1>0 DEF At
  <1>6. VaultFine /\ usd' = usd
    BY <1>1 DEF VaultFine, vaultVars, VaultInv, VaultTypeOK
  <1>7. usd[Sink] \in Nat /\ bal[1][Sink] \in Nat
    BY <1>1, LockedIs
  <1> HIDE DEF q, k, m
  <1>10. AccountsAssumption /\ AmmAssumption /\ VaultAssumption /\ ExecAssumption
    BY DEF ExecAssumptions
  <1>8. CASE w = "lock"
    <2>1. PoolFine /\ bal'[1][Sink] = bal[1][Sink] + q.amount
      <3>1. Transfer(1, k, Sink, q.amount)
        BY <1>0, <1>8
      <3> QED BY <1>1, <1>2, <1>4, <1>10, <3>1, LocksAdd
    <2>2. Owes(r, "lock") = q.amount
      BY <1>5, <1>8 DEF Owes, q
    <2> QED BY <1>2, <1>5, <1>6, <1>7, <2>1, <2>2 DEF Locked, ChainFine
  <1>9. CASE w # "lock"
    <2>1. PICK t \in Tokens, a \in Nat, b \in Nat : PoolMove(k, t, a, b)
      BY <1>0, <1>2, <1>3, <1>9 DEF PoolMove
    <2>4. PoolKept(k)
      BY <1>1, <1>4, <1>10, <2>1, PoolDeal
    <2>2. PoolFine /\ bal'[1][Sink] = bal[1][Sink]
      BY <1>3, <1>4, <2>4 DEF PoolKept
    <2>3. Owes(r, "lock") = 0
      BY <1>5, <1>9 DEF Owes
    <2> QED BY <1>5, <1>6, <1>7, <2>2, <2>3 DEF Locked, ChainFine
  <1> QED BY <1>8, <1>9

LEMMA ReleaseIs ==
    ASSUME ExecAssumptions, ExecTyped, NEW r \in Requests, Release(r)
    PROVE  ChainFine /\ Locked' = Locked /\ ~ At(r, "lock")
           /\ released' = released + Owes(r, "release")
  <1> DEFINE q == running[r]
             k == lookup[r]["b"].key
  <1>0. At(r, "release")
    BY DEF Release
  <1>1. /\ Busy(r) /\ q.kind = "bridge" /\ k \in Keys
        /\ ExecShaped /\ AmmInv /\ VaultInv
    BY <1>0, AtIs DEF ExecTyped, Awaits
  <1>2. q.amount \in Nat /\ 1 \in Tokens
    BY <1>1, BusyIs, DealIs
  <1>3. k \in Users /\ Sink \in Holders \ {k, Pool} /\ Sink \in UsdHolders \ {k, Vault}
    BY <1>1, SinkIs DEF ExecAssumptions
  <1>4. ~ At(r, "lock")
    BY <1>0 DEF At
  <1>5. released' = released + Owes(r, "release")
    BY <1>0 DEF Release, Owes
  <1>6. CASE UsdFaucet(k, q.amount) /\ UNCHANGED ammVars
    <2> HIDE DEF q, k
    <2>1. VaultFine /\ usd'[Sink] = usd[Sink]
      BY <1>1, <1>2, <1>3, <1>6, VaultDeal DEF ExecAssumptions
    <2>2. PoolFine /\ bal' = bal
      BY <1>1, <1>6 DEF PoolFine, ammVars, AmmInv, AmmTypeOK, PoolBacked
    <2> QED BY <1>4, <1>5, <2>1, <2>2 DEF Locked, ChainFine
  <1>7. CASE Faucet(1, k, q.amount) /\ UNCHANGED vaultVars
    <2> HIDE DEF q, k
    <2>1. PoolFine /\ bal'[1][Sink] = bal[1][Sink]
      <3>1. AccountsAssumption /\ AmmAssumption
        BY DEF ExecAssumptions
      <3>2. PoolMove(k, 1, q.amount, q.amount)
        BY <1>7 DEF PoolMove
      <3>3. PoolKept(k)
        BY <1>1, <1>2, <1>3, <3>1, <3>2, PoolDeal
      <3> QED BY <1>2, <1>3, <3>3 DEF PoolKept
    <2>2. VaultFine /\ usd' = usd
      BY <1>1, <1>7 DEF VaultFine, vaultVars, VaultInv, VaultTypeOK
    <2> QED BY <1>4, <1>5, <2>1, <2>2 DEF Locked, ChainFine
  <1> QED BY <1>6, <1>7 DEF Release

(* A mined transaction leaves the contracts in order; it locks at the second await of a *)
(* bridge and mints on the destination at the third.                                    *)
LEMMA MinedIs ==
    ASSUME ExecAssumptions, ExecTyped, NEW r \in Requests, Mined(r)
    PROVE  ChainFine /\ Locked' = Locked + Owes(r, "lock")
           /\ released' = released + Owes(r, "release")
  <1>0. released \in Nat /\ Locked \in Int
    <2>1. AmmInv /\ VaultInv /\ released \in Nat
      BY DEF ExecTyped, ExecShaped
    <2> QED BY <2>1, LockedIs
  <1>1. CASE OnVault(r) /\ UNCHANGED <<ammVars, released>>
    <2>1. Owes(r, "release") = 0 /\ released' = released
      BY <1>1, OnVaultIs DEF Owes
    <2> QED BY <1>0, <1>1, <2>1, OnVaultIs
  <1>2. CASE OnPool(r) /\ UNCHANGED <<vaultVars, released>>
    <2>1. Owes(r, "release") = 0 /\ released' = released
      BY <1>2, OnPoolIs DEF Owes
    <2> QED BY <1>0, <1>2, <2>1, OnPoolIs
  <1>3. CASE Release(r)
    <2>1. Owes(r, "lock") = 0
      BY <1>3, ReleaseIs DEF Owes
    <2> QED BY <1>0, <1>3, <2>1, ReleaseIs
  <1> QED BY <1>1, <1>2, <1>3 DEF Mined

-----------------------------------------------------------------------------
(* The invariant. *)

(* An action that ran alone so far is the only one under way. *)
AloneInv == \A r \in Requests : alone[r] /\ Busy(r) => \A o \in Requests \ {r} : ~ Busy(o)

(* Its wallet holds what it held when it was measured, seen or missed, and what the *)
(* trade paid; of liquidity, what was minted for it and is not swapped as well.      *)
Before0(r) == memory[r].before0 + memory[r].missed0
Before1(r) == memory[r].before1 + memory[r].missed1

Honest(r) ==
    LET q == running[r]  k == Key(r)  m == memory[r] IN
    /\ at[r] = 1 => gained[r] = 0
    /\ q.kind = "buy" /\ at[r] > 1 => /\ stock[q.sym][k] = Before0(r) + gained[r]
                                      /\ at[r] < 5 => gained[r] = 0
    /\ q.kind = "sell" /\ at[r] > 1 => /\ usd[k] = Before0(r) + gained[r]
                                       /\ at[r] < 3 => gained[r] = 0
    /\ q.kind = "lp" => /\ at[r] \in 2 .. 5 => bal[0][k] = Before0(r) + gained[r]
                        /\ at[r] \in 2 .. 4 => gained[r] = 0
                        /\ at[r] = 2 => bal[1][k] = Before1(r)
                        /\ at[r] \in 3 .. 4 => bal[1][k] = Before1(r) + q.amount
                        /\ at[r] = 5 => /\ bal[1][k] = Before1(r) + (q.amount - Spent(q))
                                        /\ Spent(q) > 0
                        /\ at[r] > 5 /\ gained[r] > 0 =>
                              /\ m.put0 = gained[r] + m.missed0
                              /\ m.put1 = (q.amount - Spent(q)) + m.missed1

HonestInv == \A r \in Requests : alone[r] /\ Busy(r) => Honest(r)

(* What is locked pays for what was released and for the bridges that have locked and *)
(* not released yet.                                                                  *)
Held == {r \in Requests : running[r].kind = "bridge" /\ at[r] = 3}
Amounts == [r \in Requests |-> IF running[r] \in Deal THEN running[r].amount ELSE 0]
BridgeInv == IsFiniteSet(Held) /\ released + SumOver(Amounts, Held) <= Locked

(* Request o is as it was. *)
Same(o) == /\ running'[o] = running[o] /\ at'[o] = at[o] /\ lookup'[o] = lookup[o]
           /\ memory'[o] = memory[o] /\ gained'[o] = gained[o]

LEMMA SameKeeps ==
    ASSUME NEW o \in Requests, Same(o)
    PROVE  /\ Busy(o)' <=> Busy(o)
           /\ Placed(o) => Placed(o)'
           /\ LookedUp(o) => LookedUp(o)'
  <1>1. Busy(o)' <=> Busy(o)
    BY DEF Same, Busy
  <1>2. Ready(o)' <=> Ready(o)
    BY DEF Same, Ready
  <1> QED BY <1>1, <1>2 DEF Same, Placed, LookedUp

(* A request goes on to a deal or to the plan of a launch, or is done. *)
Deals(next) == \/ next = <<>>
               \/ Head(next) \in Deal \union LaunchOrder /\ Tail(next) \in Seq(Deal)

LEMMA DealsAre ==
    /\ \A next \in Seq(Deal) : Deals(next)
    /\ \A q \in Deal \union LaunchOrder : Deals(<<q>>)
  <1>1. ASSUME NEW next \in Seq(Deal) PROVE Deals(next)
    BY DEF Deals
  <1>2. ASSUME NEW q PROVE Head(<<q>>) = q /\ Tail(<<q>>) = <<>> /\ <<>> \in Seq(Deal)
    OBVIOUS
  <1> QED BY <1>1, <1>2 DEF Deals

(* What GoOn leaves behind. *)
WentOn(r, next) ==
    /\ \A o \in Requests \ {r} : Same(o)
    /\ gained'[r] = 0 /\ at'[r] \in {0, 1}
    /\ next = <<>> => ~ Busy(r)'
    /\ \A o \in Requests : Busy(o)' /\ alone'[o] =>
          IF o = r THEN \A other \in Requests \ {r} : ~ Busy(other) ELSE alone[o] /\ next = <<>>

LEMMA GoOnIs ==
    ASSUME ExecShaped, \A o \in Requests : Placed(o) /\ LookedUp(o),
           NEW r \in Requests, NEW next, NEW results, Deals(next), GoOn(r, next, results),
           released' \in Nat, stored' = stored
    PROVE  /\ ExecShaped' /\ \A o \in Requests : Placed(o)' /\ LookedUp(o)'
           /\ WentOn(r, next)
  <1> DEFINE q == IF next = <<>> THEN Done ELSE Head(next)
             looks == IF next = <<>> THEN NoLookups ELSE LookUp(Head(next))
             place == IF next = <<>> THEN 0 ELSE 1
  <1>1. /\ q \in Work
        /\ next # <<>> => q.kind \in Kinds
        /\ next = <<>> => q.kind = "done"
    BY DealIs DEF Deals, Work, Done, LaunchOrder, Kinds
  <1>2. /\ looks \in [Roles -> [st : LookupStates, key : Keys \union {NoKey}]]
        /\ \A x \in Roles : looks[x].st \in {"off", "todo"}
        /\ next # <<>> => \A x \in RolesOf(q) : looks[x].st = "todo"
    <2>1. \A p : RolesOf(p) \subseteq Roles
      BY DEF RolesOf, Roles
    <2> QED BY <2>1 DEF NoLookups, LookUp, LookupStates
  <1>3. (IF next = <<>> THEN <<>> ELSE Tail(next)) \in Seq(Deal)
    BY DEF Deals
  <1>4. NoMemory \in Numbers
    BY DEF NoMemory, Numbers
  <1>5. \A kind \in Kinds : 1 \in 1 .. Len(Path(kind))
    <2>1. Len(Path("buy")) = 5 /\ Len(Path("sell")) = 3 /\ Len(Path("swap")) = 5
      BY PathsAre
    <2>2. Len(Path("lp")) = 9
      BY PathsAre
    <2>3. Len(Path("bridge")) = 4 /\ Len(Path("launch")) = 1
      BY PathsAre
    <2> HIDE DEF Path
    <2>4. \A kind \in Kinds : Len(Path(kind)) \in 1 .. 9
      BY <2>1, <2>2, <2>3 DEF Kinds
    <2>5. \A n \in 1 .. 9 : 1 \in 1 .. n
      OBVIOUS
    <2> QED BY <2>4, <2>5
  <1>6. /\ running' = [running EXCEPT ![r] = q] /\ lookup' = [lookup EXCEPT ![r] = looks]
        /\ at' = [at EXCEPT ![r] = place] /\ memory' = [memory EXCEPT ![r] = NoMemory]
        /\ todo' = [todo EXCEPT ![r] = IF next = <<>> THEN <<>> ELSE Tail(next)]
        /\ gained' = [gained EXCEPT ![r] = 0]
        /\ alone' = [o \in Requests |->
                       IF o = r THEN next # <<>> /\ \A other \in Requests \ {r} : ~ Busy(other)
                       ELSE alone[o] /\ next = <<>>]
    BY DEF GoOn
  <1>7. place \in {0, 1} /\ (next # <<>> => place = 1) /\ (next = <<>> => place = 0)
    OBVIOUS
  <1> HIDE DEF q, looks, place
  <1>8. /\ running'[r] = q /\ lookup'[r] = looks /\ at'[r] = place
        /\ gained'[r] = 0
    BY <1>6 DEF ExecShaped
  <1>9. \A o \in Requests \ {r} : Same(o)
    BY <1>6 DEF ExecShaped, Same
  <1>10. ExecShaped'
    <2>1. running' \in [Requests -> Work]
      BY <1>1, <1>6 DEF ExecShaped
    <2>2. lookup' \in [Requests -> [Roles -> [st : LookupStates, key : Keys \union {NoKey}]]]
      BY <1>2, <1>6 DEF ExecShaped
    <2>3. at' \in [Requests -> Nat] /\ gained' \in [Requests -> Nat]
      BY <1>6, <1>7 DEF ExecShaped
    <2>4. memory' \in [Requests -> Numbers] /\ todo' \in [Requests -> Seq(Deal)]
      BY <1>3, <1>4, <1>6 DEF ExecShaped
    <2>5. alone' \in [Requests -> BOOLEAN]
      <3>1. \A o \in Requests :
              (IF o = r THEN next # <<>> /\ \A other \in Requests \ {r} : ~ Busy(other)
               ELSE alone[o] /\ next = <<>>) \in BOOLEAN
        OBVIOUS
      <3> QED BY <1>6, <3>1
    <2> QED BY <2>1, <2>2, <2>3, <2>4, <2>5 DEF ExecShaped
  <1>11. Busy(r)' <=> next # <<>>
    BY <1>1, <1>8 DEF Busy, Kinds
  <1>12. Placed(r)' /\ LookedUp(r)'
    <2>1. Placed(r)'
      BY <1>1, <1>5, <1>7, <1>8, <1>11 DEF Placed
    <2>2. ~ (at'[r] > 1)
      BY <1>7, <1>8
    <2>3. Busy(r)' => \A x \in RolesOf(running'[r]) : lookup'[r][x].st # "off"
      BY <1>2, <1>8, <1>11
    <2>4. \A x \in Roles : lookup'[r][x].st \notin {"insert", "fund", "ready"}
      BY <1>2, <1>8
    <2> QED BY <2>1, <2>2, <2>3, <2>4 DEF LookedUp
  <1>13. \A o \in Requests : Placed(o)' /\ LookedUp(o)'
    BY <1>9, <1>12, SameKeeps
  <1>14. \A o \in Requests : Busy(o)' /\ alone'[o] =>
          IF o = r THEN \A other \in Requests \ {r} : ~ Busy(other) ELSE alone[o] /\ next = <<>>
    BY <1>6
  <1>15. WentOn(r, next)
    BY <1>7, <1>8, <1>9, <1>11, <1>14 DEF WentOn
  <1> QED BY <1>10, <1>13, <1>15

(* The sum over the bridges that have locked, when one request moves. *)
Owed(r) == IF r \in Held THEN running[r].amount ELSE 0

LEMMA HeldSum ==
    ASSUME ExecShaped, ExecShaped', IsFiniteSet(Held), NEW r \in Requests,
           \A o \in Requests \ {r} : running'[o] = running[o] /\ at'[o] = at[o]
    PROVE  /\ IsFiniteSet(Held)' /\ Owed(r) \in Nat /\ Owed(r)' \in Nat
           /\ SumOver(Amounts, Held) \in Int
           /\ SumOver(Amounts, Held)' = SumOver(Amounts, Held) - Owed(r) + Owed(r)'
  <1> DEFINE rest == Held \ {r}
             now == Amounts
             then == Amounts'
  <1>1. /\ Held \in SUBSET Requests /\ Held' \in SUBSET Requests
        /\ Held' \ {r} = rest /\ IsFiniteSet(rest) /\ rest \in SUBSET Requests
    <2>1. rest \in SUBSET Held
      OBVIOUS
    <2>2. IsFiniteSet(rest)
      BY <2>1, FS_Subset
    <2> QED BY <2>2 DEF Held
  <1>2. now \in [Requests -> Int] /\ then \in [Requests -> Int]
    BY DealIs DEF Amounts
  <1>3. \A o \in rest : then[o] = now[o]
    BY <1>1 DEF Amounts
  <1>4. /\ Owed(r) = IF r \in Held THEN now[r] ELSE 0
        /\ Owed(r)' = IF r \in Held' THEN then[r] ELSE 0
        /\ Owed(r) \in Nat /\ Owed(r)' \in Nat
    <2>1. ASSUME NEW q \in Work, q.kind = "bridge" PROVE q \in Deal /\ q.amount \in Nat
      BY <2>1, DealIs DEF Work, LaunchOrder, Idle, Done
    <2>2. running[r] \in Work /\ running'[r] \in Work
      BY DEF ExecShaped
    <2> QED BY <2>1, <2>2 DEF Owed, Held, Amounts
  <1>5. Held = rest \/ (r \in Held /\ Held = rest \union {r})
    OBVIOUS
  <1>6. Held' = rest \/ (r \in Held' /\ Held' = rest \union {r})
    BY <1>1
  <1>7. r \notin rest /\ IsFiniteSet(rest \union {r})
    BY <1>1, FS_AddElement
  <1> HIDE DEF rest, now, then
  <1>8. /\ SumOver(now, rest \union {r}) = now[r] + SumOver(now, rest)
        /\ SumOver(then, rest \union {r}) = then[r] + SumOver(then, rest)
        /\ SumOver(now, rest) \in Int
    <2>1. r \in Requests \ rest
      BY <1>7
    <2>2. SumOver(now, rest) \in Int
      BY <1>1, <1>2, SumOverRemove
    <2> QED BY <1>1, <1>2, <2>1, <2>2, SumOverAdd
  <1>9. SumOver(then, rest) = SumOver(now, rest)
    BY <1>1, <1>3, SumOverSame
  <1>10. now[r] \in Int /\ then[r] \in Int
    BY <1>2
  <1>11. SumOver(now, Held) = Owed(r) + SumOver(now, rest)
    <2>1. CASE r \in Held
      <3>1. Held = rest \union {r} /\ Owed(r) = now[r]
        BY <1>4, <1>5, <1>7, <2>1
      <3> QED BY <1>8, <3>1
    <2>2. CASE r \notin Held
      <3>1. Held = rest /\ Owed(r) = 0
        BY <1>4, <1>5, <2>2
      <3> QED BY <1>8, <3>1
    <2> QED BY <2>1, <2>2
  <1>12. SumOver(then, Held') = Owed(r)' + SumOver(then, rest)
    <2>1. CASE r \in Held'
      <3>1. Held' = rest \union {r} /\ Owed(r)' = then[r]
        BY <1>4, <1>6, <1>7, <2>1
      <3> QED BY <1>8, <3>1
    <2>2. CASE r \notin Held'
      <3>1. Held' = rest /\ Owed(r)' = 0
        BY <1>4, <1>6, <2>2
      <3> QED BY <1>8, <1>9, <3>1
    <2> QED BY <2>1, <2>2
  <1>13. IsFiniteSet(Held')
    BY <1>1, <1>6, <1>7
  <1>14. SumOver(Amounts, Held) = SumOver(now, Held)
    BY DEF now
  <1>15. SumOver(Amounts, Held)' = SumOver(then, Held')
    BY DEF then
  <1> QED BY <1>4, <1>8, <1>9, <1>11, <1>12, <1>13, <1>14, <1>15

(* A transaction of a bridge is its lock before it is held, or its release. *)
LEMMA OwesIs ==
    ASSUME ExecAssumptions, ExecTyped, NEW r \in Requests, NEW w, At(r, w)
    PROVE  /\ Owes(r, "release") = Owed(r)
           /\ Owes(r, "lock") = IF running[r].kind = "bridge" /\ at[r] = 2 THEN running[r].amount ELSE 0
           /\ Owes(r, "lock") \in Nat
  <1> DEFINE here == Path(running[r].kind)[at[r]]
  <1>1. Awaits(running[r].kind, at[r], here) /\ Busy(r) /\ Ready(r)
    BY AtIs DEF At
  <1>2. \A v : At(r, v) <=> here = v
    BY <1>1 DEF At
  <1> HIDE DEF here
  <1>3. (here = "lock" <=> running[r].kind = "bridge" /\ at[r] = 2)
        /\ (here = "release" <=> running[r].kind = "bridge" /\ at[r] = 3)
    BY <1>1 DEF Awaits
  <1>4. running[r].kind = "bridge" => running[r].amount \in Nat
    BY <1>1, BusyIs, DealIs DEF ExecTyped
  <1> QED BY <1>2, <1>3, <1>4 DEF Owes, Owed, Held

LEMMA MinedIsAt ==
    ASSUME NEW r \in Requests, Mined(r)
    PROVE  Busy(r) /\ \E w : At(r, w) /\ w \notin {"report", "plan"}
  <1>1. \E w : At(r, w) /\ w \notin {"report", "plan"}
    <2>1. CASE OnVault(r)
      BY <2>1 DEF OnVault
    <2>2. CASE OnPool(r)
      BY <2>2 DEF OnPool
    <2>3. CASE Release(r)
      BY <2>3 DEF Release
    <2> QED BY <2>1, <2>2, <2>3 DEF Mined
  <1> QED BY <1>1 DEF At

(* A request that is as it was, and whose wallet holds what it held, is as honest. *)
LEMMA HonestSame ==
    ASSUME NEW o \in Requests, Same(o), Honest(o), ExecShaped, Busy(o),
           at[o] > 1 => /\ \A s \in Symbols : stock'[s][Key(o)] = stock[s][Key(o)]
                        /\ usd'[Key(o)] = usd[Key(o)]
                        /\ \A t \in Tokens : bal'[t][Key(o)] = bal[t][Key(o)]
    PROVE  Honest(o)'
  <1>1. Key(o)' = Key(o)
    BY DEF Same, Key
  <1>2. running[o].kind = "buy" => running[o].sym \in Symbols
    <2>1. running[o].kind = "buy" => running[o] \in Deal
      BY BusyIs
    <2> QED BY <2>1, DealIs
  <1>3. at[o] \in Nat
    BY DEF ExecShaped
  <1>4. (at[o] \in 2 .. 5 => at[o] > 1) /\ (at[o] \in 3 .. 4 => at[o] > 1)
        /\ (at[o] = 2 => at[o] > 1) /\ (at[o] = 5 => at[o] > 1)
    BY <1>3
  <1>5. /\ running'[o] = running[o] /\ at'[o] = at[o] /\ memory'[o] = memory[o]
        /\ gained'[o] = gained[o] /\ Before0(o)' = Before0(o) /\ Before1(o)' = Before1(o)
    BY DEF Same, Before0, Before1
  <1>6. 0 \in Tokens /\ 1 \in Tokens
    BY DEF Tokens
  <1> QED BY <1>1, <1>2, <1>4, <1>5, <1>6 DEF Honest

ExecInv == ExecTyped /\ AloneInv /\ HonestInv /\ BridgeInv

LEMMA GoOnKeeps ==
    ASSUME ExecAssumptions, ExecInv, NEW r \in Requests, NEW next, NEW results, Deals(next),
           GoOn(r, next, results), stored' = stored,
           UNCHANGED <<ammVars, vaultVars, released>> \/ Mined(r)
    PROVE  ExecInv' /\ ChainFine
  <1>0. ExecTyped /\ ExecShaped /\ AmmInv /\ VaultInv /\ released \in Nat
        /\ (\A o \in Requests : Placed(o) /\ LookedUp(o))
    BY DEF ExecInv, ExecTyped, ExecShaped
  <1>1. ASSUME Mined(r)
        PROVE  /\ ChainFine /\ Busy(r) /\ Owes(r, "lock") \in Nat /\ Owed(r) = Owes(r, "release")
               /\ Locked' = Locked + Owes(r, "lock") /\ released' = released + Owes(r, "release")
    BY <1>0, <1>1, MinedIs, MinedIsAt, OwesIs
  <1>2. ChainFine
    <2>1. CASE UNCHANGED <<ammVars, vaultVars, released>>
      BY <1>0, <2>1 DEF ChainFine, PoolFine, VaultFine, ammVars, vaultVars, AmmInv, AmmTypeOK,
                        PoolBacked, VaultInv, VaultTypeOK
    <2> QED BY <1>1, <2>1
  <1>3. released' \in Nat
    <2>1. ASSUME Mined(r) PROVE Owes(r, "release") \in Nat
      <3>1. Busy(r) /\ (At(r, "release") => running[r].kind = "bridge")
        BY <1>0, <1>1, <2>1, AtIs DEF Awaits
      <3> QED BY <1>0, <3>1, BusyIs, DealIs DEF Owes
    <2> QED BY <1>0, <1>1, <2>1
  <1>4. ExecShaped' /\ (\A o \in Requests : Placed(o)' /\ LookedUp(o)') /\ WentOn(r, next)
    BY <1>0, <1>3, GoOnIs
  <1>5. ExecTyped'
    BY <1>2, <1>4 DEF ExecTyped, ChainFine, PoolFine, VaultFine
  <1>6. AloneInv'
    <2> SUFFICES ASSUME NEW o \in Requests, alone'[o], Busy(o)', NEW p \in Requests \ {o}
                 PROVE  ~ Busy(p)'
      BY DEF AloneInv
    <2>1. CASE o = r
      BY <1>4, <2>1, SameKeeps DEF WentOn
    <2>2. CASE o # r
      <3>1. alone[o] /\ next = <<>> /\ Busy(o) /\ Same(o) /\ ~ Busy(r)'
        BY <1>4, <2>2, SameKeeps DEF WentOn
      <3>2. \A x \in Requests \ {o} : ~ Busy(x)
        BY <3>1 DEF ExecInv, AloneInv
      <3> QED BY <1>4, <3>1, <3>2, SameKeeps DEF WentOn
    <2> QED BY <2>1, <2>2
  <1>7. HonestInv'
    <2> SUFFICES ASSUME NEW o \in Requests, alone'[o], Busy(o)' PROVE Honest(o)'
      BY DEF HonestInv
    <2>1. CASE o = r
      <3>1. gained'[r] = 0 /\ at'[r] \in {0, 1}
        BY <1>4 DEF WentOn
      <3> QED BY <2>1, <3>1 DEF Honest
    <2>2. CASE o # r
      <3>1. alone[o] /\ Busy(o) /\ Same(o) /\ Honest(o)
        BY <1>4, <2>2, SameKeeps DEF WentOn, ExecInv, HonestInv
      <3>2. ~ Busy(r)
        BY <2>2, <3>1 DEF ExecInv, AloneInv
      <3>3. stock' = stock /\ usd' = usd /\ bal' = bal
        BY <1>1, <3>2 DEF ammVars, vaultVars
      <3> QED BY <1>0, <3>1, <3>3, HonestSame
    <2> QED BY <2>1, <2>2
  <1>8. BridgeInv'
    <2>1. \A o \in Requests \ {r} : running'[o] = running[o] /\ at'[o] = at[o]
      BY <1>4 DEF WentOn, Same
    <2>2. IsFiniteSet(Held) /\ released + SumOver(Amounts, Held) <= Locked
      BY DEF ExecInv, BridgeInv
    <2>3. /\ IsFiniteSet(Held)' /\ Owed(r) \in Nat
          /\ SumOver(Amounts, Held) \in Int
          /\ SumOver(Amounts, Held)' = SumOver(Amounts, Held) - Owed(r) + Owed(r)'
      BY <1>0, <1>4, <2>1, <2>2, HeldSum
    <2>4. Owed(r)' = 0
      BY <1>4 DEF WentOn, Owed, Held
    <2>5. Locked \in Nat
      BY <1>0, LockedIs
    <2>6. CASE UNCHANGED <<ammVars, vaultVars, released>>
      <3>1. Locked' = Locked /\ released' = released
        BY <2>6 DEF Locked, ammVars, vaultVars
      <3> QED BY <1>0, <2>2, <2>3, <2>4, <2>5, <3>1 DEF BridgeInv
    <2>7. CASE Mined(r)
      <3>1. /\ Owes(r, "lock") \in Nat /\ Locked' = Locked + Owes(r, "lock")
            /\ released' = released + Owed(r)
        BY <1>1, <2>7
      <3> QED BY <1>0, <2>2, <2>3, <2>4, <2>5, <3>1 DEF BridgeInv
    <2> QED BY <2>6, <2>7
  <1> QED BY <1>2, <1>5, <1>6, <1>7, <1>8 DEF ExecInv

(* A wallet is looked up, which no request that measured anything still does. *)
LEMMA LookupKeeps ==
    ASSUME ExecAssumptions, ExecInv, NEW r \in Requests, NEW x \in Roles,
           SelectWallet(r, x) \/ InsertWallet(r, x) \/ FundWallet(r, x) \/ LookupFails(r, x)
    PROVE  ExecInv' /\ ChainFine
  <1>0. ExecTyped /\ ExecShaped /\ AmmInv /\ VaultInv
        /\ (\A o \in Requests : Placed(o) /\ LookedUp(o))
    BY DEF ExecInv, ExecTyped
  <1>1. /\ UNCHANGED <<ammVars, vaultVars, todo, running, at, memory, gained, alone, released>>
        /\ lookup[r][x].st \in {"todo", "insert", "fund"}
    BY DEF SelectWallet, InsertWallet, FundWallet, LookupFails, Due
  <1> DEFINE News == {new \in [st : LookupStates \ {"off"}, key : Keys \union {NoKey}] :
                        new.st \in {"insert", "fund", "ready"} => new.key \in Keys}
  <1>2. PICK new \in News : lookup' = [lookup EXCEPT ![r][x] = new]
    <2>1. CASE SelectWallet(r, x)
      <3>1. CASE stored # NoKey
        <4>1. stored \in Keys
          BY <1>0, <3>1 DEF ExecShaped
        <4> DEFINE new == [st |-> IF Chain(running[r], x) \in funded THEN "ready" ELSE "fund",
                           key |-> stored]
        <4>2. lookup' = [lookup EXCEPT ![r][x] = new]
          BY <2>1, <3>1, <4>1 DEF SelectWallet
        <4>3. new \in News
          BY <4>1 DEF LookupStates
        <4> QED BY <4>2, <4>3
      <3>2. CASE stored = NoKey
        <4>1. PICK k \in Keys : lookup' = [lookup EXCEPT ![r][x] = [st |-> "insert", key |-> k]]
          BY <2>1, <3>2 DEF SelectWallet
        <4>2. [st |-> "insert", key |-> k] \in News
          BY <4>1 DEF LookupStates
        <4> QED BY <4>1, <4>2
      <3> QED BY <3>1, <3>2
    <2>2. CASE InsertWallet(r, x) \/ FundWallet(r, x) \/ LookupFails(r, x)
      <3>1. \/ LookupFails(r, x)
            \/ lookup[r][x].st \in {"insert", "fund"}
        BY <2>2 DEF InsertWallet, FundWallet
      <3>2. /\ lookup[r][x].st \in {"insert", "fund"} => lookup[r][x].key \in Keys
            /\ lookup[r][x] \in [st : LookupStates, key : Keys \union {NoKey}]
        BY <1>0 DEF LookedUp, ExecShaped
      <3>3. \E v \in {"fund", "ready", "failed"} :
              /\ lookup' = [lookup EXCEPT ![r][x].st = v]
              /\ v = "failed" \/ lookup[r][x].st \in {"insert", "fund"}
        BY <2>2, <3>1 DEF InsertWallet, FundWallet, LookupFails
      <3>4. PICK v \in {"fund", "ready", "failed"} :
              /\ lookup' = [lookup EXCEPT ![r][x].st = v]
              /\ v = "failed" \/ lookup[r][x].st \in {"insert", "fund"}
        BY <3>3
      <3> DEFINE new == [lookup[r][x] EXCEPT !.st = v]
      <3>5. new \in News
        BY <3>2, <3>4 DEF LookupStates
      <3>6. lookup' = [lookup EXCEPT ![r][x] = new]
        BY <1>0, <3>4 DEF ExecShaped
      <3> QED BY <3>5, <3>6
    <2> QED BY <2>1, <2>2
  <1>3. stored' \in Keys \union {NoKey}
    <2>1. CASE InsertWallet(r, x) \/ LookupFails(r, x)
      <3>1. lookup[r][x].st = "insert" => lookup[r][x].key \in Keys
        BY <1>0 DEF LookedUp
      <3>2. \/ stored' = stored
            \/ lookup[r][x].st = "insert" /\ stored' = lookup[r][x].key
        BY <2>1 DEF InsertWallet, LookupFails, walletVars
      <3> QED BY <1>0, <3>1, <3>2 DEF ExecShaped
    <2>2. CASE SelectWallet(r, x) \/ FundWallet(r, x)
      BY <1>0, <2>2 DEF SelectWallet, FundWallet, walletVars, ExecShaped
    <2> QED BY <2>1, <2>2
  <1>4. ~ Ready(r) /\ (Busy(r) => ~ (at[r] > 1))
    BY <1>0, <1>1 DEF Ready, LookedUp
  <1>5. /\ lookup' \in [Requests -> [Roles -> [st : LookupStates, key : Keys \union {NoKey}]]]
        /\ \A o \in Requests \ {r} : lookup'[o] = lookup[o]
        /\ \A y \in Roles \ {x} : lookup'[r][y] = lookup[r][y]
        /\ lookup'[r][x] = new
    <2>1. new \in [st : LookupStates, key : Keys \union {NoKey}]
      OBVIOUS
    <2> QED BY <1>0, <1>2, <2>1 DEF ExecShaped
  <1>6. \A o \in Requests \ {r} : Same(o)
    BY <1>1, <1>5 DEF Same
  <1>7. \A o \in Requests : Busy(o)' <=> Busy(o)
    BY <1>1 DEF Busy
  <1>8. ExecShaped'
    BY <1>0, <1>1, <1>3, <1>5 DEF ExecShaped
  <1>9. Placed(r)' /\ LookedUp(r)'
    <2>1. Placed(r)'
      BY <1>0, <1>1, <1>7 DEF Placed
    <2>2. \A y \in Roles : lookup'[r][y].st \in {"insert", "fund", "ready"} => lookup'[r][y].key \in Keys
      BY <1>0, <1>5 DEF LookedUp
    <2>3. Busy(r) => \A y \in RolesOf(running[r]) : lookup'[r][y].st # "off"
      <3>1. \A y \in RolesOf(running[r]) : y \in Roles
        BY DEF RolesOf, Roles
      <3> QED BY <1>0, <1>5, <3>1 DEF LookedUp
    <2> QED BY <1>1, <1>4, <1>7, <2>1, <2>2, <2>3 DEF LookedUp
  <1>10. ExecTyped' /\ ChainFine
    <2>1. AmmInv' /\ VaultInv' /\ ChainFine
      BY <1>0, <1>1 DEF ChainFine, PoolFine, VaultFine, ammVars, vaultVars, AmmInv, AmmTypeOK,
                        PoolBacked, VaultInv, VaultTypeOK
    <2> QED BY <1>0, <1>6, <1>8, <1>9, <2>1, SameKeeps DEF ExecTyped
  <1>11. AloneInv'
    BY <1>1, <1>7 DEF ExecInv, AloneInv
  <1>12. HonestInv'
    <2> SUFFICES ASSUME NEW o \in Requests, alone'[o], Busy(o)' PROVE Honest(o)'
      BY DEF HonestInv
    <2>1. Honest(o) /\ Busy(o)
      BY <1>1, <1>7 DEF ExecInv, HonestInv
    <2>2. stock' = stock /\ usd' = usd /\ bal' = bal
      BY <1>1 DEF ammVars, vaultVars
    <2>3. CASE o # r
      BY <1>0, <1>6, <2>1, <2>2, <2>3, HonestSame
    <2>4. CASE o = r
      <3>1. ~ (at[r] > 1) /\ at[r] \in Nat
        BY <1>0, <1>4, <2>1, <2>4 DEF ExecShaped
      <3>2. at'[r] = at[r] /\ gained'[r] = gained[r] /\ ~ (at[r] > 5)
            /\ at[r] \notin 2 .. 5 /\ at[r] \notin 2 .. 4 /\ at[r] \notin 3 .. 4
            /\ at[r] # 2 /\ at[r] # 5
        BY <1>1, <3>1
      <3> QED BY <2>1, <2>4, <3>1, <3>2 DEF Honest
    <2> QED BY <2>3, <2>4
  <1>13. BridgeInv'
    BY <1>1 DEF ExecInv, BridgeInv, Held, Amounts, Locked, ammVars, vaultVars
  <1> QED BY <1>10, <1>11, <1>12, <1>13 DEF ExecInv

(* An await that succeeds. *)
LEMMA AdvanceKeeps ==
    ASSUME ExecAssumptions, ExecInv, NEW r \in Requests,
           NEW w, At(r, w), w \notin {"report", "plan"}, Advance(r),
           NEW m \in Numbers, memory' = [memory EXCEPT ![r] = m],
           NEW g \in Nat, gained' = [gained EXCEPT ![r] = g],
           UNCHANGED <<lookup, todo, running, alone, stored>>, ChainFine,
           Locked' = Locked + Owes(r, "lock"), released' = released + Owes(r, "release"),
           alone[r] => Honest(r)'
    PROVE  ExecInv'
  <1>0. /\ ExecTyped /\ ExecShaped /\ AmmInv /\ VaultInv /\ released \in Nat
        /\ \A o \in Requests : Placed(o) /\ LookedUp(o)
    BY DEF ExecInv, ExecTyped, ExecShaped
  <1>1. /\ Busy(r) /\ Ready(r) /\ running[r].kind \in Kinds
        /\ NotLast(running[r].kind, at[r], w)
        /\ at[r] + 1 \in 1 .. Len(Path(running[r].kind))
    BY <1>0, AtIs DEF NotLast
  <1>2. at' = [at EXCEPT ![r] = at[r] + 1] /\ at[r] \in Nat /\ at[r] + 1 \in Nat
    BY <1>0 DEF Advance, ExecShaped
  <1>3. /\ Owes(r, "release") = Owed(r) /\ Owed(r) \in Nat /\ Owes(r, "lock") \in Nat
        /\ Owes(r, "lock") = IF running[r].kind = "bridge" /\ at[r] = 2 THEN running[r].amount ELSE 0
    <2>1. running[r].kind = "bridge" => running[r].amount \in Nat
      BY <1>0, <1>1, BusyIs, DealIs
    <2> QED BY <1>0, <2>1, OwesIs DEF Owed, Held
  <1>4. released' \in Nat
    BY <1>0, <1>3
  <1>5. \A o \in Requests \ {r} : Same(o)
    BY <1>0, <1>2 DEF ExecShaped, Same
  <1>6. /\ running'[r] = running[r] /\ at'[r] = at[r] + 1 /\ lookup'[r] = lookup[r]
        /\ Busy(r)' /\ Ready(r)'
    BY <1>0, <1>1, <1>2 DEF ExecShaped, Busy, Ready
  <1>7. ExecShaped'
    BY <1>0, <1>2, <1>4 DEF ExecShaped
  <1>8. Placed(r)' /\ LookedUp(r)'
    <2>1. Placed(r)'
      BY <1>1, <1>6 DEF Placed
    <2> QED BY <1>0, <1>1, <1>6, <2>1 DEF LookedUp
  <1>9. ExecTyped'
    BY <1>0, <1>5, <1>7, <1>8, SameKeeps DEF ExecTyped, ChainFine, PoolFine, VaultFine
  <1>10. \A o \in Requests : Busy(o)' <=> Busy(o)
    BY DEF Busy
  <1>11. AloneInv'
    BY <1>10 DEF ExecInv, AloneInv
  <1>12. HonestInv'
    <2> SUFFICES ASSUME NEW o \in Requests, alone'[o], Busy(o)' PROVE Honest(o)'
      BY DEF HonestInv
    <2>1. alone[o] /\ Busy(o)
      BY <1>10
    <2>2. o = r
      BY <1>1, <2>1 DEF ExecInv, AloneInv
    <2> QED BY <2>1, <2>2
  <1>13. BridgeInv'
    <2>1. \A o \in Requests \ {r} : running'[o] = running[o] /\ at'[o] = at[o]
      BY <1>5 DEF Same
    <2>2. IsFiniteSet(Held) /\ released + SumOver(Amounts, Held) <= Locked
      BY DEF ExecInv, BridgeInv
    <2>3. /\ IsFiniteSet(Held)' /\ SumOver(Amounts, Held) \in Int /\ Owed(r)' \in Nat
          /\ SumOver(Amounts, Held)' = SumOver(Amounts, Held) - Owed(r) + Owed(r)'
      BY <1>0, <1>7, <2>1, <2>2, HeldSum
    <2>4. Owed(r)' = Owes(r, "lock")
      BY <1>2, <1>3, <1>6 DEF Owed, Held
    <2>5. Locked \in Nat
      BY <1>0, LockedIs
    <2> QED BY <1>0, <1>3, <2>2, <2>3, <2>4, <2>5 DEF BridgeInv
  <1> QED BY <1>9, <1>11, <1>12, <1>13 DEF ExecInv

(* A step that is no transaction leaves the contracts in order. *)
LEMMA Untouched ==
    ASSUME ExecInv, UNCHANGED <<ammVars, vaultVars>>
    PROVE  ChainFine /\ Locked' = Locked /\ stock' = stock /\ usd' = usd /\ bal' = bal
  <1>1. ChainFine
    BY DEF ExecInv, ExecTyped, ChainFine, PoolFine, VaultFine, ammVars, vaultVars, AmmInv,
           AmmTypeOK, PoolBacked, VaultInv, VaultTypeOK
  <1> QED BY <1>1 DEF Locked, ammVars, vaultVars

LEMMA QuoteIs ==
    ASSUME AmmAssumption, AmmInv, NEW in \in Tokens, NEW amount \in Nat
    PROVE  Quote(in, amount) \in Nat
  <1>1. AfterFee(amount) \in Nat
    BY FeeTaken
  <1>2. reserve[in] \in Nat /\ reserve[1 - in] \in Nat
    BY DEF AmmInv, AmmTypeOK
  <1>3. CASE reserve[in] = 0
    BY <1>3 DEF Quote
  <1>4. CASE reserve[in] # 0
    <2>1. AfterFee(amount) * reserve[1 - in] \in Nat /\ reserve[in] + AfterFee(amount) \in Nat \ {0}
      <3> DEFINE f == AfterFee(amount)
                 o == reserve[1 - in]
                 i == reserve[in]
      <3>1. f \in Nat /\ o \in Nat /\ i \in Nat \ {0}
        BY <1>1, <1>2, <1>4
      <3> HIDE DEF f, o, i
      <3>2. f * o \in Nat /\ i + f \in Nat \ {0}
        BY <3>1, SMT
      <3> QED BY <3>2 DEF f, o, i
    <2>2. Quote(in, amount) = (AfterFee(amount) * reserve[1 - in]) \div (reserve[in] + AfterFee(amount))
      BY <1>4 DEF Quote
    <2> HIDE DEF Quote
    <2> QED BY <2>1, <2>2, DivBounds
  <1> QED BY <1>3, <1>4

(* What a caught read sees and misses is what is there. *)
LEMMA SeenIs ==
    ASSUME NEW balance \in Nat, NEW seen \in Seen(balance)
    PROVE  seen \in Nat /\ balance - seen \in Nat /\ seen + (balance - seen) = balance
  BY DEF Seen

(* A read before the trade notes what the wallet holds; the one after an exchange for *)
(* liquidity, what it gained.                                                        *)
LEMMA ReadsKeep ==
    ASSUME ExecAssumptions, ExecInv, NEW r \in Requests,
           ReadPrice(r) \/ ReadQuote(r) \/ Measure(r)
    PROVE  ExecInv' /\ ChainFine
  <1> DEFINE q == running[r]
             k == Key(r)
             m == memory[r]
  <1>0. /\ ExecTyped /\ ExecShaped /\ AmmInv /\ VaultInv
        /\ UNCHANGED <<ammVars, vaultVars, stored, released>>
        /\ todo[r] \in Seq(Deal)
    BY DEF ExecInv, ExecTyped, ExecShaped, ReadPrice, ReadQuote, Measure, walletVars
  <1>1. ChainFine /\ Locked' = Locked /\ stock' = stock /\ usd' = usd /\ bal' = bal
    BY <1>0, Untouched
  <1>2. ASSUME Answer(r, FALSE) PROVE ExecInv'
    <2>1. GoOn(r, todo[r], Append(answers[r], FALSE))
      BY <1>2 DEF Answer
    <2>2. Deals(todo[r])
      BY <1>0, DealsAre
    <2> QED BY <1>0, <2>1, <2>2, GoOnKeeps
  <1>3. CASE Answer(r, FALSE)
    BY <1>1, <1>2, <1>3
  <1>4. ASSUME NEW w \in {"price", "quote", "measure"}, At(r, w)
        PROVE  /\ q \in Deal /\ q.kind \in Kinds /\ Awaits(q.kind, at[r], w) /\ k \in Keys
               /\ Locked' = Locked + Owes(r, "lock") /\ released' = released + Owes(r, "release")
    <2>1. Busy(r) /\ q.kind \in Kinds /\ Awaits(q.kind, at[r], w) /\ k \in Keys
      BY <1>0, <1>4, AtIs
    <2>2. q \in Deal
      BY <1>0, <1>4, <2>1, BusyIs DEF Awaits
    <2>3. Owes(r, "lock") = 0 /\ Owes(r, "release") = 0
      BY <1>4 DEF Owes, At
    <2>4. Locked \in Nat /\ released \in Nat
      BY <1>0, LockedIs DEF ExecShaped
    <2> QED BY <1>0, <1>1, <2>1, <2>2, <2>3, <2>4
  <1>5. /\ m \in Numbers /\ m.before0 \in Nat /\ m.before1 \in Nat /\ gained[r] \in Nat
        /\ at[r] \in Nat /\ gained = [gained EXCEPT ![r] = gained[r]]
    BY <1>0 DEF ExecShaped, Numbers
  <1>6. ASSUME k \in Keys
        PROVE  /\ usd[k] \in Nat /\ bal[0][k] \in Nat /\ bal[1][k] \in Nat
               /\ \A s \in Symbols : stock[s][k] \in Nat /\ price[s] \in Nat
    <2>1. k \in Users /\ k \in UsdHolders /\ k \in Holders
      BY <1>6, SinkIs DEF UsdHolders, Holders, ExecAssumptions
    <2> HIDE DEF k
    <2> QED BY <1>0, <2>1 DEF VaultInv, VaultTypeOK, AmmInv, AmmTypeOK
  <1>7. ASSUME ReadPrice(r), ~ Answer(r, FALSE) PROVE ExecInv'
    <2>1. At(r, "price") /\ Advance(r) /\ UNCHANGED <<lookup, todo, running, gained, alone>>
      BY <1>7 DEF ReadPrice
    <2>2. /\ q \in Deal /\ k \in Keys /\ q.kind \in {"buy", "sell"} /\ at[r] = 1
          /\ Locked' = Locked + Owes(r, "lock") /\ released' = released + Owes(r, "release")
      BY <1>4, <2>1 DEF Awaits
    <2>3. q.sym \in Symbols
      BY <2>2, DealIs
    <2> DEFINE has == Holds(r)
    <2>4. /\ has = IF q.kind = "buy" THEN stock[q.sym][k] ELSE usd[k]
          /\ has \in Nat /\ price[q.sym] \in Nat
      BY <1>6, <2>2, <2>3 DEF Holds
    <2>9. PICK seen \in Seen(has) :
            memory' = [memory EXCEPT ![r].before0 = seen, ![r].missed0 = has - seen,
                                     ![r].least = price[q.sym]]
      BY <1>7 DEF ReadPrice
    <2> DEFINE new == [m EXCEPT !.before0 = seen, !.missed0 = has - seen, !.least = price[q.sym]]
    <2> HIDE DEF has
    <2>10. seen \in Nat /\ has - seen \in Nat /\ seen + (has - seen) = has
      BY <2>4, <2>9, SeenIs
    <2>5. memory' = [memory EXCEPT ![r] = new]
      BY <1>0, <2>9 DEF ExecShaped
    <2> HIDE DEF q, k
    <2>6. new \in Numbers /\ new.before0 + new.missed0 = has
      BY <1>5, <2>4, <2>10 DEF Numbers
    <2> HIDE DEF new
    <2>7. memory'[r] = new /\ at'[r] = 2 /\ Key(r)' = Key(r)
      BY <1>0, <2>1, <2>2, <2>5 DEF ExecShaped, Advance, Key
    <2>8. alone[r] => Honest(r)'
      <3> SUFFICES ASSUME alone[r] PROVE Honest(r)'
        OBVIOUS
      <3>1. Busy(r) /\ gained[r] = 0 /\ gained'[r] = 0
        BY <2>1, <2>2 DEF At, ExecInv, HonestInv, Honest
      <3>2. /\ running'[r] = q /\ stock' = stock /\ usd' = usd
            /\ Key(r)' = k
        BY <1>1, <2>1, <2>7 DEF q, k
      <3>3. \A x \in Nat : x = x + 0
        OBVIOUS
      <3>6. Before0(r)' = has
        BY <2>6, <2>7 DEF Before0
      <3>4. q.kind = "buy" => stock[q.sym][k] = Before0(r)' + 0
        BY <2>4, <3>3, <3>6
      <3>5. q.kind = "sell" => usd[k] = Before0(r)' + 0
        BY <2>2, <2>4, <3>3, <3>6
      <3> QED BY <2>2, <2>7, <3>1, <3>2, <3>4, <3>5 DEF Honest
    <2> QED BY <1>1, <1>5, <2>1, <2>2, <2>5, <2>6, <2>8, AdvanceKeeps, <1>0
  <1>8. ASSUME ReadQuote(r), ~ Answer(r, FALSE) PROVE ExecInv'
    <2>1. At(r, "quote") /\ Advance(r) /\ UNCHANGED <<lookup, todo, running, gained, alone>>
      BY <1>8 DEF ReadQuote
    <2>2. /\ q \in Deal /\ k \in Keys
          /\ (q.kind = "swap" /\ at[r] = 3) \/ (q.kind = "lp" /\ at[r] = 1)
          /\ Locked' = Locked + Owes(r, "lock") /\ released' = released + Owes(r, "release")
      BY <1>4, <2>1 DEF Awaits
    <2> DEFINE least == (Quote(In(q), Spent(q)) * 95) \div 100
               holds0 == IF q.kind = "lp" THEN bal[0][k] ELSE 0
               holds1 == IF q.kind = "lp" THEN bal[1][k] ELSE 0
    <2>3. Quote(In(q), Spent(q)) \in Nat
      <3>1. In(q) \in Tokens /\ Spent(q) \in Nat
        BY <2>2, DealIs
      <3>2. AmmAssumption
        BY DEF ExecAssumptions
      <3>3. AmmInv
        BY <1>0
      <3> HIDE DEF q, k, m, least
      <3> QED BY <3>1, <3>2, <3>3, QuoteIs
    <2>4. least \in Nat
      BY <2>3, DivBounds
    <2>10. PICK seen0 \in Seen(holds0), seen1 \in Seen(holds1) :
             memory' = [memory EXCEPT ![r].least = least,
                          ![r].before0 = seen0, ![r].missed0 = holds0 - seen0,
                          ![r].before1 = seen1, ![r].missed1 = holds1 - seen1]
      BY <1>8 DEF ReadQuote
    <2>6. bal[0][k] \in Nat /\ bal[1][k] \in Nat /\ holds0 \in Nat /\ holds1 \in Nat
      BY <1>6, <2>2
    <2>11. q.kind = "lp" => holds0 = bal[0][k] /\ holds1 = bal[1][k]
      OBVIOUS
    <2> HIDE DEF holds0, holds1
    <2>12. /\ seen0 \in Nat /\ holds0 - seen0 \in Nat /\ seen0 + (holds0 - seen0) = holds0
           /\ seen1 \in Nat /\ holds1 - seen1 \in Nat /\ seen1 + (holds1 - seen1) = holds1
      BY <2>6, <2>10, SeenIs
    <2> DEFINE new == [m EXCEPT !.least = least, !.before0 = seen0, !.missed0 = holds0 - seen0,
                                !.before1 = seen1, !.missed1 = holds1 - seen1]
    <2>5. memory' = [memory EXCEPT ![r] = new]
      <3> HIDE DEF least, k
      <3> QED BY <1>0, <2>10 DEF ExecShaped
    <2> HIDE DEF least, q, k
    <2>7. /\ new \in Numbers
          /\ new.before0 + new.missed0 = holds0 /\ new.before1 + new.missed1 = holds1
      BY <1>5, <2>4, <2>12 DEF Numbers
    <2> HIDE DEF new
    <2>8. memory'[r] = new /\ at'[r] = at[r] + 1 /\ Key(r)' = Key(r)
      BY <1>0, <2>1, <2>5 DEF ExecShaped, Advance, Key
    <2>9. alone[r] => Honest(r)'
      <3> SUFFICES ASSUME alone[r] PROVE Honest(r)'
        OBVIOUS
      <3>1. /\ running'[r] = q /\ bal' = bal /\ gained'[r] = gained[r]
            /\ Key(r)' = k
        BY <1>1, <2>1, <2>8 DEF q, k
      <3>2. CASE q.kind = "swap"
        BY <1>5, <2>8, <3>1, <3>2, <2>2 DEF Honest
      <3>3. CASE q.kind = "lp"
        <4>1. at[r] = 1 /\ at'[r] = 2
          BY <2>2, <2>8, <3>3
        <4>2. gained[r] = 0
          BY <2>1, <4>1 DEF At, ExecInv, HonestInv, Honest
        <4>3. Before0(r)' = bal[0][k] /\ Before1(r)' = bal[1][k] /\ bal[0][k] = bal[0][k] + 0
          BY <2>6, <2>7, <2>8, <2>11, <3>3 DEF Before0, Before1
        <4> QED BY <2>8, <3>1, <3>3, <4>1, <4>2, <4>3 DEF Honest
      <3> QED BY <2>2, <3>2, <3>3
    <2> QED BY <1>1, <1>5, <2>1, <2>2, <2>5, <2>7, <2>9, AdvanceKeeps, <1>0
  <1>9. ASSUME Measure(r) PROVE ExecInv'
    <2>1. At(r, "measure") /\ Advance(r) /\ UNCHANGED <<lookup, todo, running, gained, alone>>
      BY <1>9 DEF Measure
    <2>2. /\ k \in Keys /\ q.kind = "lp" /\ at[r] = 5
          /\ Locked' = Locked + Owes(r, "lock") /\ released' = released + Owes(r, "release")
      BY <1>4, <2>1 DEF Awaits
    <2> DEFINE put0 == Diff(bal[0][k], m.before0)
               put1 == Diff(bal[1][k], m.before1)
               new == [m EXCEPT !.put0 = put0, !.put1 = put1]
    <2>3. memory' = [memory EXCEPT ![r] = new]
      BY <1>0, <1>9 DEF Measure, ExecShaped
    <2>4. bal[0][k] \in Nat /\ bal[1][k] \in Nat
      BY <1>6, <2>2
    <2> HIDE DEF q, k
    <2>5. put0 \in Nat /\ put1 \in Nat
      BY <1>5, <2>4 DEF Diff
    <2>6. new \in Numbers /\ new.put0 = put0 /\ new.put1 = put1
          /\ new.missed0 = m.missed0 /\ new.missed1 = m.missed1
      BY <1>5, <2>5 DEF Numbers
    <2>11. m.missed0 \in Nat /\ m.missed1 \in Nat
      BY <1>5 DEF Numbers
    <2>7. /\ bal[0][k] = (m.before0 + m.missed0) + gained[r] /\ gained[r] > 0
               => put0 = gained[r] + m.missed0
          /\ \A kept \in Nat : bal[1][k] = (m.before1 + m.missed1) + kept /\ kept > 0
               => put1 = kept + m.missed1
      BY <1>5, <2>4, <2>11 DEF Diff
    <2>10. /\ q.amount \in Nat /\ Spent(q) = q.amount \div 2
           /\ Spent(q) > 0 => q.amount - Spent(q) \in Nat /\ q.amount - Spent(q) > 0
      <3>1. q.amount \in Nat /\ q.kind = "lp"
        BY <1>4, <2>1, <2>2, DealIs
      <3> QED BY <3>1 DEF Spent
    <2> HIDE DEF new, put0, put1
    <2>8. memory'[r] = new /\ at'[r] = 6
      BY <1>0, <2>1, <2>2, <2>3 DEF ExecShaped, Advance
    <2>9. alone[r] => Honest(r)'
      <3> SUFFICES ASSUME alone[r] PROVE Honest(r)'
        OBVIOUS
      <3>1. running'[r] = q /\ q.kind = "lp" /\ gained'[r] = gained[r]
        BY <2>1, <2>2 DEF q
      <3>2. /\ bal[0][k] = Before0(r) + gained[r] /\ Spent(q) > 0
            /\ bal[1][k] = Before1(r) + (q.amount - Spent(q))
        BY <2>1, <2>2 DEF q, k, At, ExecInv, HonestInv, Honest
      <3>3. /\ gained[r] > 0 => new.put0 = gained[r] + m.missed0
            /\ new.put1 = (q.amount - Spent(q)) + m.missed1
        BY <2>6, <2>7, <2>10, <3>2 DEF Before0, Before1
      <3> QED BY <2>6, <2>8, <3>1, <3>3 DEF Honest
    <2> QED BY <1>1, <1>5, <2>1, <2>2, <2>3, <2>6, <2>9, AdvanceKeeps, <1>0
  <1> QED BY <1>1, <1>2, <1>7, <1>8, <1>9

(* A trade pays the wallet what it says, and no other transaction of its path touches *)
(* what it measures.                                                                  *)
LEMMA MinedIsHonest ==
    ASSUME ExecAssumptions, ExecTyped, NEW r \in Requests, Mined(r), Advance(r),
           gained' = [gained EXCEPT ![r] = Gain(r)], UNCHANGED <<lookup, running, memory>>
    PROVE  Gain(r) \in Nat /\ (Honest(r) => Honest(r)')
  <1> DEFINE q == running[r]
             k == Key(r)
             m == memory[r]
  <1>0. /\ ExecShaped /\ AmmInv /\ VaultInv
        /\ at[r] \in Nat /\ gained[r] \in Nat /\ m \in Numbers
    BY DEF ExecTyped, ExecShaped
  <1>1. /\ running'[r] = q /\ memory'[r] = m /\ at'[r] = at[r] + 1 /\ gained'[r] = Gain(r)
        /\ Key(r)' = k /\ Before0(r)' = Before0(r) /\ Before1(r)' = Before1(r)
    BY <1>0 DEF Advance, ExecShaped, Key, Before0, Before1
  <1>2. Before0(r) \in Nat /\ Before1(r) \in Nat /\ m.least \in Nat
    BY <1>0 DEF Numbers, Before0, Before1
  <1>3. ASSUME NEW w, At(r, w), w \notin {"report", "plan"}
        PROVE  /\ q \in Deal /\ Awaits(q.kind, at[r], w) /\ k \in Keys /\ k \in Users
               /\ q.amount \in Nat /\ In(q) \in Tokens /\ Spent(q) \in Nat
               /\ q.kind \in {"buy", "sell"} => q.sym \in Symbols
    <2>1. Busy(r) /\ q.kind \in Kinds /\ Awaits(q.kind, at[r], w) /\ k \in Keys
      BY <1>3, AtIs
    <2>2. q.kind # "launch"
      BY <1>3, <2>1 DEF Awaits
    <2>3. q \in Deal
      BY <1>0, <2>1, <2>2, BusyIs
    <2>4. Keys \subseteq Users
      BY SinkIs DEF ExecAssumptions
    <2> QED BY <2>1, <2>3, <2>4, DealIs
  <1>4. ASSUME NEW w, At(r, w), w \notin {"mint", "redeem", "swap"}
        PROVE  Gain(r) = gained[r]
    BY <1>4 DEF Gain, At
  <1>5. ASSUME k \in Users
        PROVE  /\ usd[k] \in Nat /\ bal[0][k] \in Nat /\ bal[1][k] \in Nat
               /\ k \in UsdHolders /\ k \in Holders
               /\ \A s \in Symbols : stock[s][k] \in Nat
    <2>1. k \in UsdHolders /\ k \in Holders
      BY <1>5 DEF UsdHolders, Holders
    <2> HIDE DEF k
    <2> QED BY <1>0, <1>5, <2>1 DEF VaultInv, VaultTypeOK, AmmInv, AmmTypeOK
  <1>6. CASE OnVault(r) /\ UNCHANGED <<ammVars, released>>
    <2>1. PICK w : /\ At(r, w) /\ w \in {"usdFaucet", "usdApprove", "mint", "redeem", "fill", "lock"}
                   /\ w = "usdFaucet" => UsdFaucet(k, q.amount)
                   /\ w = "usdApprove" => UsdApprove(k, q.amount)
                   /\ w = "mint" => Mint(k, q.sym, q.amount)
                   /\ w = "redeem" => Redeem(k, q.sym, q.amount)
      BY <1>6 DEF OnVault
    <2>2. /\ q \in Deal /\ Awaits(q.kind, at[r], w) /\ k \in Users /\ q.amount \in Nat
          /\ q.kind \in {"buy", "sell"} => q.sym \in Symbols
      BY <1>3, <2>1
    <2>3. CASE w \in {"usdFaucet", "usdApprove"}
      <3>1. Gain(r) = gained[r] /\ q.kind = "buy" /\ at[r] \in 2 .. 3 /\ stock' = stock
        BY <1>4, <2>1, <2>2, <2>3 DEF Awaits, UsdFaucet, UsdApprove
      <3> HIDE DEF q, k, m
      <3> QED BY <1>0, <1>1, <3>1 DEF Honest, q, k, m
    <2>4. CASE w = "mint"
      <3>1. /\ Gain(r) = StockOut(q.sym, q.amount) /\ q.kind = "buy" /\ at[r] = 4
            /\ q.sym \in Symbols /\ Mint(k, q.sym, q.amount)
        BY <2>1, <2>2, <2>4 DEF Awaits, Gain
      <3>2. StockOut(q.sym, q.amount) \in Nat
        <4>1. price[q.sym] \in Nat \ {0} /\ PriceScale \in Nat
          <5>1. fresh[q.sym]
            BY <3>1 DEF Mint, Trades
          <5>2. PriceScale \in Nat
            BY DEF VaultAssumption, ExecAssumptions
          <5> QED BY <1>0, <3>1, <5>1, <5>2 DEF VaultInv, VaultTypeOK
        <4>2. q.amount * PriceScale \in Nat
          BY <2>2, <4>1, SMT
        <4> QED BY <4>1, <4>2, DivBounds DEF StockOut
      <3>3. stock'[q.sym][k] = stock[q.sym][k] + StockOut(q.sym, q.amount)
        <4> HIDE DEF q, k
        <4> QED BY <1>0, <2>2, <3>1 DEF Mint, VaultInv, VaultTypeOK
      <3>4. Honest(r) => stock[q.sym][k] = Before0(r) + gained[r] /\ gained[r] = 0
        BY <3>1 DEF Honest
      <3>5. Honest(r) => stock'[q.sym][k] = Before0(r) + Gain(r)
        BY <1>2, <3>1, <3>2, <3>3, <3>4
      <3> HIDE DEF q, k, m
      <3> QED BY <1>0, <1>1, <3>1, <3>2, <3>5 DEF Honest
    <2>5. CASE w = "redeem"
      <3>1. /\ Gain(r) = CollateralOut(q.sym, q.amount) /\ q.kind = "sell" /\ at[r] = 2
            /\ q.sym \in Symbols /\ Redeem(k, q.sym, q.amount)
        BY <2>1, <2>2, <2>5 DEF Awaits, Gain, At
      <3>2. CollateralOut(q.sym, q.amount) \in Nat
        <4>1. price[q.sym] \in Nat /\ PriceScale \in Nat \ {0}
          BY <1>0, <3>1 DEF VaultInv, VaultTypeOK, VaultAssumption, ExecAssumptions
        <4>2. q.amount * price[q.sym] \in Nat
          BY <2>2, <4>1, SMT
        <4> QED BY <4>1, <4>2, DivBounds DEF CollateralOut
      <3>3. usd'[k] = usd[k] + CollateralOut(q.sym, q.amount)
        <4>1. k # Vault /\ k \in UsdHolders /\ Vault \in UsdHolders
          BY <2>2 DEF VaultAssumption, ExecAssumptions, UsdHolders
        <4> HIDE DEF q, k
        <4> QED BY <1>0, <3>1, <4>1 DEF Redeem, VaultInv, VaultTypeOK
      <3>4. Honest(r) => usd[k] = Before0(r) + gained[r] /\ gained[r] = 0
        BY <3>1 DEF Honest
      <3>5. Honest(r) => usd'[k] = Before0(r) + Gain(r)
        BY <1>2, <3>1, <3>2, <3>3, <3>4
      <3> HIDE DEF q, k, m
      <3> QED BY <1>0, <1>1, <3>1, <3>2, <3>5 DEF Honest
    <2>6. CASE w \in {"fill", "lock"}
      <3>1. Gain(r) = gained[r] /\ q.kind = "bridge" /\ at[r] \in 1 .. 2
        BY <1>4, <2>1, <2>2, <2>6 DEF Awaits
      <3> HIDE DEF q, k, m
      <3> QED BY <1>0, <1>1, <3>1 DEF Honest
    <2> QED BY <2>1, <2>3, <2>4, <2>5, <2>6
  <1>7. CASE OnPool(r) /\ UNCHANGED <<vaultVars, released>>
    <2>1. PICK w : /\ At(r, w)
                   /\ w \in {"faucet", "approve", "swap", "approve0", "approve1", "add", "fill", "lock"}
                   /\ w = "faucet" => Faucet(In(q), k, q.amount)
                   /\ w = "approve" => Approve(In(q), k, Spent(q))
                   /\ w = "swap" => Swap(k, In(q), Spent(q), m.least)
      BY <1>7 DEF OnPool
    <2>2. /\ q \in Deal /\ Awaits(q.kind, at[r], w) /\ k \in Users /\ q.amount \in Nat
          /\ In(q) \in Tokens /\ Spent(q) \in Nat
      BY <1>3, <2>1
    <2>3. CASE w \in {"faucet", "approve"}
      <3>1. Gain(r) = gained[r] /\ q.kind \in {"swap", "lp"}
        BY <1>4, <2>1, <2>2, <2>3 DEF Awaits
      <3>2. CASE q.kind = "swap"
        <4> HIDE DEF q, k, m
        <4>1. at'[r] > 1
          BY <1>0, <1>1, <2>2, <2>3, <3>2 DEF Awaits
        <4> QED BY <1>0, <1>1, <3>1, <3>2, <4>1 DEF Honest
      <3>3. CASE q.kind = "lp"
        <4>1. ((w = "faucet" /\ at[r] = 2) \/ (w = "approve" /\ at[r] = 3)) /\ In(q) = 1
          BY <2>2, <2>3, <3>3 DEF Awaits, In
        <4>2. /\ bal'[0][k] = bal[0][k]
              /\ bal'[1][k] = bal[1][k] + (IF w = "faucet" THEN q.amount ELSE 0)
          <5>1. k \in Holders /\ bal[1][k] \in Nat
            BY <1>5, <2>2
          <5> HIDE DEF q, k
          <5> QED BY <1>0, <2>1, <2>2, <4>1, <5>1 DEF Faucet, Approve, AmmInv, AmmTypeOK
        <4>3. Honest(r) => /\ bal[0][k] = Before0(r) + gained[r] /\ gained[r] = 0
                           /\ w = "faucet" => bal[1][k] = Before1(r)
                           /\ w = "approve" => bal[1][k] = Before1(r) + q.amount
          BY <3>3, <4>1 DEF Honest
        <4>4. Honest(r) => bal'[1][k] = Before1(r) + q.amount
          <5>1. bal[1][k] \in Nat
            BY <1>5, <2>2
          <5> HIDE DEF q, k
          <5> QED BY <1>2, <2>2, <4>1, <4>2, <4>3, <5>1
        <4>5. at'[r] \in 3 .. 4 /\ (at'[r] # 2 /\ at'[r] # 5 /\ ~ (at'[r] > 5) /\ at'[r] # 1)
          BY <1>0, <1>1, <4>1
        <4> HIDE DEF q, k, m
        <4> QED BY <1>0, <1>1, <3>1, <3>3, <4>2, <4>3, <4>4, <4>5 DEF Honest
      <3> QED BY <3>1, <3>2, <3>3
    <2>4. CASE w = "swap"
      <3>1. Gain(r) = Quote(In(q), Spent(q)) /\ q.kind \in {"swap", "lp"} /\ at[r] = 4
            /\ Swap(k, In(q), Spent(q), m.least)
        BY <2>1, <2>2, <2>4 DEF Awaits, Gain, At
      <3>2. Gain(r) \in Nat
        <4>1. AmmAssumption
          BY DEF ExecAssumptions
        <4>2. Quote(In(q), Spent(q)) \in Nat
          <5>1. AmmInv /\ In(q) \in Tokens /\ Spent(q) \in Nat
            BY <1>0, <2>2
          <5> HIDE DEF q
          <5> QED BY <4>1, <5>1, QuoteIs
        <4> QED BY <3>1, <4>2
      <3>3. CASE q.kind = "swap"
        <4> HIDE DEF q, k, m
        <4> QED BY <1>0, <1>1, <3>1, <3>2, <3>3 DEF Honest
      <3>4. CASE q.kind = "lp"
        <4>1. In(q) = 1
          BY <3>4 DEF In
        <4>2. Honest(r) => bal[0][k] = Before0(r) + gained[r] /\ gained[r] = 0
          BY <3>1, <3>4 DEF Honest
        <4>3. bal'[0][k] = bal[0][k] + Gain(r)
          <5>1. bal'[0] = Moved(0, Pool, k, Gain(r)) /\ bal[0][Pool] >= Gain(r)
            BY <3>1, <4>1 DEF Swap
          <5>2. k \in Holders /\ Pool \in Holders /\ k # Pool /\ AmmTypeOK
            BY <1>0, <2>2 DEF Holders, AmmAssumption, ExecAssumptions, AmmInv
          <5> HIDE DEF k
          <5> QED BY <3>2, <5>1, <5>2, MovedType
        <4>4. Honest(r) => bal'[0][k] = Before0(r) + Gain(r)
          BY <1>2, <3>2, <4>2, <4>3
        <4>5. Spent(q) > 0 /\ bal'[1][k] = bal[1][k] - Spent(q)
          <5>1. bal'[1] = Moved(1, k, Pool, Spent(q)) /\ Spent(q) > 0 /\ bal[1][k] >= Spent(q)
            BY <3>1, <4>1 DEF Swap, MayPull
          <5>2. k \in Holders /\ Pool \in Holders /\ k # Pool /\ AmmTypeOK /\ 1 \in Tokens
            BY <1>0, <2>2 DEF Holders, AmmAssumption, ExecAssumptions, AmmInv, Tokens
          <5>3. Spent(q) \in Nat
            BY <2>2
          <5> HIDE DEF k, q
          <5> QED BY <5>1, <5>2, <5>3, MovedType
        <4>6. Honest(r) => bal[1][k] = Before1(r) + q.amount
          BY <3>1, <3>4 DEF Honest
        <4>7. Honest(r) => bal'[1][k] = Before1(r) + (q.amount - Spent(q))
          <5> HIDE DEF k, q
          <5> QED BY <1>2, <2>2, <4>5, <4>6
        <4>8. at'[r] = 5 /\ running'[r] = q /\ Key(r)' = k /\ gained'[r] = Gain(r)
              /\ Before0(r)' = Before0(r) /\ Before1(r)' = Before1(r)
          BY <1>1, <3>1
        <4> HIDE DEF q, k, m
        <4> SUFFICES ASSUME Honest(r) PROVE Honest(r)'
          BY <3>2
        <4>9. /\ at'[r] \notin 2 .. 4 /\ at'[r] \notin 3 .. 4
              /\ at'[r] # 1 /\ at'[r] # 2 /\ ~ (at'[r] > 5)
          BY <4>8
        <4>10. q.kind # "buy" /\ q.kind # "sell"
          BY <3>4
        <4>11. /\ bal'[0][k] = Before0(r) + gained'[r]
               /\ bal'[1][k] = Before1(r) + (q.amount - Spent(q)) /\ Spent(q) > 0
          BY <4>4, <4>5, <4>7, <4>8
        <4> QED BY <4>8, <4>9, <4>10, <4>11 DEF Honest
      <3> QED BY <3>1, <3>3, <3>4
    <2>5. CASE w \in {"approve0", "approve1", "add"}
      <3>1. Gain(r) = gained[r] /\ q.kind = "lp" /\ at[r] \in 6 .. 8
        BY <1>4, <2>1, <2>2, <2>5 DEF Awaits
      <3>2. Honest(r) /\ gained[r] > 0 => /\ m.put0 = gained[r] + m.missed0
                                         /\ m.put1 = (q.amount - Spent(q)) + m.missed1
        BY <3>1 DEF Honest
      <3> HIDE DEF q, k, m
      <3> QED BY <1>0, <1>1, <3>1, <3>2 DEF Honest
    <2>6. CASE w \in {"fill", "lock"}
      <3>1. Gain(r) = gained[r] /\ q.kind = "bridge" /\ at[r] \in 1 .. 2
        BY <1>4, <2>1, <2>2, <2>6 DEF Awaits
      <3> HIDE DEF q, k, m
      <3> QED BY <1>0, <1>1, <3>1 DEF Honest
    <2> QED BY <2>1, <2>3, <2>4, <2>5, <2>6
  <1>8. CASE Release(r)
    <2>1. At(r, "release")
      BY <1>8 DEF Release
    <2>2. Gain(r) = gained[r] /\ q.kind = "bridge" /\ at[r] = 3
      BY <1>3, <1>4, <2>1 DEF Awaits
    <2> HIDE DEF q, k, m
    <2> QED BY <1>0, <1>1, <2>2 DEF Honest
  <1> QED BY <1>6, <1>7, <1>8 DEF Mined

(* A transaction is mined, and its answer arrives. *)
LEMMA TransactKeeps ==
    ASSUME ExecAssumptions, ExecInv, NEW r \in Requests, Transact(r)
    PROVE  ExecInv' /\ ChainFine
  <1>0. /\ ExecTyped /\ ExecShaped /\ Mined(r) /\ Advance(r)
        /\ gained' = [gained EXCEPT ![r] = Gain(r)]
        /\ UNCHANGED <<lookup, todo, running, memory, alone, stored>>
    BY DEF ExecInv, ExecTyped, Transact, walletVars
  <1>1. /\ ChainFine /\ Locked' = Locked + Owes(r, "lock")
        /\ released' = released + Owes(r, "release")
    BY <1>0, MinedIs
  <1>2. Gain(r) \in Nat /\ (Honest(r) => Honest(r)')
    BY <1>0, MinedIsHonest
  <1>3. PICK w : At(r, w) /\ w \notin {"report", "plan"}
    BY <1>0, MinedIsAt
  <1>4. Busy(r)
    BY <1>0, MinedIsAt
  <1>5. alone[r] => Honest(r)'
    BY <1>2, <1>4 DEF ExecInv, HonestInv
  <1>6. memory[r] \in Numbers /\ memory' = [memory EXCEPT ![r] = memory[r]]
    BY <1>0 DEF ExecShaped
  <1>7. ExecInv'
    BY <1>0, <1>1, <1>2, <1>3, <1>5, <1>6, AdvanceKeeps
  <1> QED BY <1>1, <1>7

(* A step of another account, or of the owner, leaves the wallets of the requests alone. *)
LEMMA OutsideKeeps ==
    ASSUME ExecAssumptions, ExecInv, UNCHANGED <<walletVars, agentVars>>, ChainFine,
           Locked' = Locked,
           \A u \in Keys : /\ \A s \in Symbols : stock'[s][u] = stock[s][u]
                           /\ usd'[u] = usd[u] /\ \A t \in Tokens : bal'[t][u] = bal[t][u]
    PROVE  ExecInv'
  <1>0. ExecTyped /\ ExecShaped /\ \A o \in Requests : Placed(o) /\ LookedUp(o)
    BY DEF ExecInv, ExecTyped
  <1>1. UNCHANGED <<lookup, todo, running, at, memory, gained, alone, released, stored>>
    BY DEF agentVars, walletVars
  <1>2. \A o \in Requests : Same(o) /\ (Busy(o)' <=> Busy(o))
    BY <1>1 DEF Same, Busy
  <1>3. ExecTyped'
    <2>1. ExecShaped'
      BY <1>0, <1>1 DEF ExecShaped
    <2> QED BY <1>0, <1>2, <2>1, SameKeeps DEF ExecTyped, ChainFine, PoolFine, VaultFine
  <1>4. AloneInv'
    BY <1>1, <1>2 DEF ExecInv, AloneInv
  <1>5. HonestInv'
    <2> SUFFICES ASSUME NEW o \in Requests, alone'[o], Busy(o)' PROVE Honest(o)'
      BY DEF HonestInv
    <2>1. Busy(o) /\ Honest(o)
      BY <1>1, <1>2 DEF ExecInv, HonestInv
    <2>2. at[o] > 1 => Key(o) \in Keys
      <3>1. "a" \in Roles /\ "a" \in RolesOf(running[o])
        BY DEF Roles, RolesOf
      <3> QED BY <1>0, <2>1, <3>1 DEF LookedUp, Ready, Key
    <2> QED BY <1>0, <1>2, <2>1, <2>2, HonestSame
  <1>6. BridgeInv'
    BY <1>1 DEF ExecInv, BridgeInv, Held, Amounts
  <1> QED BY <1>3, <1>4, <1>5, <1>6 DEF ExecInv

LEMMA TraderKeeps ==
    ASSUME ExecAssumptions, ExecInv, TraderMoves
    PROVE  ExecInv' /\ ChainFine
  <1>0. AmmInv /\ VaultInv /\ Trader \in Users /\ Trader \in Holders /\ 1 \in Tokens
        /\ UNCHANGED <<vaultVars, walletVars, agentVars>>
    BY DEF ExecInv, ExecTyped, TraderMoves, ExecAssumption, ExecAssumptions, Holders
  <1>1. /\ shares[Trader] \in Nat
        /\ \A t \in Tokens : bal[t][Trader] \in Nat
    BY <1>0 DEF AmmInv, AmmTypeOK
  <1>2. PICK t \in Tokens, a \in Nat, b \in Nat : PoolMove(Trader, t, a, b)
    BY <1>1 DEF TraderMoves, PoolMove
  <1>3. /\ PoolFine
        /\ \A i \in Tokens, h \in Holders \ {Trader, Pool} : bal'[i][h] = bal[i][h]
    <2>1. AccountsAssumption /\ AmmAssumption
      BY DEF ExecAssumptions
    <2>2. PoolKept(Trader)
      BY <1>0, <1>2, <2>1, PoolDeal
    <2> QED BY <2>2 DEF PoolKept
  <1>4. VaultFine /\ usd' = usd /\ stock' = stock
    BY <1>0 DEF VaultFine, vaultVars, VaultInv, VaultTypeOK
  <1>5. Locked' = Locked
    BY <1>0, <1>3, <1>4, SinkIs, SMTT(20) DEF Locked, ExecAssumptions
  <1>6. \A u \in Keys : u \in Holders \ {Trader, Pool}
    BY DEF Keys, Holders, AmmAssumption, ExecAssumptions
  <1>7. ExecInv'
    BY <1>0, <1>3, <1>4, <1>5, <1>6, OutsideKeeps DEF ChainFine
  <1> QED BY <1>3, <1>4, <1>7 DEF ChainFine

LEMMA OwnerKeeps ==
    ASSUME ExecAssumptions, ExecInv, OwnerMoves
    PROVE  ExecInv' /\ ChainFine
  <1>0. AmmInv /\ VaultInv /\ UNCHANGED <<ammVars, walletVars, agentVars>>
    BY DEF ExecInv, ExecTyped, OwnerMoves
  <1>1. /\ OwnerStep /\ UNCHANGED <<usd, stock>>
    <2>1. CASE \E s \in Symbols : ListStock(s)
      BY <2>1 DEF OwnerStep, ListStock
    <2>2. CASE \E p \in Prices : SetPrices(listed, [s \in Symbols |-> p])
      <3>1. PICK p \in Prices : SetPrices(listed, [s \in Symbols |-> p])
        BY <2>2
      <3>2. listed \in SUBSET Symbols /\ [s \in Symbols |-> p] \in [Symbols -> Nat]
        BY <1>0 DEF VaultInv, VaultTypeOK, ExecAssumptions, ExecAssumption
      <3>3. UNCHANGED <<usd, stock>>
        BY <3>1 DEF SetPrices
      <3> QED BY <3>1, <3>2, <3>3 DEF OwnerStep
    <2>3. CASE Reage([s \in Symbols |-> FALSE])
      <3>1. [s \in Symbols |-> FALSE] \in [Symbols -> BOOLEAN]
        OBVIOUS
      <3>2. UNCHANGED <<usd, stock>>
        BY <2>3 DEF Reage
      <3> QED BY <2>3, <3>1, <3>2 DEF OwnerStep
    <2>4. CASE SetWindow(FALSE, TRUE)
      BY <2>4 DEF OwnerStep, SetWindow
    <2> QED BY <2>1, <2>2, <2>3, <2>4 DEF OwnerMoves
  <1>2. VaultFine
    BY <1>0, <1>1, OwnerSteps DEF VaultFine, ExecAssumptions
  <1>3. PoolFine /\ bal' = bal
    BY <1>0 DEF PoolFine, ammVars, AmmInv, AmmTypeOK, PoolBacked
  <1>4. Locked' = Locked
    BY <1>1, <1>3 DEF Locked
  <1>5. ExecInv'
    BY <1>0, <1>1, <1>2, <1>3, <1>4, OutsideKeeps DEF ChainFine
  <1> QED BY <1>2, <1>3, <1>5 DEF ChainFine

(* A request asks, plans, is answered or loses the answer. *)
LEMMA RequestKeeps ==
    ASSUME ExecAssumptions, ExecInv, NEW r \in Requests,
           \/ \E q \in Actions : Ask(r, q)
           \/ \E legs \in Launches, amount \in LaunchUsd : AskLaunch(r, legs, amount)
           \/ Plan(r) \/ Report(r) \/ Fails(r) \/ MinedUnseen(r)
    PROVE  ExecInv' /\ ChainFine
  <1>0. ExecTyped /\ ExecShaped /\ AmmInv /\ VaultInv /\ todo[r] \in Seq(Deal)
    BY DEF ExecInv, ExecTyped, ExecShaped
  <1>1. ASSUME NEW next, NEW results, Deals(next), GoOn(r, next, results),
               UNCHANGED <<ammVars, vaultVars, walletVars, released>>
        PROVE  ExecInv' /\ ChainFine
    BY <1>1, GoOnKeeps DEF walletVars
  <1>2. ASSUME NEW ok, Answer(r, ok),
               UNCHANGED <<ammVars, vaultVars, walletVars, released>>
        PROVE  ExecInv' /\ ChainFine
    <2>1. Deals(todo[r])
      BY <1>0, DealsAre
    <2> QED BY <1>1, <1>2, <2>1 DEF Answer
  <1>3. ASSUME NEW q \in Actions, Ask(r, q) PROVE ExecInv' /\ ChainFine
    <2>1. Deals(<<q>>) /\ Deals(<<>>)
      BY DealsAre DEF ExecAssumption, ExecAssumptions, Deals
    <2>2. UNCHANGED <<ammVars, vaultVars, walletVars, released>>
      BY <1>3 DEF Ask
    <2>3. CASE WithinCap(q)
      BY <1>1, <1>3, <2>1, <2>2, <2>3 DEF Ask
    <2>4. CASE ~ WithinCap(q)
      BY <1>1, <1>3, <2>1, <2>2, <2>4 DEF Ask
    <2> QED BY <2>3, <2>4
  <1>4. ASSUME NEW legs \in Launches, NEW usdAsked \in LaunchUsd, AskLaunch(r, legs, usdAsked)
        PROVE  ExecInv' /\ ChainFine
    <2> DEFINE q == [kind |-> "launch", legs |-> legs,
                     amount |-> IF usdAsked < LaunchCap THEN usdAsked ELSE LaunchCap]
    <2>1. q \in LaunchOrder
      BY DEF LaunchOrder, ExecAssumption, ExecAssumptions
    <2>2. GoOn(r, <<q>>, <<>>) /\ UNCHANGED <<ammVars, vaultVars, walletVars, released>>
      BY <1>4 DEF AskLaunch
    <2> HIDE DEF q
    <2>3. Deals(<<q>>)
      BY <2>1, DealsAre
    <2> QED BY <1>1, <2>2, <2>3
  <1>5. ASSUME Plan(r) PROVE ExecInv' /\ ChainFine
    <2> DEFINE launch == running[r]
               rhNeed == Need(launch, TRUE)
               arbNeed == Need(launch, FALSE)
    <2>1. PICK rhHave \in Seen(usd[lookup[r]["b"].key]),
               arbHave \in Seen(bal[1][lookup[r]["c"].key]) :
            /\ At(r, "plan")
            /\ GoOn(r, (IF rhNeed > rhHave /\ arbHave > arbNeed THEN BridgeOf(rhNeed - rhHave, 1)
                        ELSE IF arbNeed > arbHave /\ rhHave > rhNeed
                        THEN BridgeOf(arbNeed - arbHave, 0) ELSE <<>>) \o Sized(Legs(launch)),
                    answers[r])
            /\ UNCHANGED <<ammVars, vaultVars, walletVars, released>>
      BY <1>5 DEF Plan
    <2> DEFINE bridge == IF rhNeed > rhHave /\ arbHave > arbNeed THEN BridgeOf(rhNeed - rhHave, 1)
                         ELSE IF arbNeed > arbHave /\ rhHave > rhNeed
                         THEN BridgeOf(arbNeed - arbHave, 0) ELSE <<>>
    <2>8. GoOn(r, bridge \o Sized(Legs(launch)), answers[r])
      BY <2>1
    <2>2. /\ launch \in LaunchOrder
          /\ lookup[r]["b"].key \in Keys /\ lookup[r]["c"].key \in Keys
      <3>1. Busy(r) /\ launch.kind = "launch"
        BY <1>0, <2>1, AtIs DEF Awaits
      <3> QED BY <1>0, <2>1, <3>1, AtIs, BusyIs DEF Roles
    <2>3. Sized(Legs(launch)) \in Seq(Deal) /\ rhNeed \in Nat /\ arbNeed \in Nat
      <3>1. Legs(launch) \in Seq(Deal) /\ rhNeed \in Nat /\ arbNeed \in Nat
        BY <2>2, LegsAreDeals
      <3> HIDE DEF launch, rhNeed, arbNeed
      <3>2. Sized(Legs(launch)) \in Seq(Deal)
        BY <3>1, SizedIs
      <3> QED BY <3>1, <3>2
    <2>4. rhHave \in Nat /\ arbHave \in Nat
      <3>1. /\ lookup[r]["b"].key \in UsdHolders /\ lookup[r]["c"].key \in Holders
        BY <2>2, SinkIs DEF UsdHolders, Holders, ExecAssumptions
      <3>2. usd[lookup[r]["b"].key] \in Nat /\ bal[1][lookup[r]["c"].key] \in Nat
        BY <1>0, <3>1 DEF VaultInv, VaultTypeOK, AmmInv, AmmTypeOK
      <3> QED BY <2>1, <3>2, SeenIs
    <2> HIDE DEF launch, rhNeed, arbNeed
    <2>5. \A n \in Nat, side \in Tokens : BridgeOf(n, side) \in Seq(Deal)
      BY DEF BridgeOf, Deal
    <2>6. bridge \in Seq(Deal)
      <3>1. CASE rhNeed > rhHave /\ arbHave > arbNeed
        <4>1. rhNeed - rhHave \in Nat
          BY <2>3, <2>4, <3>1
        <4> QED BY <2>5, <3>1, <4>1
      <3>2. CASE ~ (rhNeed > rhHave /\ arbHave > arbNeed) /\ arbNeed > arbHave /\ rhHave > rhNeed
        <4>1. arbNeed - arbHave \in Nat
          BY <2>3, <2>4, <3>2
        <4> QED BY <2>5, <3>2, <4>1
      <3>3. CASE ~ (rhNeed > rhHave /\ arbHave > arbNeed) /\ ~ (arbNeed > arbHave /\ rhHave > rhNeed)
        BY <3>3
      <3> QED BY <3>1, <3>2, <3>3
    <2> HIDE DEF bridge
    <2>7. Deals(bridge \o Sized(Legs(launch)))
      <3>1. bridge \o Sized(Legs(launch)) \in Seq(Deal)
        BY <2>3, <2>6
      <3> HIDE DEF launch
      <3> QED BY <3>1, DealsAre
    <2> QED BY <1>1, <2>1, <2>7, <2>8
  <1>6. ASSUME Report(r) \/ Fails(r) PROVE ExecInv' /\ ChainFine
    BY <1>2, <1>6 DEF Report, Fails
  <1>7. ASSUME MinedUnseen(r) PROVE ExecInv' /\ ChainFine
    <2>1. Mined(r) /\ GoOn(r, todo[r], Append(answers[r], FALSE)) /\ stored' = stored
      BY <1>7 DEF MinedUnseen, Answer, walletVars
    <2> QED BY <1>0, <2>1, DealsAre, GoOnKeeps
  <1> QED BY <1>3, <1>4, <1>5, <1>6, <1>7

LEMMA InitHolds ==
    ASSUME ExecAssumptions, Init
    PROVE  ExecInv
  <1>0. /\ Sink \in Holders /\ Sink \in UsdHolders /\ Pool \in Holders
        /\ Trader \in Users /\ Trader \in Holders /\ Prices \in SUBSET (Nat \ {0})
    BY SinkIs DEF Holders, ExecAssumptions, ExecAssumption
  <1>1. Seed = [t \in Tokens |-> IF t = 0 THEN 4 ELSE 9]
    BY DEF Seed
  <1>2. AmmInv
    <2>1. AmmTypeOK
      BY <1>1 DEF Init, AmmTypeOK
    <2>2. \A t \in Tokens : reserve[t] <= bal[t][Pool]
      BY <1>0, <1>1 DEF Init
    <2>3. reserve[0] = 4 /\ reserve[1] = 9 /\ totalShares = 6
      BY <1>1 DEF Init
    <2>4. reserve[0] * reserve[1] >= totalShares * totalShares
      BY <2>3
    <2> QED BY <2>1, <2>2, <2>4 DEF AmmInv, PoolBacked
  <1>3. VaultInv
    <2>1. PICK cheapest \in Prices : price = [s \in Symbols |-> IF s \in Listed THEN cheapest ELSE 0]
      BY DEF Init
    <2>2. cheapest \in Nat \ {0}
      BY <1>0
    <2>3. price \in [Symbols -> Nat] /\ \A s \in Symbols : s \in Listed => price[s] > 0
      BY <2>1, <2>2
    <2>4. Listed \subseteq Symbols
      BY DEF ExecAssumptions, ExecAssumption
    <2>5. usd \in [UsdHolders -> Nat] /\ usdAllowance \in [Users -> Nat]
      BY DEF Init
    <2>6. stock \in [Symbols -> [Users -> Nat]] /\ supply \in [Symbols -> Int]
      BY DEF Init
    <2>7. fresh \in [Symbols -> BOOLEAN] /\ \A s \in Symbols : fresh[s] => s \in Listed
      <3>1. fresh = [s \in Symbols |-> s \in Listed] /\ \A s : (s \in Listed) \in BOOLEAN
        BY DEF Init
      <3> QED BY <3>1
    <2>8. listed \subseteq Symbols /\ marketOpen \in BOOLEAN /\ rthOnly \in BOOLEAN
      BY <2>4 DEF Init
    <2> QED BY <2>3, <2>5, <2>6, <2>7, <2>8 DEF VaultInv, VaultTypeOK
  <1>4. ExecShaped
    <2>1. running \in [Requests -> Work] /\ todo \in [Requests -> Seq(Deal)]
      BY DEF Init, Work
    <2>2. at \in [Requests -> Nat] /\ memory \in [Requests -> Numbers]
      BY DEF Init, NoMemory, Numbers
    <2>3. lookup \in [Requests -> [Roles -> [st : LookupStates, key : Keys \union {NoKey}]]]
      BY DEF Init, NoLookups, LookupStates
    <2>4. gained \in [Requests -> Nat] /\ alone \in [Requests -> BOOLEAN] /\ released \in Nat
      BY DEF Init
    <2>5. stored \in Keys \union {NoKey}
      BY DEF Init
    <2> QED BY <2>1, <2>2, <2>3, <2>4, <2>5 DEF ExecShaped
  <1>5. \A r \in Requests : running[r] = Idle /\ lookup[r] = NoLookups
    BY DEF Init
  <1>6. \A r \in Requests : ~ Busy(r) /\ running[r].kind # "bridge"
    BY <1>5 DEF Busy, Idle
  <1>7. \A r \in Requests : Placed(r) /\ LookedUp(r)
    BY <1>5, <1>6 DEF Placed, LookedUp, NoLookups
  <1>8. AloneInv /\ HonestInv
    BY <1>6 DEF AloneInv, HonestInv
  <1>9. BridgeInv
    <2>1. Held = {} /\ IsFiniteSet({})
      BY <1>6, FS_EmptySet DEF Held
    <2>2. SumOver(Amounts, Held) = 0
      BY <2>1, SumOverEmpty
    <2>3. usd[Sink] \in Nat /\ bal[1][Sink] \in Nat /\ 1 \in Tokens
      BY <1>0, <1>2, <1>3 DEF AmmInv, AmmTypeOK, VaultInv, VaultTypeOK
    <2>4. released = 0
      BY DEF Init
    <2> QED BY <2>1, <2>2, <2>3, <2>4 DEF BridgeInv, Locked
  <1> QED BY <1>2, <1>3, <1>4, <1>7, <1>8, <1>9 DEF ExecInv, ExecTyped

LEMMA ExecKeeps ==
    ASSUME ExecAssumptions, ExecInv, [Next]_vars
    PROVE  ExecInv' /\ ChainFine
  <1>1. CASE UNCHANGED vars
    <2>1. UNCHANGED <<ammVars, vaultVars, walletVars, agentVars>>
      BY <1>1 DEF vars
    <2>2. ChainFine /\ Locked' = Locked /\ stock' = stock /\ usd' = usd /\ bal' = bal
      BY <2>1, Untouched
    <2> QED BY <2>1, <2>2, OutsideKeeps
  <1>2. ASSUME NEW r \in Requests, Step(r) PROVE ExecInv' /\ ChainFine
    <2>1. CASE \E x \in Roles : \/ SelectWallet(r, x) \/ InsertWallet(r, x)
                               \/ FundWallet(r, x) \/ LookupFails(r, x)
      BY <2>1, LookupKeeps
    <2>2. CASE \/ \E q \in Actions : Ask(r, q)
               \/ \E legs \in Launches, amount \in LaunchUsd : AskLaunch(r, legs, amount)
               \/ Plan(r) \/ Report(r) \/ Fails(r) \/ MinedUnseen(r)
      BY <2>2, RequestKeeps
    <2>3. CASE ReadPrice(r) \/ ReadQuote(r) \/ Measure(r)
      BY <2>3, ReadsKeep
    <2>4. CASE Transact(r)
      BY <2>4, TransactKeeps
    <2> QED BY <1>2, <2>1, <2>2, <2>3, <2>4 DEF Step
  <1> QED BY <1>1, <1>2, TraderKeeps, OwnerKeeps DEF Next

LEMMA ExecInvHolds == Spec => []ExecInv
  <1>0. ExecAssumptions
    BY AccountsAssumption, AmmAssumption, VaultAssumption, ExecAssumption DEF ExecAssumptions
  <1>1. Init => ExecInv
    BY <1>0, InitHolds
  <1>2. ExecInv /\ [Next]_vars => ExecInv'
    BY <1>0, ExecKeeps
  <1> QED BY <1>1, <1>2, PTL DEF Spec

(* Whatever the requests, the trader and the owner interleave, and whichever of their *)
(* transactions fail, the pool holds the reserves it computes with.                   *)
THEOREM ExecPoolBacked == Spec => []PoolBacked
  <1>1. ExecInv => PoolBacked
    BY DEF ExecInv, ExecTyped, AmmInv
  <1> QED BY <1>1, ExecInvHolds, PTL

(* No step of a request, nor of the trader, lowers what a share of the pool stands for. *)
THEOREM ExecDilutesNoShare == Spec => NoDilution
  <1>0. ExecAssumptions
    BY AccountsAssumption, AmmAssumption, VaultAssumption, ExecAssumption DEF ExecAssumptions
  <1>1. ExecInv /\ [Next]_vars => [Undiluted]_ammVars
    BY <1>0, ExecKeeps DEF ChainFine, PoolFine
  <1>2. [Undiluted]_ammVars =>
          [totalShares > 0 /\ totalShares' > 0 =>
             reserve'[0] * reserve'[1] * totalShares * totalShares
               >= reserve[0] * reserve[1] * totalShares' * totalShares']_ammVars
    BY DEF Undiluted
  <1> QED BY <1>1, <1>2, ExecInvHolds, PTL DEF Spec, NoDilution

(* No step of a request takes from the vault more than its price of the moment. *)
THEOREM ExecTradesAtNoLoss == Spec => OnlyPricesOpenADeficit
  <1>0. ExecAssumptions
    BY AccountsAssumption, AmmAssumption, VaultAssumption, ExecAssumption DEF ExecAssumptions
  <1>1. ExecInv /\ [Next]_vars => [Covered]_vaultVars
    BY <1>0, ExecKeeps DEF ChainFine, VaultFine
  <1> QED BY <1>1, ExecInvHolds, PTL DEF Spec, OnlyPricesOpenADeficit, Covered

(* No bridge, whatever fails between its two transactions and however many of them *)
(* run side by side, mints on its destination what is not locked on its source.    *)
THEOREM BridgesAreBacked == Spec => []BridgedIsLocked
  <1>1. ExecInv => BridgedIsLocked
    <2> SUFFICES ASSUME ExecInv PROVE BridgedIsLocked
      OBVIOUS
    <2>1. ExecShaped /\ AmmInv /\ VaultInv /\ ExecAssumptions
      BY AccountsAssumption, AmmAssumption, VaultAssumption, ExecAssumption
      DEF ExecInv, ExecTyped, ExecAssumptions
    <2>2. IsFiniteSet(Held) /\ released + SumOver(Amounts, Held) <= Locked
      BY DEF ExecInv, BridgeInv
    <2>3. SumOver(Amounts, Held) \in Int /\ SumOver(Amounts, Held) >= 0
      <3> DEFINE owed == [r \in Held |-> running[r].amount]
      <3>1. \A r \in Held : running[r] \in Deal /\ running[r].amount \in Nat
        <4>1. ASSUME NEW q \in Work, q.kind = "bridge" PROVE q \in Deal /\ q.amount \in Nat
          BY <4>1, DealIs DEF Work, LaunchOrder, Idle, Done
        <4> QED BY <2>1, <4>1 DEF Held, ExecShaped
      <3>2. owed \in [Held -> Int] /\ \A r \in Held : owed[r] >= 0 /\ owed[r] = Amounts[r]
        BY <3>1 DEF Amounts, Held
      <3> HIDE DEF owed
      <3>3. SumOver(owed, Held) >= Cardinality(Held) * 0 /\ Cardinality(Held) \in Nat
        BY <2>2, <3>2, SumOverAtLeast, FS_CardinalityType
      <3>4. SumOver(owed, Held) \in Int
        BY <2>2, <3>2, SumOverRemove
      <3>5. SumOver(owed, Held) = SumOver(Amounts, Held)
        BY <2>2, <3>2, SumOverSame
      <3> QED BY <3>3, <3>4, <3>5
    <2>4. released \in Nat /\ Locked \in Nat
      BY <2>1, LockedIs DEF ExecShaped
    <2>5. released <= Locked
      BY <2>2, <2>3, <2>4
    <2> QED BY <2>5 DEF BridgedIsLocked, Locked
  <1> QED BY <1>1, ExecInvHolds, PTL

(* What an action that ran alone reports is what its trade paid and, if a read before *)
(* the trade failed, what that read did not see; and liquidity is provided with that.  *)
THEOREM AloneAnswersAreHonest == Spec => []AnswersAreHonest
  <1>1. ExecInv => AnswersAreHonest
    <2> SUFFICES ASSUME ExecInv, NEW r \in Requests, NEW failed \in BOOLEAN,
                        At(r, "report"), alone[r], gained[r] > 0,
                        running[r].kind \in {"buy", "sell", "lp"}
                 PROVE  /\ Reported(r, failed) =
                             IF running[r].kind = "sell" /\ failed
                             THEN (running[r].amount * memory[r].least) \div PriceScale
                             ELSE gained[r] + memory[r].missed0
                        /\ running[r].kind = "lp" =>
                             memory[r].put1 = (running[r].amount - Spent(running[r]))
                                                + memory[r].missed1
      BY DEF AnswersAreHonest
    <2> DEFINE q == running[r]
               k == Key(r)
               m == memory[r]
    <2>1. ExecTyped /\ ExecShaped /\ AmmInv /\ VaultInv /\ ExecAssumptions
      BY AccountsAssumption, AmmAssumption, VaultAssumption, ExecAssumption
      DEF ExecInv, ExecTyped, ExecAssumptions
    <2>2. Busy(r) /\ q.kind \in Kinds /\ Awaits(q.kind, at[r], "report") /\ k \in Keys
      BY <2>1, AtIs
    <2>3. Honest(r)
      BY <2>2 DEF ExecInv, HonestInv
    <2>4. /\ gained[r] \in Nat /\ m.before0 \in Nat /\ m.missed0 \in Nat
          /\ Before0(r) = m.before0 + m.missed0
      BY <2>1 DEF ExecShaped, Numbers, Before0
    <2>5. CASE q.kind = "buy"
      <3>1. stock[q.sym][k] = Before0(r) + gained[r]
        BY <2>2, <2>3, <2>5 DEF Honest, Awaits
      <3>2. Reported(r, failed) = Diff(stock[q.sym][k], m.before0)
        BY <2>5 DEF Reported
      <3>3. Diff(stock[q.sym][k], m.before0) = gained[r] + m.missed0
        <4> HIDE DEF q, k, m
        <4> QED BY <2>4, <3>1 DEF Diff
      <3> QED BY <2>5, <3>2, <3>3
    <2>6. CASE q.kind = "sell"
      <3>1. usd[k] = Before0(r) + gained[r]
        BY <2>2, <2>3, <2>6 DEF Honest, Awaits
      <3>2. /\ ~ failed /\ usd[k] > m.before0 => Reported(r, failed) = usd[k] - m.before0
            /\ failed /\ ~ (m.before0 > m.before0)
                 => Reported(r, failed) = (q.amount * m.least) \div PriceScale
        BY <2>6 DEF Reported
      <3>3. usd[k] > m.before0 /\ usd[k] - m.before0 = gained[r] + m.missed0
            /\ ~ (m.before0 > m.before0)
        <4> HIDE DEF q, k, m
        <4> QED BY <2>4, <3>1
      <3> QED BY <2>6, <3>2, <3>3
    <2>7. CASE q.kind = "lp"
      <3>1. m.put0 = gained[r] + m.missed0 /\ m.put1 = (q.amount - Spent(q)) + m.missed1
        BY <2>2, <2>3, <2>7 DEF Honest, Awaits
      <3> QED BY <2>7, <3>1 DEF Reported
    <2> QED BY <2>5, <2>6, <2>7
  <1> QED BY <1>1, ExecInvHolds, PTL

-----------------------------------------------------------------------------
(* Runs, passports and cards. *)
VersionIds == Versions \union BotVersions
HashValue == Hashes \union Specs \union {NoSpec, Nobody}
RunRow == {run \in [kind : {"simple", "backtest", "paper", "optimize"}, version : VersionIds,
                    spec : Specs \union {NoSpec}, bars : Bars \union {NoBars},
                    result : Bars \union {NoBars, OnBook},
                    hash : HashValue, l2 : BOOLEAN, fallback : BOOLEAN,
                    consumed : BOOLEAN, covered : BOOLEAN, approx : BOOLEAN, liquidated : BOOLEAN] :
             /\ run.consumed => run.l2
             /\ run.kind = "simple" => ~run.l2}
VersionRow == [owner : Owners \union {Nobody}, hash : HashValue]

\* A request of a run, and a request of a passport with the verifier's answer.
AnswerRow == [score : Bars \union {NoBars, OnBook, "local"},
              tier : {"UNVERIFIED PAPER", "BACKTEST VERIFIED", "LIVE PAPER VERIFIED"},
              seen : VersionRow \union {NoRow}]
RunAsked == [pc : {"call", "waits"}, owner : Owners, run : RunRow, calls : Nat]
PassportAsked == [pc : {"risk", "verify", "insert"}, owner : Owners, row : Nat,
                  claim : Claims, read : RunRow, passes : BOOLEAN, answer : AnswerRow]
AttemptRow == [pc : {"compute", "version", "run", "answer", "refuses"},
               for : Askers \union {Nobody}, run : RunRow]

EvidenceShaped ==
  /\ versions \in [VersionIds -> VersionRow \union {NoRow}]
  /\ runs \in Seq(RunRow)
  /\ asker \in [Askers -> RunAsked \union PassportAsked \union {NotAsking}]
  /\ attempt \in [Attempts -> AttemptRow \union {NotAsking}]

\* An attempt that a request waits for is the only one.
Awaited ==
  /\ \A j \in Attempts : attempt[j] # NotAsking /\ attempt[j].for \in Askers =>
       asker[attempt[j].for].pc = "waits"
  /\ \A j, k \in Attempts :
       /\ attempt[j] # NotAsking /\ attempt[k] # NotAsking
       /\ attempt[j].for = attempt[k].for /\ attempt[j].for \in Askers
       => j = k

\* The verifier's answer is about the run as it is stored.
Confirmed(answer, claim, run) ==
  /\ ~run.l2 /\ answer.score = run.result /\ answer.tier = TierOf(run)
  /\ run.kind = "simple" => claim.return = answer.score /\ answer.seen.hash = run.hash

\* What a request has read is in the run's row, and what was decided on it holds of the row.
Reads(a) ==
  a.pc \in {"risk", "verify", "insert"} =>
    /\ a.row \in DOMAIN runs /\ a.read = runs[a.row]
    /\ a.pc # "risk" /\ a.passes => ~a.read.approx /\ ~a.read.liquidated
    /\ a.answer # Unverified => Confirmed(a.answer, a.claim, a.read)

Ranked(p) ==
  /\ p.run \in DOMAIN runs
  /\ p.ranked => LET run == runs[p.run]
                 IN /\ ~run.approx /\ ~run.liquidated /\ ~run.l2
                    /\ p.final = run.result /\ p.tier = TierOf(run)
                    /\ run.kind = "simple" => p.claimed = p.final /\ p.seen.hash = run.hash

Shown(card) ==
  /\ card.run \in DOMAIN runs
  /\ card.published => runs[card.run].consumed /\ runs[card.run].covered

EvidenceInv ==
  /\ EvidenceShaped /\ Awaited
  /\ \A q \in Askers : Reads(asker[q])
  /\ \A p \in passports : Ranked(p)
  /\ \A card \in cards : Shown(card)

LEMMA RunRowIs ==
  ASSUME NEW run \in RunRow
  PROVE  /\ run.kind \in {"simple", "backtest", "paper", "optimize"} /\ run.version \in VersionIds
         /\ run.bars \in Bars \union {NoBars} /\ run.hash \in HashValue
         /\ run.l2 \in BOOLEAN /\ run.approx \in BOOLEAN /\ run.liquidated \in BOOLEAN
         /\ run.consumed \in BOOLEAN /\ run.covered \in BOOLEAN /\ run.fallback \in BOOLEAN
         /\ run.spec \in Specs \union {NoSpec}
         /\ (run.consumed => run.l2) /\ (run.kind = "simple" => ~run.l2)
         /\ run.result \in Bars \union {NoBars, OnBook}
         /\ \A full \in BOOLEAN, result \in Bars \union {NoBars, OnBook} :
              (full => run.l2) => [run EXCEPT !.consumed = full, !.result = result] \in RunRow
         /\ \A h \in HashValue : [run EXCEPT !.hash = h] \in RunRow
<1>1. /\ run.kind \in {"simple", "backtest", "paper", "optimize"} /\ run.version \in VersionIds
      /\ run.bars \in Bars \union {NoBars} /\ run.hash \in HashValue
      /\ run.l2 \in BOOLEAN /\ run.approx \in BOOLEAN /\ run.liquidated \in BOOLEAN
      /\ run.consumed \in BOOLEAN /\ run.covered \in BOOLEAN /\ run.fallback \in BOOLEAN
      /\ run.spec \in Specs \union {NoSpec}
      /\ (run.consumed => run.l2) /\ (run.kind = "simple" => ~run.l2)
      /\ run.result \in Bars \union {NoBars, OnBook}
  BY DEF RunRow
<1>2. ASSUME NEW full \in BOOLEAN, NEW result \in Bars \union {NoBars, OnBook}, full => run.l2
      PROVE  [run EXCEPT !.consumed = full, !.result = result] \in RunRow
  BY <1>2 DEF RunRow
<1>3. ASSUME NEW h \in HashValue
      PROVE  [run EXCEPT !.hash = h] \in RunRow
  BY DEF RunRow
<1> QED BY <1>1, <1>2, <1>3

LEMMA AskerIs ==
  ASSUME EvidenceShaped, NEW q \in Askers
  PROVE  /\ asker[q].pc \in {"call", "waits"} => asker[q] \in RunAsked
         /\ asker[q].pc \in {"risk", "verify", "insert"} => asker[q] \in PassportAsked
         /\ asker[q].pc = "idle" => asker[q] = NotAsking
  BY DEF EvidenceShaped, RunAsked, PassportAsked, NotAsking

LEMMA AttemptIs ==
  ASSUME EvidenceShaped, NEW j \in Attempts
  PROVE  attempt[j].pc \in {"compute", "version", "run", "answer", "refuses"}
           <=> attempt[j] \in AttemptRow /\ attempt[j] # NotAsking
  BY DEF EvidenceShaped, AttemptRow, NotAsking

\* Passports and cards keep what they say while the runs only grow.
LEMMA RunsGrow ==
  ASSUME EvidenceInv, NEW run \in RunRow, runs' = Append(runs, run) \/ runs' = runs
  PROVE  /\ runs' \in Seq(RunRow)
         /\ \A i \in DOMAIN runs : i \in DOMAIN runs' /\ runs'[i] = runs[i]
         /\ \A a : Reads(a) => Reads(a)'
         /\ \A p : Ranked(p) => Ranked(p)'
         /\ \A card : Shown(card) => Shown(card)'
<1>1. runs \in Seq(RunRow)
  BY DEF EvidenceInv, EvidenceShaped
<1>2. runs' \in Seq(RunRow) /\ \A i \in DOMAIN runs : i \in DOMAIN runs' /\ runs'[i] = runs[i]
  BY <1>1
<1>3. ASSUME NEW a, Reads(a) PROVE Reads(a)'
  BY <1>2, <1>3 DEF Reads
<1>4. ASSUME NEW p, Ranked(p) PROVE Ranked(p)'
  BY <1>2, <1>4 DEF Ranked
<1>5. ASSUME NEW card, Shown(card) PROVE Shown(card)'
  BY <1>2, <1>5 DEF Shown
<1> QED BY <1>2, <1>3, <1>4, <1>5

\* Nobody waits anew, and requests stay as they are.
LEMMA TablesMove ==
  ASSUME EvidenceInv, versions' \in [VersionIds -> VersionRow \union {NoRow}],
         runs' = runs, asker' = asker, attempt' = attempt
  PROVE  EvidenceShaped' /\ Awaited' /\ \A q \in Askers : Reads(asker[q])'
<1>1. EvidenceShaped' /\ Awaited'
  BY DEF EvidenceInv, EvidenceShaped, Awaited
<1>2. \A q \in Askers : Reads(asker[q])'
  BY DEF EvidenceInv, Reads
<1> QED BY <1>1, <1>2

LEMMA PapersStay ==
  ASSUME EvidenceInv, runs' = runs, passports' = passports, cards' = cards
  PROVE  (\A p \in passports : Ranked(p))' /\ (\A card \in cards : Shown(card))'
BY DEF EvidenceInv, Ranked, Shown

NobodyWaits(q) == \A j \in Attempts : attempt[j] = NotAsking \/ attempt[j].for # q

\* Request q moves on, the runs and attempts stay.
LEMMA AskerMoves ==
  ASSUME EvidenceInv, NEW q \in Askers,
         NEW a \in RunAsked \union PassportAsked \union {NotAsking}, Becomes(q, a),
         asker[q].pc # "waits", Reads(a), runs' = runs, attempt' = attempt,
         versions' \in [VersionIds -> VersionRow \union {NoRow}]
  PROVE  EvidenceShaped' /\ Awaited' /\ \A r \in Askers : Reads(asker[r])'
<1>1. EvidenceShaped'
  BY DEF EvidenceInv, EvidenceShaped, Becomes
<1>2. \A r \in Askers : asker'[r] = IF r = q THEN a ELSE asker[r]
  BY DEF EvidenceInv, EvidenceShaped, Becomes
<1>3. Awaited'
  BY <1>2 DEF EvidenceInv, Awaited
<1>4. \A r \in Askers : Reads(asker[r])'
  BY <1>2 DEF EvidenceInv, Reads
<1> QED BY <1>1, <1>3, <1>4

-----------------------------------------------------------------------------
(* Strategies, bots, the market and cards. *)

LEMMA WritesKeep ==
  ASSUME EvidenceInv, NEW o \in Owners, Writes(o)
  PROVE  EvidenceInv'
<1>0. versions \in [VersionIds -> VersionRow \union {NoRow}]
  BY DEF EvidenceInv, EvidenceShaped
<1>1. ASSUME NEW v \in Versions, NEW h \in Hashes, WriteVersion(o, v, h) PROVE EvidenceInv'
  <2>1. v \in VersionIds /\ [owner |-> o, hash |-> h] \in VersionRow
    BY DEF VersionIds, VersionRow, HashValue
  <2>2. versions' \in [VersionIds -> VersionRow \union {NoRow}]
    BY <1>0, <1>1, <2>1 DEF WriteVersion
  <2>3. runs' = runs /\ asker' = asker /\ attempt' = attempt /\ passports' = passports /\ cards' = cards
    BY <1>1 DEF WriteVersion
  <2> QED BY <2>2, <2>3, TablesMove, PapersStay DEF EvidenceInv
<1>2. ASSUME NEW s \in Specs, WriteSpec(o, s) \/ Fork(o, s) PROVE EvidenceInv'
  <2>1. UNCHANGED <<versions, runs, passports, cards, market, asker, attempt>>
    BY <1>2 DEF WriteSpec, Fork
  <2>2. /\ versions' = versions /\ runs' = runs /\ asker' = asker /\ attempt' = attempt
        /\ passports' = passports /\ cards' = cards
    BY <2>1
  <2> QED BY <1>0, <2>2, TablesMove, PapersStay DEF EvidenceInv
<1>3. ASSUME NEW i \in DOMAIN runs, NEW tier \in {"verified", "local"}, PublishCard(o, i, tier)
      PROVE  EvidenceInv'
  <2>1. /\ versions' = versions /\ runs' = runs /\ asker' = asker /\ attempt' = attempt
        /\ passports' = passports
        /\ cards' = cards \union {[run |-> i, published |-> Publishable(runs[i], tier)]}
    BY <1>3 DEF PublishCard
  <2>2. Shown([run |-> i, published |-> Publishable(runs[i], tier)])
    BY DEF Shown, Publishable
  <2>3. \A card \in cards' : Shown(card)'
    BY <2>1, <2>2 DEF EvidenceInv, Shown
  <2>4. \A p \in passports' : Ranked(p)'
    BY <2>1 DEF EvidenceInv, Ranked
  <2> QED BY <1>0, <2>1, <2>3, <2>4, TablesMove DEF EvidenceInv
<1> QED BY <1>1, <1>2, <1>3 DEF Writes

LEMMA MarketKeeps == ASSUME EvidenceInv, BookChanges \/ CandlesChange PROVE EvidenceInv'
<1>1. /\ versions' = versions /\ runs' = runs /\ asker' = asker /\ attempt' = attempt
      /\ passports' = passports /\ cards' = cards
  BY DEF BookChanges, CandlesChange, tables
<1>2. versions \in [VersionIds -> VersionRow \union {NoRow}]
  BY DEF EvidenceInv, EvidenceShaped
<1> QED BY <1>1, <1>2, TablesMove, PapersStay DEF EvidenceInv

-----------------------------------------------------------------------------
(* Requests. *)

\* A run that is asked for.
LEMMA CallsKeep ==
  ASSUME EvidenceInv, NEW q \in Askers, NEW o \in Owners, NEW run \in RunRow, Waits(q, "idle"),
         Calls(q, o, run), versions' \in [VersionIds -> VersionRow \union {NoRow}],
         runs' = runs, attempt' = attempt, passports' = passports, cards' = cards
  PROVE  EvidenceInv'
<1> DEFINE a == [pc |-> "call", owner |-> o, run |-> run, calls |-> 0]
<1>1. a \in RunAsked /\ a.pc = "call" /\ Becomes(q, a)
  BY DEF RunAsked, Calls
<1>2. Reads(a)
  BY <1>1 DEF Reads
<1>3. asker[q].pc # "waits"
  BY DEF Waits
<1> HIDE DEF a
<1> QED BY <1>1, <1>2, <1>3, AskerMoves, PapersStay DEF EvidenceInv

LEMMA AsksKeep ==
  ASSUME EvidenceInv, NEW q \in Askers, NEW o \in Owners, Asks(q, o)
  PROVE  EvidenceInv'
<1>0. /\ versions \in [VersionIds -> VersionRow \union {NoRow}] /\ runs \in Seq(RunRow)
      /\ EvidenceShaped
  BY DEF EvidenceInv, EvidenceShaped
<1>b. (CHOOSE b \in Bars : TRUE) \in Bars
  BY EvidenceAssumption
<1>1. ASSUME NEW v \in Versions, NEW b \in Bars \union {NoBars}, NEW liquidated \in BOOLEAN,
             AskBacktest(q, o, v, b, liquidated)
      PROVE  EvidenceInv'
  <2>1. [Run("simple", v, NoSpec, b) EXCEPT !.liquidated = liquidated] \in RunRow
    BY DEF Run, RunRow, VersionIds, HashValue
  <2> QED BY <1>0, <1>1, <2>1, CallsKeep DEF AskBacktest, tables
<1>2. ASSUME NEW v \in Versions, AskOptimizer(q, o, v) PROVE EvidenceInv'
  <2>1. Run("optimize", v, NoSpec, NoBars) \in RunRow
    BY DEF Run, RunRow, VersionIds, HashValue
  <2>2. versions' \in [VersionIds -> VersionRow \union {NoRow}]
    <3>1. v \in VersionIds /\ versions[v] \in VersionRow \union {NoRow}
      BY <1>0 DEF VersionIds
    <3>2. Exists(versions, v) => versions[v].hash \in HashValue
      BY <3>1 DEF Exists, VersionRow
    <3>3. [owner |-> o, hash |-> IF Exists(versions, v) THEN versions[v].hash ELSE Nobody] \in VersionRow
      BY <3>2 DEF VersionRow, HashValue
    <3> QED BY <1>0, <1>2, <3>1, <3>3 DEF AskOptimizer
  <2> QED BY <1>2, <2>1, <2>2, CallsKeep DEF AskOptimizer
<1>3. ASSUME NEW s \in Specs, NEW kind \in {"backtest", "paper"}, NEW l2 \in BOOLEAN,
             NEW fallback \in BOOLEAN, NEW approx \in BOOLEAN, NEW liquidated \in BOOLEAN,
             AskBot(q, o, s, kind, l2, fallback, approx, liquidated)
      PROVE  EvidenceInv'
  <2> DEFINE bars == CHOOSE b \in Bars : TRUE
             BotRun(cov, app) == [Run(kind, BotVersion(s, kind), s, bars)
                                    EXCEPT !.l2 = l2, !.liquidated = liquidated,
                                           !.fallback = fallback, !.covered = cov, !.approx = app]
  <2>1. BotVersion(s, kind) \in VersionIds
    BY DEF BotVersion, VersionIds, BotVersions
  <2>2. bars \in Bars
    BY <1>b
  <2>3. /\ Waits(q, "idle") /\ UNCHANGED <<tables, market, attempt>>
        /\ Calls(q, o, BotRun(book = "full", approx /\ book = "none"))
    BY <1>3 DEF AskBot
  <2> HIDE DEF bars
  <2>4. ASSUME NEW cov \in BOOLEAN, NEW app \in BOOLEAN
        PROVE  BotRun(cov, app) \in RunRow
    <3> DEFINE Unrun == {run \in RunRow : ~run.consumed /\ run.kind # "simple"}
    <3>1. Run(kind, BotVersion(s, kind), s, bars) \in Unrun
      BY <2>1, <2>2 DEF Run, RunRow, HashValue
    <3>2. ASSUME NEW r \in Unrun, NEW x \in BOOLEAN
          PROVE  /\ [r EXCEPT !.l2 = x] \in Unrun /\ [r EXCEPT !.liquidated = x] \in Unrun
                 /\ [r EXCEPT !.fallback = x] \in Unrun /\ [r EXCEPT !.covered = x] \in Unrun
                 /\ [r EXCEPT !.approx = x] \in Unrun
      <4>1. /\ [r EXCEPT !.l2 = x] \in Unrun /\ [r EXCEPT !.liquidated = x] \in Unrun
        BY DEF RunRow
      <4>2. /\ [r EXCEPT !.fallback = x] \in Unrun /\ [r EXCEPT !.covered = x] \in Unrun
        BY DEF RunRow
      <4>3. [r EXCEPT !.approx = x] \in Unrun
        BY DEF RunRow
      <4> QED BY <4>1, <4>2, <4>3
    <3> DEFINE r1 == [Run(kind, BotVersion(s, kind), s, bars) EXCEPT !.l2 = l2]
               r2 == [r1 EXCEPT !.liquidated = liquidated]
               r3 == [r2 EXCEPT !.fallback = fallback]
               r4 == [r3 EXCEPT !.covered = cov]
               r5 == [r4 EXCEPT !.approx = app]
    <3>3. BotRun(cov, app) = r5
      OBVIOUS
    <3> HIDE DEF Unrun
    <3>4. r5 \in Unrun
      <4>1. r1 \in Unrun
        BY <3>1, <3>2
      <4> HIDE DEF r1
      <4>2. r2 \in Unrun
        BY <3>2, <4>1
      <4> HIDE DEF r2
      <4>3. r3 \in Unrun
        BY <3>2, <4>2
      <4> HIDE DEF r3
      <4>4. r4 \in Unrun
        BY <3>2, <4>3
      <4> HIDE DEF r4
      <4> QED BY <3>2, <4>4
    <3> QED BY <3>3, <3>4 DEF Unrun
  <2> HIDE DEF BotRun
  <2>5. BotRun(book = "full", approx /\ book = "none") \in RunRow
    BY <2>4
  <2> QED BY <1>0, <2>3, <2>5, CallsKeep DEF tables
<1>4. ASSUME NEW i \in DOMAIN runs, NEW claim \in Claims, AskPassport(q, o, i, claim)
      PROVE  EvidenceInv'
  <2> DEFINE a == [pc |-> "risk", owner |-> o, row |-> i, claim |-> claim,
                   read |-> runs[i], passes |-> FALSE, answer |-> Unverified]
  <2>1. a \in PassportAsked
    BY <1>0 DEF PassportAsked, AnswerRow, Unverified
  <2>2. Reads(a)
    BY DEF Reads
  <2>3. /\ Becomes(q, a) /\ asker[q].pc # "waits" /\ versions' = versions /\ runs' = runs
        /\ attempt' = attempt /\ passports' = passports /\ cards' = cards
    BY <1>4 DEF AskPassport, Waits, tables
  <2> HIDE DEF a
  <2> QED BY <1>0, <2>1, <2>2, <2>3, AskerMoves, PapersStay DEF EvidenceInv
<1> QED BY <1>1, <1>2, <1>3, <1>4 DEF Asks

\* The call of the worker: an attempt begins that the request waits for.
LEMMA CallKeeps ==
  ASSUME EvidenceInv, NEW q \in Askers, NEW j \in Attempts, Call(q, j)
  PROVE  EvidenceInv'
<1>0. EvidenceShaped /\ Awaited /\ versions \in [VersionIds -> VersionRow \union {NoRow}]
  BY DEF EvidenceInv, EvidenceShaped
<1>1. asker[q] \in RunAsked /\ asker[q].pc = "call" /\ attempt[j] = NotAsking
  BY <1>0, AskerIs DEF Call, Waits
<1> DEFINE a == [asker[q] EXCEPT !.pc = "waits", !.calls = @ + 1]
           t == [pc |-> "compute", for |-> q, run |-> asker[q].run]
<1>2. a \in RunAsked /\ a.pc = "waits"
  <2>1. asker[q].calls \in Nat /\ asker[q].calls + 1 \in Nat
    BY <1>1 DEF RunAsked
  <2>2. \A n \in Nat : /\ [asker[q] EXCEPT !.pc = "waits", !.calls = n] \in RunAsked
                       /\ [asker[q] EXCEPT !.pc = "waits", !.calls = n].pc = "waits"
    BY <1>1 DEF RunAsked
  <2> QED BY <2>1, <2>2
<1>3. t \in AttemptRow /\ t # NotAsking /\ t.for = q
  BY <1>1 DEF AttemptRow, RunAsked, NotAsking
<1>4. /\ asker' = [asker EXCEPT ![q] = a] /\ attempt' = [attempt EXCEPT ![j] = t]
      /\ runs' = runs /\ versions' = versions /\ passports' = passports /\ cards' = cards
  BY DEF Call, Becomes, tables
<1> HIDE DEF a, t
<1>5. EvidenceShaped'
  BY <1>0, <1>2, <1>3, <1>4 DEF EvidenceShaped
<1>6. /\ \A r \in Askers : asker'[r] = IF r = q THEN a ELSE asker[r]
      /\ \A k \in Attempts : attempt'[k] = IF k = j THEN t ELSE attempt[k]
  BY <1>0, <1>4 DEF EvidenceShaped
<1>7. \A k \in Attempts : attempt[k] # NotAsking => attempt[k].for # q
  BY <1>0, <1>1 DEF Awaited
<1>8. Awaited'
  BY <1>0, <1>2, <1>3, <1>6, <1>7 DEF Awaited
<1>9. \A r \in Askers : Reads(asker[r])'
  BY <1>2, <1>4, <1>6 DEF EvidenceInv, Reads
<1> QED BY <1>4, <1>5, <1>8, <1>9, PapersStay DEF EvidenceInv

\* The request gives an attempt up, or all of them.
LEMMA CallLostKeeps ==
  ASSUME EvidenceInv, NEW q \in Askers, CallLost(q)
  PROVE  EvidenceInv'
<1>0. EvidenceShaped /\ Awaited
  BY DEF EvidenceInv
<1>1. asker[q] \in RunAsked
  BY <1>0, AskerIs DEF CallLost, Waits
<1>2. PICK a \in {[asker[q] EXCEPT !.pc = "call"], NotAsking} : asker' = [asker EXCEPT ![q] = a]
  BY DEF CallLost, Becomes, Leaves
<1>3. a \in RunAsked \union {NotAsking} /\ a.pc \notin {"risk", "verify", "insert"}
  BY <1>1, <1>2 DEF RunAsked, NotAsking
<1>4. /\ attempt' = [j \in Attempts |-> IF attempt[j] # NotAsking /\ attempt[j].for = q
                                        THEN [attempt[j] EXCEPT !.for = Nobody] ELSE attempt[j]]
      /\ runs' = runs /\ versions' = versions /\ passports' = passports /\ cards' = cards
  BY DEF CallLost, tables
<1>5. \A j \in Attempts : attempt[j] \in AttemptRow \union {NotAsking}
  BY <1>0 DEF EvidenceShaped
<1>6. ASSUME NEW j \in Attempts
      PROVE  IF attempt[j] # NotAsking /\ attempt[j].for = q
             THEN /\ attempt'[j] \in AttemptRow /\ attempt'[j].for = Nobody
             ELSE attempt'[j] = attempt[j]
  <2>1. CASE attempt[j] # NotAsking /\ attempt[j].for = q
    <3>1. attempt[j] \in AttemptRow /\ attempt'[j] = [attempt[j] EXCEPT !.for = Nobody]
      BY <1>4, <1>5, <2>1
    <3> QED BY <2>1, <3>1 DEF AttemptRow
  <2>2. CASE ~(attempt[j] # NotAsking /\ attempt[j].for = q)
    BY <1>4, <2>2
  <2> QED BY <2>1, <2>2
<1>7. EvidenceShaped'
  <2>1. attempt' \in [Attempts -> AttemptRow \union {NotAsking}]
    BY <1>4, <1>5, <1>6
  <2> QED BY <1>0, <1>2, <1>3, <1>4, <2>1 DEF EvidenceShaped
<1>8. \A r \in Askers : asker'[r] = IF r = q THEN a ELSE asker[r]
  BY <1>0, <1>2 DEF EvidenceShaped
<1>9. ASSUME NEW j \in Attempts, attempt'[j] # NotAsking, attempt'[j].for \in Askers
      PROVE  attempt'[j] = attempt[j] /\ attempt[j].for # q
  BY <1>6, <1>9, NobodyAssumption
<1>10. Awaited'
  BY <1>0, <1>8, <1>9 DEF Awaited
<1>11. \A r \in Askers : Reads(asker[r])'
  BY <1>3, <1>4, <1>8 DEF EvidenceInv, Reads
<1> QED BY <1>4, <1>7, <1>10, <1>11, PapersStay DEF EvidenceInv

\* The gates, the verifier and the insert.
LEMMA PassportKeeps ==
  ASSUME EvidenceInv, NEW q \in Askers, PassportRisk(q) \/ Verify(q) \/ InsertPassport(q)
  PROVE  EvidenceInv'
<1>0. /\ EvidenceShaped /\ versions \in [VersionIds -> VersionRow \union {NoRow}]
      /\ runs \in Seq(RunRow) /\ Reads(asker[q])
  BY DEF EvidenceInv, EvidenceShaped
<1>1. /\ asker[q] \in PassportAsked /\ asker[q].pc # "waits" /\ asker[q].row \in DOMAIN runs
      /\ asker[q].read = runs[asker[q].row]
  BY <1>0, AskerIs DEF PassportRisk, Verify, InsertPassport, Waits, Reads
<1>2. /\ versions' = versions /\ runs' = runs /\ attempt' = attempt /\ cards' = cards
  BY DEF PassportRisk, Verify, InsertPassport, tables
<1>3. /\ asker[q].read \in RunRow /\ asker[q].passes \in BOOLEAN /\ asker[q].claim \in Claims
  BY <1>1 DEF PassportAsked
<1>4. CASE PassportRisk(q)
  <2> DEFINE passes == Gates(asker[q].claim, asker[q].read)
             pc == IF asker[q].claim.verify THEN "verify" ELSE "insert"
             a == [asker[q] EXCEPT !.pc = pc, !.passes = passes]
  <2>1. Becomes(q, a) /\ passports' = passports
    BY <1>4 DEF PassportRisk, tables
  <2>2. passes \in BOOLEAN /\ (passes => ~asker[q].read.approx /\ ~asker[q].read.liquidated)
    BY DEF Gates
  <2>3. pc \in {"verify", "insert"}
    OBVIOUS
  <2> HIDE DEF passes, pc
  <2>4. /\ a \in PassportAsked /\ a.pc = pc /\ a.passes = passes /\ a.row = asker[q].row
        /\ a.read = asker[q].read /\ a.answer = asker[q].answer /\ a.claim = asker[q].claim
    BY <1>1, <2>2, <2>3 DEF PassportAsked
  <2> HIDE DEF a
  <2>5. Reads(a)
    <3>1. asker[q].answer # Unverified => Confirmed(asker[q].answer, asker[q].claim, asker[q].read)
      BY <1>0, <1>4 DEF Reads, PassportRisk, Waits
    <3> QED BY <1>1, <2>2, <2>3, <2>4, <3>1 DEF Reads
  <2> QED BY <1>0, <1>1, <1>2, <2>1, <2>4, <2>5, AskerMoves, PapersStay DEF EvidenceInv
<1>5. CASE Verify(q)
  <2> DEFINE run == runs[asker[q].row]
             confirmed == [score |-> Replay(run), tier |-> TierOf(run),
                           seen |-> versions[run.version]]
  <2>1. PICK answer \in {asker[q].answer, confirmed} :
          /\ Becomes(q, [asker[q] EXCEPT !.pc = "insert", !.answer = answer])
          /\ answer = confirmed =>
               answer = asker[q].answer \/ (Reproduces(run) /\ StandsBy(run, asker[q].claim))
    <3>1. CASE /\ Reproduces(run) /\ StandsBy(run, asker[q].claim)
               /\ Becomes(q, [asker[q] EXCEPT !.pc = "insert", !.answer = confirmed])
      BY <3>1
    <3>2. CASE Becomes(q, [asker[q] EXCEPT !.pc = "insert"])
      <4>1. [asker[q] EXCEPT !.pc = "insert"]
              = [asker[q] EXCEPT !.pc = "insert", !.answer = asker[q].answer]
        BY <1>1 DEF PassportAsked
      <4> QED BY <3>2, <4>1
    <3> QED BY <1>5, <3>1, <3>2 DEF Verify
  <2>2. run \in RunRow /\ asker[q].answer \in AnswerRow
    BY <1>1, <1>3 DEF PassportAsked
  <2>3. ASSUME Reproduces(run), StandsBy(run, asker[q].claim)
        PROVE  confirmed \in AnswerRow /\ Confirmed(confirmed, asker[q].claim, run)
    <3>1. Replay(run) = run.result /\ ~run.l2
      BY <2>2, <2>3, RunRowIs DEF Reproduces, Replay
    <3>2. versions[run.version] \in VersionRow \union {NoRow}
      BY <1>0, <2>2, RunRowIs
    <3> HIDE DEF run
    <3>3. confirmed \in AnswerRow
      BY <2>2, <3>1, <3>2, RunRowIs DEF AnswerRow, TierOf
    <3>4. Confirmed(confirmed, asker[q].claim, run)
      BY <2>3, <3>1 DEF Confirmed, StandsBy
    <3> QED BY <3>3, <3>4
  <2> DEFINE a == [asker[q] EXCEPT !.pc = "insert", !.answer = answer]
  <2>4. answer \in AnswerRow
    BY <2>1, <2>2, <2>3
  <2>5. /\ a \in PassportAsked /\ a.pc = "insert" /\ a.passes = asker[q].passes
        /\ a.row = asker[q].row /\ a.read = asker[q].read /\ a.claim = asker[q].claim
        /\ a.answer = answer
    BY <1>1, <2>4 DEF PassportAsked
  <2>6. asker[q].pc = "verify"
    BY <1>5 DEF Verify, Waits
  <2>7. answer # Unverified => Confirmed(answer, asker[q].claim, asker[q].read)
    <3>1. asker[q].answer # Unverified => Confirmed(asker[q].answer, asker[q].claim, asker[q].read)
      BY <1>0, <2>6 DEF Reads
    <3> HIDE DEF confirmed
    <3> QED BY <1>1, <2>1, <2>3, <3>1
  <2>8. Becomes(q, a) /\ passports' = passports
    BY <1>5, <2>1 DEF Verify, tables
  <2> HIDE DEF a
  <2>9. Reads(a)
    BY <1>0, <1>1, <2>5, <2>6, <2>7 DEF Reads
  <2> QED BY <1>0, <1>1, <1>2, <2>5, <2>8, <2>9, AskerMoves, PapersStay DEF EvidenceInv
<1>6. CASE InsertPassport(q)
  <2> DEFINE answer == asker[q].answer
             p == [run |-> asker[q].row, tier |-> answer.tier, seen |-> answer.seen,
                   ranked |-> answer # Unverified /\ asker[q].passes,
                   final |-> IF asker[q].passes THEN answer.score ELSE "none",
                   claimed |-> asker[q].claim.return]
  <2>1. passports' = passports \union {p} /\ Becomes(q, NotAsking)
    BY <1>6 DEF InsertPassport, Leaves
  <2>2. Ranked(p)
    <3>1. ASSUME answer # Unverified, asker[q].passes
          PROVE  LET run == runs[p.run]
                 IN /\ ~run.approx /\ ~run.liquidated /\ ~run.l2
                    /\ p.final = run.result /\ p.tier = TierOf(run)
                    /\ run.kind = "simple" => p.claimed = p.final /\ p.seen.hash = run.hash
      <4>1. asker[q].pc = "insert"
        BY <1>6 DEF InsertPassport, Waits
      <4>2. Confirmed(answer, asker[q].claim, asker[q].read)
        BY <1>0, <3>1, <4>1 DEF Reads
      <4>3. ~asker[q].read.approx /\ ~asker[q].read.liquidated
        BY <1>0, <3>1, <4>1 DEF Reads
      <4> QED BY <1>1, <3>1, <4>2, <4>3 DEF Confirmed
    <3> QED BY <1>1, <3>1 DEF Ranked
  <2> HIDE DEF p, answer
  <2>3. \A r \in passports' : Ranked(r)'
    BY <1>2, <2>1, <2>2 DEF EvidenceInv, Ranked
  <2>4. \A card \in cards' : Shown(card)'
    BY <1>2 DEF EvidenceInv, Shown
  <2>5. Reads(NotAsking)
    BY DEF Reads, NotAsking
  <2> QED BY <1>0, <1>1, <1>2, <2>1, <2>3, <2>4, <2>5, AskerMoves DEF EvidenceInv
<1> QED BY <1>4, <1>5, <1>6

-----------------------------------------------------------------------------
(* Attempts. *)

\* Attempt j goes on for the same request.
LEMMA AttemptMoves ==
  ASSUME EvidenceInv, NEW j \in Attempts, attempt[j] # NotAsking, NEW t \in AttemptRow,
         t.for = attempt[j].for, attempt' = [attempt EXCEPT ![j] = t],
         asker' = asker, NEW run \in RunRow, runs' = Append(runs, run) \/ runs' = runs,
         versions' \in [VersionIds -> VersionRow \union {NoRow}],
         passports' = passports, cards' = cards
  PROVE  EvidenceInv'
<1>1. runs' \in Seq(RunRow)
  BY RunsGrow
<1>2. EvidenceShaped'
  BY <1>1 DEF EvidenceInv, EvidenceShaped
<1>3. \A k \in Attempts : attempt'[k] = IF k = j THEN t ELSE attempt[k]
  BY DEF EvidenceInv, EvidenceShaped
<1>4. Awaited'
  BY <1>3 DEF EvidenceInv, Awaited
<1>5. \A q \in Askers : Reads(asker[q])'
  BY RunsGrow DEF EvidenceInv, Reads
<1>6. (\A p \in passports : Ranked(p))' /\ (\A card \in cards : Shown(card))'
  BY RunsGrow DEF EvidenceInv
<1> QED BY <1>2, <1>4, <1>5, <1>6 DEF EvidenceInv

\* Attempt j is over, and the request that waited for it goes on.
LEMMA AttemptEnds ==
  ASSUME EvidenceInv, NEW j \in Attempts, attempt[j] # NotAsking,
         attempt' = [attempt EXCEPT ![j] = NotAsking],
         IF attempt[j].for \in Askers
         THEN \E a \in {[asker[attempt[j].for] EXCEPT !.pc = "call"], NotAsking} :
                Becomes(attempt[j].for, a)
         ELSE asker' = asker,
         versions' = versions, runs' = runs, passports' = passports, cards' = cards
  PROVE  EvidenceInv'
<1>0. EvidenceShaped /\ Awaited
  BY DEF EvidenceInv
<1>1. \A k \in Attempts : attempt'[k] = IF k = j THEN NotAsking ELSE attempt[k]
  BY <1>0 DEF EvidenceShaped
<1>2. CASE attempt[j].for \in Askers
  <2> DEFINE q == attempt[j].for
  <2>1. q \in Askers /\ asker[q].pc = "waits"
    BY <1>0, <1>2 DEF Awaited
  <2>2. asker[q] \in RunAsked
    BY <1>0, <2>1, AskerIs
  <2>3. PICK a \in {[asker[q] EXCEPT !.pc = "call"], NotAsking} : asker' = [asker EXCEPT ![q] = a]
    BY <1>2 DEF Becomes
  <2>4. a \in RunAsked \union {NotAsking} /\ a.pc \notin {"risk", "verify", "insert"}
    BY <2>2, <2>3 DEF RunAsked, NotAsking
  <2>5. \A r \in Askers : asker'[r] = IF r = q THEN a ELSE asker[r]
    BY <1>0, <2>3 DEF EvidenceShaped
  <2>6. EvidenceShaped'
    BY <1>0, <2>1, <2>3, <2>4 DEF EvidenceShaped
  <2>7. ASSUME NEW k \in Attempts, attempt'[k] # NotAsking, attempt'[k].for \in Askers
        PROVE  attempt'[k] = attempt[k] /\ attempt[k].for # q
    BY <1>0, <1>1, <1>2, <2>7 DEF Awaited
  <2> HIDE DEF q
  <2>8. Awaited'
    BY <1>0, <2>5, <2>7 DEF Awaited
  <2>9. \A r \in Askers : Reads(asker[r])'
    BY <2>4, <2>5 DEF EvidenceInv, Reads
  <2> QED BY <2>6, <2>8, <2>9, PapersStay DEF EvidenceInv
<1>3. CASE attempt[j].for \notin Askers
  <2>1. asker' = asker
    BY <1>3
  <2>2. EvidenceShaped'
    BY <1>0, <2>1 DEF EvidenceShaped
  <2>3. Awaited'
    BY <1>0, <1>1, <2>1 DEF Awaited
  <2>4. \A r \in Askers : Reads(asker[r])'
    BY <2>1 DEF EvidenceInv, Reads
  <2> QED BY <2>2, <2>3, <2>4, PapersStay DEF EvidenceInv
<1> QED BY <1>2, <1>3

LEMMA AttemptingKeeps ==
  ASSUME EvidenceInv, NEW j \in Attempts, Attempting(j)
  PROVE  EvidenceInv'
<1>0. /\ EvidenceShaped /\ versions \in [VersionIds -> VersionRow \union {NoRow}]
      /\ runs \in Seq(RunRow) /\ attempt[j] \in AttemptRow \union {NotAsking}
      /\ attempt \in [Attempts -> AttemptRow \union {NotAsking}]
  BY DEF EvidenceInv, EvidenceShaped
<1>1. attempt[j] \in AttemptRow /\ attempt[j] # NotAsking
  BY <1>0, AttemptIs
    DEF Attempting, Compute, StoreVersion, StoreRun, Respond, AttemptDies
<1>2. Computing(j) = attempt[j].run /\ Computing(j) \in RunRow
  BY <1>1 DEF AttemptRow, Computing
<1>3. CASE Compute(j)
  <2>1. PICK result \in {Computing(j).bars, OnBook}, full \in BOOLEAN, refused \in BOOLEAN :
          /\ full => Computing(j).l2
          /\ attempt' = [attempt EXCEPT ![j] =
               IF refused THEN [@ EXCEPT !.pc = "refuses"]
               ELSE [@ EXCEPT !.pc = IF Computing(j).kind = "optimize" THEN "run" ELSE "version",
                              !.run.consumed = full, !.run.result = result]]
    BY <1>3 DEF Compute
  <2> DEFINE pc == IF Computing(j).kind = "optimize" THEN "run" ELSE "version"
             run == [attempt[j].run EXCEPT !.consumed = full, !.result = result]
             t == IF refused THEN [attempt[j] EXCEPT !.pc = "refuses"]
                  ELSE [attempt[j] EXCEPT !.pc = pc, !.run = run]
  <2>2. attempt' = [attempt EXCEPT ![j] = t]
    BY <1>0, <2>1
  <2>3. run \in RunRow /\ pc \in {"run", "version"}
    BY <1>2, <2>1, RunRowIs
  <2> HIDE DEF run, pc
  <2>4. t \in AttemptRow /\ t.for = attempt[j].for
    BY <1>1, <2>3 DEF AttemptRow
  <2>5. /\ versions' = versions /\ runs' = runs /\ asker' = asker
        /\ passports' = passports /\ cards' = cards
    BY <1>3 DEF Compute, tables
  <2> HIDE DEF t
  <2> QED BY <1>0, <1>1, <1>2, <2>2, <2>4, <2>5, AttemptMoves
<1>4. CASE StoreVersion(j)
  <2> DEFINE v == Computing(j).version
             there == IF Exists(versions, v) THEN versions[v] ELSE [owner |-> Nobody, hash |-> Nobody]
             row == IF Computing(j).kind = "simple" THEN there
                    ELSE [there EXCEPT !.hash = Computing(j).spec]
             run == [attempt[j].run EXCEPT !.hash = row.hash]
             t == [attempt[j] EXCEPT !.pc = "run", !.run = run]
  <2>1. /\ versions' = [versions EXCEPT ![v] = row]
        /\ attempt' = [attempt EXCEPT ![j].pc = "run", ![j].run.hash = row.hash]
        /\ runs' = runs /\ asker' = asker /\ passports' = passports /\ cards' = cards
    BY <1>4 DEF StoreVersion
  <2>2. v \in VersionIds /\ there \in VersionRow
    BY <1>0, <1>2, RunRowIs DEF Exists, VersionRow, HashValue
  <2>3. row \in VersionRow /\ row.hash \in HashValue
    BY <1>2, <2>2, RunRowIs DEF VersionRow, HashValue
  <2> HIDE DEF row, there, v
  <2>4. versions' \in [VersionIds -> VersionRow \union {NoRow}]
    BY <1>0, <2>1, <2>2, <2>3
  <2>5. run \in RunRow
    BY <1>2, <2>3, RunRowIs
  <2>6. attempt' = [attempt EXCEPT ![j] = t]
    BY <1>0, <1>1, <2>1
  <2> HIDE DEF run
  <2>7. t \in AttemptRow /\ t.for = attempt[j].for
    BY <1>1, <2>5 DEF AttemptRow
  <2> HIDE DEF t
  <2> QED BY <1>0, <1>1, <1>2, <2>1, <2>4, <2>6, <2>7, AttemptMoves
<1>5. CASE StoreRun(j)
  <2> DEFINE t == [attempt[j] EXCEPT !.pc = "answer"]
  <2>1. /\ attempt' = [attempt EXCEPT ![j] = t] /\ runs' = Append(runs, Computing(j))
        /\ versions' = versions /\ asker' = asker /\ passports' = passports /\ cards' = cards
    BY <1>0, <1>5 DEF StoreRun, Moves
  <2>2. t \in AttemptRow /\ t.for = attempt[j].for
    BY <1>1 DEF AttemptRow
  <2> HIDE DEF t
  <2> QED BY <1>0, <1>1, <1>2, <2>1, <2>2, AttemptMoves
<1>6. CASE Respond(j) \/ AttemptDies(j)
  <2>1. /\ attempt' = [attempt EXCEPT ![j] = NotAsking] /\ versions' = versions /\ runs' = runs
        /\ passports' = passports /\ cards' = cards
    BY <1>6 DEF Respond, AttemptDies, tables
  <2>2. IF attempt[j].for \in Askers
        THEN \E a \in {[asker[attempt[j].for] EXCEPT !.pc = "call"], NotAsking} :
               Becomes(attempt[j].for, a)
        ELSE asker' = asker
    BY <1>6 DEF Respond, AttemptDies, Leaves
  <2> QED BY <1>1, <2>1, <2>2, AttemptEnds
<1> QED BY <1>3, <1>4, <1>5, <1>6 DEF Attempting

-----------------------------------------------------------------------------
\* What a request read stays in the row of its run, for requests of runs, passports and
\* cards, whatever other requests, attempts and changes of the market data come between
\* the steps of its handler (index.ts).
THEOREM EvidenceInvariant == EvidenceSpec => []EvidenceInv
<1>1. EvidenceInit => EvidenceInv
  <2> SUFFICES ASSUME EvidenceInit PROVE EvidenceInv
    OBVIOUS
  <2>1. EvidenceShaped
    BY DEF EvidenceInit, EvidenceShaped, VersionIds
  <2>2. Awaited
    BY DEF EvidenceInit, Awaited
  <2>3. \A q \in Askers : Reads(asker[q])
    BY DEF EvidenceInit, Reads, NotAsking
  <2>4. passports = {} /\ cards = {}
    BY DEF EvidenceInit
  <2> QED BY <2>1, <2>2, <2>3, <2>4 DEF EvidenceInv
<1>2. EvidenceInv /\ [EvidenceNext]_evidenceVars => EvidenceInv'
  <2> SUFFICES ASSUME EvidenceInv, [EvidenceNext]_evidenceVars PROVE EvidenceInv'
    OBVIOUS
  <2>1. ASSUME NEW o \in Owners, Writes(o) PROVE EvidenceInv'
    BY <2>1, WritesKeep
  <2>2. ASSUME NEW o \in Owners, NEW q \in Askers, Asks(q, o) PROVE EvidenceInv'
    BY <2>2, AsksKeep
  <2>3. ASSUME NEW q \in Askers, Serves(q) PROVE EvidenceInv'
    BY <2>3, CallLostKeeps, CallKeeps, PassportKeeps DEF Serves
  <2>4. ASSUME NEW j \in Attempts, Attempting(j) PROVE EvidenceInv'
    BY <2>4, AttemptingKeeps
  <2>5. CASE BookChanges \/ CandlesChange
    BY <2>5, MarketKeeps
  <2>6. CASE UNCHANGED evidenceVars
    <3>1. /\ versions' = versions /\ runs' = runs /\ asker' = asker /\ attempt' = attempt
          /\ passports' = passports /\ cards' = cards
      BY <2>6 DEF evidenceVars, tables
    <3>2. versions \in [VersionIds -> VersionRow \union {NoRow}]
      BY DEF EvidenceInv, EvidenceShaped
    <3> QED BY <3>1, <3>2, TablesMove, PapersStay DEF EvidenceInv
  <2> QED BY <2>1, <2>2, <2>3, <2>4, <2>5, <2>6 DEF EvidenceNext
<1> QED BY <1>1, <1>2, PTL DEF EvidenceSpec

LEMMA EvidenceInvHolds == ASSUME EvidenceInv PROVE EvidenceHolds
<1>1. RankedIsReplayed
  BY DEF EvidenceInv, Ranked, RankedIsReplayed, TierOf
<1>2. CardsComeFromTheBook
  <2>1. ASSUME NEW card \in cards, card.published
        PROVE  /\ runs[card.run].consumed /\ runs[card.run].covered /\ runs[card.run].l2
               /\ \A p \in passports : p.run = card.run => ~p.ranked
    <3>1. card.run \in DOMAIN runs /\ runs[card.run].consumed /\ runs[card.run].covered
      BY <2>1 DEF EvidenceInv, Shown
    <3>2. runs[card.run] \in RunRow
      BY <3>1 DEF EvidenceInv, EvidenceShaped
    <3>3. runs[card.run].l2
      BY <3>1, <3>2, RunRowIs
    <3>4. \A p \in passports : p.run = card.run => ~p.ranked
      BY <3>3 DEF EvidenceInv, Ranked
    <3> QED BY <3>1, <3>3, <3>4
  <2> QED BY <2>1 DEF CardsComeFromTheBook
<1> QED BY <1>1, <1>2 DEF EvidenceHolds

\* For any owners, versions, series of bars and numbers of attempts: a ranked passport is of
\* a run without approximate fills and liquidations, and its score is what the run computed,
\* whichever candles, book and versions the verifier found; that of a simple run is what was
\* claimed for it; and a published card is of a run whose fills consumed the book
\* (index.ts:2909, 3092, verifier/main.py:406-477, replay_core.py:133).
THEOREM EvidenceIsReplayed == EvidenceSpec => []EvidenceHolds
BY EvidenceInvariant, EvidenceInvHolds, PTL

-----------------------------------------------------------------------------
(* Sessions of ticks. *)
Types == {"stale", "waiting", "ingested", "FILL", "REBUILD_COMPLETED"}
LogRow == [type : Types, symbol : Markets \union {Unknown}]
TickRead == [pc : {"session", "decide", "price", "fresh"}, symbol : Markets, price : TickPrices,
             stale : BOOLEAN, reconnecting : BOOLEAN, fresh : Nat, last : Nat]
RebuildRead == [pc : {"delete", "insert", "event"}, qty : Nat, symbol : Markets \union {Unknown}]
Statuses == {"none", "active", "stopped", "paused", "waiting_fresh_ticks"}

SessionShaped ==
  /\ sessionRow \in [status : Statuses, reconnecting : BOOLEAN]
  /\ log \in Seq(LogRow)
  /\ held \in [Markets \union {Unknown} -> Nat]
  /\ counters \in [fresh : Nat, last : [Markets -> Nat]]
  /\ request \in [Handlers -> TickRead \union RebuildRead \union {NoRequest}]
  /\ usedUp \in [ticks : Nat, rebuilds : Nat, creates : Nat, lost : Nat]

\* Until the first rebuild no request is one, and the positions are the fills.
Unrebuilt == usedUp.rebuilds = 0 => \A r \in Handlers : request[r] \notin RebuildRead

BooksInv == SessionShaped /\ Unrebuilt /\ TicksKeepBooks

LEMMA RequestIs ==
  ASSUME SessionShaped, NEW r \in Handlers
  PROVE  /\ request[r].pc \in {"session", "decide", "price", "fresh"} => request[r] \in TickRead
         /\ request[r].pc \in {"delete", "insert", "event"} => request[r] \in RebuildRead
         /\ request[r].pc = "idle" => request[r] = NoRequest
BY DEF SessionShaped, TickRead, RebuildRead, NoRequest

\* The events of a kind between two places of a log.
Between(l, i, n, T) == {k \in i + 1..n : l[k].type \in T}

\* The steps of a log: nothing, an event, or an event and a fill.
Logs(t, fills, s) ==
  log' = log \o <<Event(t, s)>> \o (IF fills THEN <<Event("FILL", s)>> ELSE <<>>)

LEMMA LogsAre ==
  ASSUME log \in Seq(LogRow), NEW t \in Types, NEW fills \in BOOLEAN,
         NEW s \in Markets \union {Unknown}, Logs(t, fills, s)
  PROVE  /\ log' \in Seq(LogRow)
         /\ Len(log') = Len(log) + (IF fills THEN 2 ELSE 1)
         /\ \A i \in 1..Len(log) : log'[i] = log[i]
         /\ log'[Len(log) + 1] = Event(t, s)
         /\ fills => log'[Len(log) + 2] = Event("FILL", s)
<1> DEFINE e == Event(t, s)
           f == Event("FILL", s)
<1>1. e \in LogRow /\ f \in LogRow
  BY DEF Event, LogRow, Types
<1> HIDE DEF e, f
<1>2. CASE fills
  <2>1. log' = (log \o <<e>>) \o <<f>>
    BY <1>2 DEF Logs, e, f
  <2>2. /\ log \o <<e>> \in Seq(LogRow) /\ Len(log \o <<e>>) = Len(log) + 1
        /\ (log \o <<e>>)[Len(log) + 1] = e
        /\ \A i \in 1..Len(log) : (log \o <<e>>)[i] = log[i]
    BY <1>1
  <2>3. /\ log' \in Seq(LogRow) /\ Len(log') = Len(log) + 2 /\ log'[Len(log) + 2] = f
        /\ log'[Len(log) + 1] = e /\ \A i \in 1..Len(log) : log'[i] = log[i]
    BY <1>1, <2>1, <2>2
  <2> QED BY <1>2, <2>3 DEF e, f
<1>3. CASE ~fills
  <2>1. log' = (log \o <<e>>) \o <<>>
    BY <1>3 DEF Logs, e
  <2>2. log' \in Seq(LogRow) /\ Len(log') = Len(log) + 1
        /\ log'[Len(log) + 1] = e /\ \A i \in 1..Len(log) : log'[i] = log[i]
    BY <1>1, <2>1
  <2> QED BY <1>3, <2>2 DEF e
<1> QED BY <1>2, <1>3

\* The fills of a symbol after it.
LEMMA FillsCount ==
  ASSUME log \in Seq(LogRow), NEW t \in Types \ {"FILL"}, NEW fills \in BOOLEAN,
         NEW s \in Markets \union {Unknown}, Logs(t, fills, s), NEW m
  PROVE  /\ FillsOf(m) \in Nat
         /\ FillsOf(m)' = FillsOf(m) + (IF fills /\ s = m THEN 1 ELSE 0)
<1> DEFINE F == {i \in DOMAIN log : log[i].type = "FILL" /\ log[i].symbol = m}
           G == {i \in DOMAIN log' : log'[i].type = "FILL" /\ log'[i].symbol = m}
           n == Len(log)
<1>0. n \in Nat /\ DOMAIN log = 1..n
  OBVIOUS
<1>1. /\ log' \in Seq(LogRow) /\ Len(log') = n + (IF fills THEN 2 ELSE 1)
      /\ \A i \in 1..n : log'[i] = log[i]
      /\ log'[n + 1].type = t /\ (fills => log'[n + 2].type = "FILL" /\ log'[n + 2].symbol = s)
  <2>1. /\ log' \in Seq(LogRow) /\ Len(log') = n + (IF fills THEN 2 ELSE 1)
        /\ \A i \in 1..n : log'[i] = log[i]
        /\ log'[n + 1] = Event(t, s) /\ (fills => log'[n + 2] = Event("FILL", s))
    BY LogsAre
  <2>2. /\ Event(t, s).type = t /\ Event("FILL", s).type = "FILL" /\ Event("FILL", s).symbol = s
    BY DEF Event
  <2> QED BY <2>1, <2>2
<1>a. FillsOf(m) = Cardinality(F) /\ FillsOf(m)' = Cardinality(G)
  BY DEF FillsOf
<1>2. DOMAIN log' = 1..(n + (IF fills THEN 2 ELSE 1))
  BY <1>0, <1>1
<1>3. IsFiniteSet(F) /\ Cardinality(F) \in Nat /\ n + 2 \notin F
  <2>1. F \subseteq 1..n /\ IsFiniteSet(1..n)
    BY <1>0, FS_Interval
  <2> QED BY <1>0, <2>1, FS_Subset, FS_CardinalityType
<1>4. CASE fills /\ s = m
  <2>1. G = F \union {n + 2}
    <3>1. ASSUME NEW i \in G PROVE i \in F \union {n + 2}
      <4>1. i \in 1..n \/ i = n + 1 \/ i = n + 2
        BY <1>0, <1>2, <1>4
      <4> QED BY <1>0, <1>1, <4>1
    <3>2. ASSUME NEW i \in F \union {n + 2} PROVE i \in G
      <4>1. i \in 1..n \/ i = n + 2
        BY <1>0
      <4>2. i \in DOMAIN log'
        BY <1>0, <1>2, <1>4, <4>1
      <4> QED BY <1>0, <1>1, <1>4, <4>1, <4>2
    <3> QED BY <3>1, <3>2
  <2> HIDE DEF F, G
  <2>2. Cardinality(G) = Cardinality(F) + 1
    BY <1>3, <2>1, FS_AddElement
  <2> QED BY <1>3, <1>4, <1>a, <2>2
<1>5. CASE ~(fills /\ s = m)
  <2>1. G = F
    <3>1. ASSUME NEW i \in G PROVE i \in F
      <4>1. i \in 1..n \/ i = n + 1 \/ (fills /\ i = n + 2)
        BY <1>0, <1>2
      <4> QED BY <1>0, <1>1, <1>5, <4>1
    <3>2. ASSUME NEW i \in F PROVE i \in G
      BY <1>0, <1>1, <1>2
    <3> QED BY <3>1, <3>2
  <2> HIDE DEF F, G
  <2> QED BY <1>3, <1>5, <1>a, <2>1
<1> QED BY <1>4, <1>5

\* What a tick decides.
LEMMA DecisionIs ==
  ASSUME NEW q \in TickRead
  PROVE  LET d == Decision(q)
         IN /\ d.status \in Statuses \ {"none"} /\ d.reconnecting \in BOOLEAN /\ d.fresh \in Nat
            /\ d.event \in Types \ {"FILL"} /\ d.fills \in BOOLEAN
            /\ d.event = "stale" => d.reconnecting /\ d.fresh = 0 /\ ~d.fills
            /\ d.event = "waiting" => d.reconnecting /\ q.reconnecting /\ d.fresh = q.fresh + 1 /\ ~d.fills
            /\ d.event = "ingested" => /\ ~d.reconnecting
                                       /\ q.reconnecting => q.fresh + 1 >= Required
            /\ d.event \in {"stale", "waiting", "ingested"}
<1>1. q.fresh \in Nat /\ q.stale \in BOOLEAN /\ q.reconnecting \in BOOLEAN /\ Required \in Nat
  BY SessionsAssumption DEF TickRead
<1>2. CASE q.stale
  BY <1>1, <1>2 DEF Decision, Restarted, Statuses, Types
<1>3. CASE ~q.stale /\ q.reconnecting /\ q.fresh + 1 < Required
  <2>1. Decision(q) = [status |-> "waiting_fresh_ticks", reconnecting |-> TRUE,
                       fresh |-> q.fresh + 1, event |-> "waiting", fills |-> FALSE]
    BY <1>1, <1>3 DEF Decision
  <2> QED BY <1>1, <1>3, <2>1 DEF Statuses, Types
<1>4. CASE ~q.stale /\ ~(q.reconnecting /\ q.fresh + 1 < Required)
  <2>1. Decision(q) = [status |-> "active", reconnecting |-> FALSE,
                       fresh |-> IF q.reconnecting THEN q.fresh + 1 ELSE q.fresh,
                       event |-> "ingested", fills |-> q.last # NoPrice /\ q.price > q.last]
    BY <1>1, <1>4 DEF Decision
  <2>2. (q.last # NoPrice /\ q.price > q.last) \in BOOLEAN
    OBVIOUS
  <2> QED BY <1>1, <1>4, <2>1, <2>2 DEF Statuses, Types
<1> QED BY <1>1, <1>2, <1>3, <1>4

-----------------------------------------------------------------------------
(* The positions. *)

LEMMA CommitIs ==
  ASSUME SessionShaped, NEW r \in Handlers, CommitTick(r)
  PROVE  LET d == Decision(request[r])
         IN /\ request[r] \in TickRead /\ request[r].pc = "decide"
            /\ Logs(d.event, d.fills, request[r].symbol)
            /\ sessionRow' = [status |-> d.status, reconnecting |-> d.reconnecting]
            /\ held' = IF d.fills THEN [held EXCEPT ![request[r].symbol] = @ + 1] ELSE held
            /\ request' = [request EXCEPT ![r] = [request[r] EXCEPT !.pc = "price", !.fresh = d.fresh]]
            /\ counters' = counters
<1>1. request[r] \in TickRead /\ request[r].pc = "decide"
  BY RequestIs DEF CommitTick
<1>2. r \in DOMAIN request
  BY DEF SessionShaped
<1> QED BY <1>1, <1>2 DEF CommitTick, Logs, AddFill

\* One bound is used up.
LEMMA UsesIs ==
  ASSUME SessionShaped, NEW what \in {"ticks", "rebuilds", "creates", "lost"}, NEW bound,
         Uses(what, bound)
  PROVE  /\ usedUp' \in [ticks : Nat, rebuilds : Nat, creates : Nat, lost : Nat]
         /\ usedUp'[what] = usedUp[what] + 1
         /\ \A w \in {"ticks", "rebuilds", "creates", "lost"} \ {what} : usedUp'[w] = usedUp[w]
<1>1. /\ usedUp \in [ticks : Nat, rebuilds : Nat, creates : Nat, lost : Nat]
      /\ usedUp' = [usedUp EXCEPT ![what] = usedUp[what] + 1]
  BY DEF SessionShaped, Uses
<1>2. usedUp[what] + 1 \in Nat
  BY <1>1
<1>3. ASSUME NEW n \in Nat
      PROVE  LET u == [usedUp EXCEPT ![what] = n]
             IN /\ u \in [ticks : Nat, rebuilds : Nat, creates : Nat, lost : Nat] /\ u[what] = n
                /\ \A w \in {"ticks", "rebuilds", "creates", "lost"} \ {what} : u[w] = usedUp[w]
  BY <1>1
<1> QED BY <1>1, <1>2, <1>3

LEMMA SessionStepShaped ==
  ASSUME SessionShaped, [SessionsNext]_sessionVars
  PROVE  SessionShaped'
<1>0. /\ sessionRow \in [status : Statuses, reconnecting : BOOLEAN]
      /\ log \in Seq(LogRow) /\ held \in [Markets \union {Unknown} -> Nat]
      /\ counters \in [fresh : Nat, last : [Markets -> Nat]]
      /\ request \in [Handlers -> TickRead \union RebuildRead \union {NoRequest}]
      /\ usedUp \in [ticks : Nat, rebuilds : Nat, creates : Nat, lost : Nat]
  BY DEF SessionShaped
<1>1. CASE CreateSession
  <2>1. usedUp' \in [ticks : Nat, rebuilds : Nat, creates : Nat, lost : Nat]
    BY <1>1, UsesIs DEF CreateSession
  <2>2. sessionRow' \in [status : Statuses, reconnecting : BOOLEAN]
    BY <1>1 DEF CreateSession, Statuses
  <2> QED BY <1>0, <1>1, <2>1, <2>2 DEF CreateSession, SessionShaped
<1>2. CASE StopSession
  <2>1. sessionRow' \in [status : Statuses, reconnecting : BOOLEAN]
    BY <1>0, <1>2 DEF StopSession, Statuses
  <2> QED BY <1>0, <1>2, <2>1 DEF StopSession, SessionShaped
<1>3. ASSUME NEW r \in Handlers, ReadSession(r) PROVE SessionShaped'
  <2>1. PICK s \in Markets, p \in TickPrices, stale \in BOOLEAN :
          request' = [request EXCEPT ![r] =
            [pc |-> "session", symbol |-> s, price |-> p, stale |-> stale,
             reconnecting |-> sessionRow.reconnecting, fresh |-> 0, last |-> NoPrice]]
    BY <1>3 DEF ReadSession
  <2>2. [pc |-> "session", symbol |-> s, price |-> p, stale |-> stale,
         reconnecting |-> sessionRow.reconnecting, fresh |-> 0, last |-> NoPrice] \in TickRead
    BY <1>0 DEF TickRead, NoPrice
  <2>3. request' \in [Handlers -> TickRead \union RebuildRead \union {NoRequest}]
    BY <1>0, <2>1, <2>2
  <2> QED BY <1>0, <1>3, <2>3 DEF ReadSession, SessionShaped
<1>4. ASSUME NEW r \in Handlers, ReadCounters(r) PROVE SessionShaped'
  <2>1. request[r] \in TickRead
    BY <1>4, RequestIs DEF ReadCounters
  <2>2. counters.fresh \in Nat /\ counters.last[request[r].symbol] \in Nat
    BY <1>0, <2>1 DEF TickRead
  <2>3. [request[r] EXCEPT !.pc = "decide", !.fresh = counters.fresh,
                           !.last = counters.last[request[r].symbol]] \in TickRead
    BY <2>1, <2>2 DEF TickRead
  <2>4. request' \in [Handlers -> TickRead \union RebuildRead \union {NoRequest}]
    BY <1>0, <1>4, <2>3 DEF ReadCounters
  <2> QED BY <1>0, <1>4, <2>4 DEF ReadCounters, SessionShaped
<1>5. ASSUME NEW r \in Handlers, CommitTick(r) PROVE SessionShaped'
  <2> DEFINE d == Decision(request[r])
             s == request[r].symbol
  <2>1. /\ request[r] \in TickRead /\ Logs(d.event, d.fills, s)
        /\ sessionRow' = [status |-> d.status, reconnecting |-> d.reconnecting]
        /\ held' = IF d.fills THEN [held EXCEPT ![s] = @ + 1] ELSE held
        /\ request' = [request EXCEPT ![r] = [request[r] EXCEPT !.pc = "price", !.fresh = d.fresh]]
        /\ counters' = counters
    BY <1>5, CommitIs
  <2>2. /\ d.status \in Statuses /\ d.reconnecting \in BOOLEAN /\ d.fresh \in Nat
        /\ d.event \in Types /\ d.fills \in BOOLEAN
    BY <2>1, DecisionIs
  <2>3. s \in Markets
    BY <2>1 DEF TickRead
  <2> HIDE DEF d, s
  <2>4. log' \in Seq(LogRow)
    BY <1>0, <2>1, <2>2, <2>3, LogsAre
  <2>5. sessionRow' \in [status : Statuses, reconnecting : BOOLEAN]
    BY <2>1, <2>2
  <2>6. held' \in [Markets \union {Unknown} -> Nat]
    BY <1>0, <2>1, <2>2, <2>3
  <2>7. [request[r] EXCEPT !.pc = "price", !.fresh = d.fresh] \in TickRead
    BY <2>1, <2>2 DEF TickRead
  <2>8. request' \in [Handlers -> TickRead \union RebuildRead \union {NoRequest}]
    BY <1>0, <2>1, <2>7
  <2>9. usedUp' \in [ticks : Nat, rebuilds : Nat, creates : Nat, lost : Nat]
    BY <1>5, UsesIs DEF CommitTick
  <2> QED BY <1>0, <2>1, <2>4, <2>5, <2>6, <2>8, <2>9 DEF SessionShaped
<1>6. ASSUME NEW r \in Handlers, SavePrice(r) PROVE SessionShaped'
  <2>1. request[r] \in TickRead
    BY <1>6, RequestIs DEF SavePrice
  <2>2. request[r].symbol \in Markets /\ request[r].price \in Nat
    BY <2>1, SessionsAssumption DEF TickRead
  <2>3. counters' \in [fresh : Nat, last : [Markets -> Nat]]
    BY <1>0, <1>6, <2>2 DEF SavePrice
  <2>4. [request[r] EXCEPT !.pc = "fresh"] \in TickRead
    BY <2>1 DEF TickRead
  <2>5. request' = [request EXCEPT ![r] = [request[r] EXCEPT !.pc = "fresh"]]
    BY <1>0, <1>6 DEF SavePrice
  <2>6. request' \in [Handlers -> TickRead \union RebuildRead \union {NoRequest}]
    BY <1>0, <2>4, <2>5
  <2> QED BY <1>0, <1>6, <2>3, <2>6 DEF SavePrice, SessionShaped
<1>7. ASSUME NEW r \in Handlers, SaveFresh(r) PROVE SessionShaped'
  <2>1. request[r] \in TickRead
    BY <1>7, RequestIs DEF SaveFresh
  <2>2. request[r].fresh \in Nat
    BY <2>1 DEF TickRead
  <2>3. counters' \in [fresh : Nat, last : [Markets -> Nat]]
    BY <1>0, <1>7, <2>2 DEF SaveFresh
  <2>4. request' \in [Handlers -> TickRead \union RebuildRead \union {NoRequest}]
    BY <1>0, <1>7 DEF SaveFresh, Ends
  <2> QED BY <1>0, <1>7, <2>3, <2>4 DEF SaveFresh, SessionShaped
<1>8. ASSUME NEW r \in Handlers, ReadEvents(r) PROVE SessionShaped'
  <2> DEFINE qty == Cardinality({i \in DOMAIN log : log[i].type = "FILL"})
             q == [pc |-> "delete", qty |-> qty, symbol |-> Last(log).symbol]
  <2>1. qty \in Nat
    <3>1. DOMAIN log = 1..Len(log) /\ Len(log) \in Nat /\ IsFiniteSet(1..Len(log))
      BY <1>0, FS_Interval
    <3> QED BY <3>1, FS_Subset, FS_CardinalityType
  <2>2. Last(log).symbol \in Markets \union {Unknown}
    <3>1. log # <<>> /\ Len(log) \in DOMAIN log
      BY <1>0, <1>8 DEF ReadEvents
    <3>2. Last(log) \in LogRow
      BY <1>0, <3>1 DEF Last
    <3> QED BY <3>2 DEF LogRow
  <2>3. request' = [request EXCEPT ![r] = q]
    BY <1>8 DEF ReadEvents
  <2> HIDE DEF qty
  <2>4. q \in RebuildRead
    BY <2>1, <2>2 DEF RebuildRead
  <2> HIDE DEF q
  <2>5. request' \in [Handlers -> TickRead \union RebuildRead \union {NoRequest}]
    BY <1>0, <2>3, <2>4
  <2>6. usedUp' \in [ticks : Nat, rebuilds : Nat, creates : Nat, lost : Nat]
    BY <1>8, UsesIs DEF ReadEvents
  <2> QED BY <1>0, <1>8, <2>5, <2>6 DEF ReadEvents, SessionShaped
<1>9. ASSUME NEW r \in Handlers, DeletePositions(r) \/ InsertPosition(r) PROVE SessionShaped'
  <2>1. request[r] \in RebuildRead
    BY <1>9, RequestIs DEF DeletePositions, InsertPosition
  <2>2. request[r].qty \in Nat /\ request[r].symbol \in Markets \union {Unknown}
    BY <2>1 DEF RebuildRead
  <2>3. held' \in [Markets \union {Unknown} -> Nat]
    <3>1. CASE DeletePositions(r)
      BY <1>0, <3>1 DEF DeletePositions
    <3>2. CASE InsertPosition(r)
      BY <1>0, <2>2, <3>2 DEF InsertPosition
    <3> QED BY <1>9, <3>1, <3>2
  <2>4. PICK pc \in {"insert", "event"} :
          request' = [request EXCEPT ![r] = [request[r] EXCEPT !.pc = pc]]
    BY <1>0, <1>9 DEF DeletePositions, InsertPosition
  <2>5. [request[r] EXCEPT !.pc = pc] \in RebuildRead
    BY <2>1 DEF RebuildRead
  <2>6. request' \in [Handlers -> TickRead \union RebuildRead \union {NoRequest}]
    BY <1>0, <2>4, <2>5
  <2> QED BY <1>0, <1>9, <2>3, <2>6 DEF DeletePositions, InsertPosition, SessionShaped
<1>10. ASSUME NEW r \in Handlers, LogRebuild(r) PROVE SessionShaped'
  <2>1. Event("REBUILD_COMPLETED", Unknown) \in LogRow
    BY DEF Event, LogRow, Types
  <2>2. log' \in Seq(LogRow)
    BY <1>0, <1>10, <2>1 DEF LogRebuild
  <2>3. request' \in [Handlers -> TickRead \union RebuildRead \union {NoRequest}]
    BY <1>0, <1>10 DEF LogRebuild, Ends
  <2> QED BY <1>0, <1>10, <2>2, <2>3 DEF LogRebuild, SessionShaped
<1>11. ASSUME NEW r \in Handlers, RequestLost(r) PROVE SessionShaped'
  <2>1. usedUp' \in [ticks : Nat, rebuilds : Nat, creates : Nat, lost : Nat]
    BY <1>11, UsesIs DEF RequestLost
  <2>2. request' \in [Handlers -> TickRead \union RebuildRead \union {NoRequest}]
    BY <1>0, <1>11 DEF RequestLost, Ends
  <2> QED BY <1>0, <1>11, <2>1, <2>2 DEF RequestLost, SessionShaped
<1>12. CASE UNCHANGED sessionVars
  BY <1>0, <1>12 DEF sessionVars, SessionShaped
<1> QED
  BY <1>1, <1>2, <1>3, <1>4, <1>5, <1>6, <1>7, <1>8, <1>9, <1>10, <1>11, <1>12
    DEF SessionsNext, TickStep, RebuildStep

\* Steps that leave the log and the positions alone, and begin no rebuild.
LEMMA QuietSession ==
  ASSUME BooksInv, SessionShaped', log' = log, held' = held,
         usedUp'.rebuilds = usedUp.rebuilds \/ usedUp'.rebuilds > 0,
         usedUp'.rebuilds > 0 \/ \A r \in Handlers : request'[r] \in RebuildRead => request[r] \in RebuildRead
  PROVE  BooksInv'
<1>1. usedUp.rebuilds \in Nat /\ usedUp'.rebuilds \in Nat
  BY DEF BooksInv, SessionShaped
<1>2. Unrebuilt'
  BY <1>1 DEF BooksInv, Unrebuilt
<1>3. \A s \in Markets : FillsOf(s)' = FillsOf(s)
  BY DEF FillsOf
<1>4. TicksKeepBooks'
  BY <1>1, <1>3 DEF BooksInv, TicksKeepBooks
<1> QED BY <1>2, <1>4 DEF BooksInv

LEMMA TickIsNoRebuild == TickRead \intersect RebuildRead = {} /\ NoRequest \notin RebuildRead
BY DEF TickRead, RebuildRead, NoRequest

LEMMA BooksStep ==
  ASSUME BooksInv, [SessionsNext]_sessionVars
  PROVE  BooksInv'
<1>0. /\ SessionShaped /\ Unrebuilt /\ TicksKeepBooks /\ log \in Seq(LogRow)
      /\ held \in [Markets \union {Unknown} -> Nat] /\ usedUp.rebuilds \in Nat
      /\ request \in [Handlers -> TickRead \union RebuildRead \union {NoRequest}]
  BY DEF BooksInv, SessionShaped
<1>s. SessionShaped'
  BY <1>0, SessionStepShaped
<1>s2. request' \in [Handlers -> TickRead \union RebuildRead \union {NoRequest}]
  BY <1>s DEF SessionShaped
<1>1. CASE CreateSession
  <2>1. usedUp'.rebuilds = usedUp.rebuilds
    BY <1>0, <1>1, UsesIs DEF CreateSession
  <2> QED BY <1>0, <1>1, <1>s, <2>1, QuietSession DEF CreateSession
<1>2. CASE StopSession
  BY <1>0, <1>2, <1>s, QuietSession DEF StopSession
<1>3. ASSUME NEW r \in Handlers, ReadSession(r) \/ ReadCounters(r) \/ SavePrice(r) \/ SaveFresh(r)
      PROVE  BooksInv'
  <2>1. log' = log /\ held' = held /\ usedUp' = usedUp
    BY <1>3 DEF ReadSession, ReadCounters, SavePrice, SaveFresh
  <2>2. \A o \in Handlers \ {r} : request'[o] = request[o]
    BY <1>0, <1>3 DEF ReadSession, ReadCounters, SavePrice, SaveFresh, Ends
  <2>3. request'[r].pc \in {"session", "decide", "fresh", "idle"}
    <3>1. CASE ReadSession(r)
      BY <1>0, <3>1 DEF ReadSession
    <3>2. CASE ReadCounters(r)
      <4>1. request[r] \in TickRead
        BY <1>0, <3>2, RequestIs DEF ReadCounters
      <4> QED BY <1>0, <3>2, <4>1 DEF ReadCounters, TickRead
    <3>3. CASE SavePrice(r)
      <4>1. request[r] \in TickRead
        BY <1>0, <3>3, RequestIs DEF SavePrice
      <4> QED BY <1>0, <3>3, <4>1 DEF SavePrice, TickRead
    <3>4. CASE SaveFresh(r)
      BY <1>0, <3>4 DEF SaveFresh, Ends, NoRequest
    <3> QED BY <1>3, <3>1, <3>2, <3>3, <3>4
  <2>4. request'[r] \notin RebuildRead
    BY <2>3 DEF RebuildRead
  <2> QED BY <1>0, <1>s, <2>1, <2>2, <2>4, QuietSession
<1>4. ASSUME NEW r \in Handlers, CommitTick(r) PROVE BooksInv'
  <2> DEFINE d == Decision(request[r])
             s == request[r].symbol
  <2>1. /\ request[r] \in TickRead /\ Logs(d.event, d.fills, s)
        /\ held' = IF d.fills THEN [held EXCEPT ![s] = @ + 1] ELSE held
        /\ request' = [request EXCEPT ![r] = [request[r] EXCEPT !.pc = "price", !.fresh = d.fresh]]
    BY <1>0, <1>4, CommitIs
  <2>2. d.event \in Types \ {"FILL"} /\ d.fills \in BOOLEAN /\ d.fresh \in Nat
    BY <2>1, DecisionIs
  <2>3. s \in Markets
    BY <2>1 DEF TickRead
  <2> HIDE DEF d, s
  <2>4. usedUp'.rebuilds = usedUp.rebuilds
    BY <1>0, <1>4, UsesIs DEF CommitTick
  <2>5. [request[r] EXCEPT !.pc = "price", !.fresh = d.fresh] \in TickRead
    BY <2>1, <2>2 DEF TickRead
  <2>6. \A o \in Handlers : request'[o] \in RebuildRead => request[o] \in RebuildRead
    BY <1>0, <2>1, <2>5, TickIsNoRebuild
  <2>7. Unrebuilt'
    BY <1>0, <2>4, <2>6 DEF Unrebuilt
  <2>8. \A m \in Markets : /\ FillsOf(m) \in Nat
                           /\ FillsOf(m)' = FillsOf(m) + (IF d.fills /\ s = m THEN 1 ELSE 0)
    BY <1>0, <2>1, <2>2, <2>3, FillsCount
  <2>9. ASSUME usedUp.rebuilds = 0, NEW m \in Markets PROVE held'[m] = FillsOf(m)'
    <3>1. held[m] = FillsOf(m)
      BY <1>0, <2>9 DEF TicksKeepBooks
    <3>2. held'[m] = held[m] + (IF d.fills /\ s = m THEN 1 ELSE 0)
      BY <1>0, <2>1, <2>3
    <3> QED BY <2>8, <3>1, <3>2
  <2>10. TicksKeepBooks'
    BY <2>4, <2>9 DEF TicksKeepBooks
  <2> QED BY <1>s, <2>7, <2>10 DEF BooksInv
<1>5. ASSUME NEW r \in Handlers, ReadEvents(r) PROVE BooksInv'
  <2>1. usedUp'.rebuilds > 0
    BY <1>0, <1>5, UsesIs DEF ReadEvents
  <2> QED BY <1>0, <1>5, <1>s, <2>1, QuietSession DEF ReadEvents
<1>6. ASSUME NEW r \in Handlers, DeletePositions(r) \/ InsertPosition(r) \/ LogRebuild(r)
      PROVE  BooksInv'
  <2>1. request[r] \in RebuildRead /\ usedUp' = usedUp
    BY <1>0, <1>6, RequestIs DEF DeletePositions, InsertPosition, LogRebuild
  <2>2. usedUp'.rebuilds # 0
    BY <1>0, <2>1 DEF Unrebuilt
  <2> QED BY <1>s, <2>2 DEF BooksInv, Unrebuilt, TicksKeepBooks
<1>7. ASSUME NEW r \in Handlers, RequestLost(r) PROVE BooksInv'
  <2>1. usedUp'.rebuilds = usedUp.rebuilds
    BY <1>0, <1>7, UsesIs DEF RequestLost
  <2>2. \A o \in Handlers : request'[o] \in RebuildRead => request[o] \in RebuildRead
    BY <1>0, <1>7, TickIsNoRebuild DEF RequestLost, Ends
  <2> QED BY <1>0, <1>7, <1>s, <2>1, <2>2, QuietSession DEF RequestLost
<1>8. CASE UNCHANGED sessionVars
  BY <1>0, <1>8, <1>s, QuietSession DEF sessionVars
<1> QED
  BY <1>1, <1>2, <1>3, <1>4, <1>5, <1>6, <1>7, <1>8 DEF SessionsNext, TickStep, RebuildStep

LEMMA BooksStart == ASSUME SessionsInit PROVE BooksInv
<1>1. SessionShaped
  BY DEF SessionsInit, SessionShaped, Statuses, NoPrice
<1>2. Unrebuilt
  BY TickIsNoRebuild DEF SessionsInit, Unrebuilt
<1>3. \A s \in Markets : FillsOf(s) = 0
  <2>1. log = <<>>
    BY DEF SessionsInit
  <2>2. \A s : {i \in DOMAIN log : log[i].type = "FILL" /\ log[i].symbol = s} = {}
    BY <2>1
  <2> QED BY <2>2, FS_EmptySet DEF FillsOf
<1>4. TicksKeepBooks
  BY <1>3 DEF SessionsInit, TicksKeepBooks
<1> QED BY <1>1, <1>2, <1>4 DEF BooksInv

-----------------------------------------------------------------------------
(* Stale data, when requests come in turn. *)

FreshTypes == {"waiting", "ingested"}
LastStale(j) == /\ j \in DOMAIN log /\ log[j].type = "stale"
                /\ \A k \in j + 1..Len(log) : log[k].type # "stale"
Waited(j) == Cardinality(Between(log, j, Len(log), FreshTypes))

\* The count of fresh ticks: the one that a request is about to save, or else the saved one.
IsCount(n) ==
  \/ \E r \in Handlers : request[r].pc \in {"price", "fresh"} /\ n = request[r].fresh
  \/ (\A r \in Handlers : request[r].pc \notin {"price", "fresh"}) /\ n = counters.fresh

OneAtATime == \A r, o \in Handlers : ~Free(r) /\ ~Free(o) => r = o
PostedOnce ==
  /\ usedUp.creates <= 1
  /\ usedUp.creates = 0 => /\ sessionRow.status = "none" /\ log = <<>>
                           /\ \A r \in Handlers : Free(r)
ReadsAreNew ==
  \A r \in Handlers :
    /\ request[r].pc \in {"session", "decide"} => request[r].reconnecting = sessionRow.reconnecting
    /\ request[r].pc = "decide" => request[r].fresh = counters.fresh

\* What follows the last stale tick: what is counted, or as many as are asked for.
WaitIsCounted ==
  \A j : LastStale(j) =>
    IF sessionRow.reconnecting THEN \A n \in Nat : IsCount(n) => Waited(j) >= n
    ELSE Waited(j) >= Required

TurnsInv == OneAtATime /\ PostedOnce /\ ReadsAreNew /\ WaitIsCounted /\ StaleDataIsWaitedOut

LEMMA BetweenFinite ==
  ASSUME NEW l, NEW i \in Nat, NEW n \in Nat, NEW T
  PROVE  IsFiniteSet(Between(l, i, n, T)) /\ Cardinality(Between(l, i, n, T)) \in Nat
<1>1. Between(l, i, n, T) \subseteq i + 1..n /\ IsFiniteSet(i + 1..n)
  BY FS_Interval DEF Between
<1> QED BY <1>1, FS_Subset, FS_CardinalityType

\* Up to one place more.
LEMMA BetweenNext ==
  ASSUME NEW l, NEW i \in Nat, NEW n \in Nat, i <= n, NEW T
  PROVE  Cardinality(Between(l, i, n + 1, T))
           = Cardinality(Between(l, i, n, T)) + (IF l[n + 1].type \in T THEN 1 ELSE 0)
<1>1. IsFiniteSet(Between(l, i, n, T)) /\ Cardinality(Between(l, i, n, T)) \in Nat
  BY BetweenFinite
<1>2. n + 1 \notin Between(l, i, n, T)
  BY DEF Between
<1>3. CASE l[n + 1].type \in T
  <2>1. Between(l, i, n + 1, T) = Between(l, i, n, T) \union {n + 1}
    BY <1>3 DEF Between
  <2> QED BY <1>1, <1>2, <1>3, <2>1, FS_AddElement
<1>4. CASE l[n + 1].type \notin T
  <2>1. Between(l, i, n + 1, T) = Between(l, i, n, T)
    BY <1>4 DEF Between
  <2> QED BY <1>1, <1>4, <2>1
<1> QED BY <1>3, <1>4

\* The same after a step of the log.
LEMMA WaitedNext ==
  ASSUME log \in Seq(LogRow), NEW t \in Types \ {"FILL"}, NEW fills \in BOOLEAN,
         NEW s \in Markets \union {Unknown}, Logs(t, fills, s), NEW j \in 1..Len(log)
  PROVE  /\ Waited(j) \in Nat
         /\ Waited(j)' = Waited(j) + (IF t \in FreshTypes THEN 1 ELSE 0)
         /\ fills => Cardinality(Between(log', j, Len(log) + 2, FreshTypes)) = Waited(j)'
<1> DEFINE n == Len(log)
           C(m) == Cardinality(Between(log', j, m, FreshTypes))
<1>1. n \in Nat /\ j \in Nat /\ j <= n
  OBVIOUS
<1>2. /\ Len(log') = n + (IF fills THEN 2 ELSE 1)
      /\ \A i \in 1..n : log'[i] = log[i]
      /\ log'[n + 1] = Event(t, s) /\ (fills => log'[n + 2] = Event("FILL", s))
  BY LogsAre
<1>3. /\ Event(t, s).type = t /\ Event("FILL", s).type = "FILL" /\ "FILL" \notin FreshTypes
  BY DEF Event, FreshTypes
<1>4. Waited(j) = Cardinality(Between(log, j, n, FreshTypes)) /\ Waited(j) \in Nat
  BY <1>1, BetweenFinite DEF Waited
<1>5. C(n) = Waited(j)
  <2>1. Between(log', j, n, FreshTypes) = Between(log, j, n, FreshTypes)
    BY <1>1, <1>2 DEF Between
  <2> QED BY <1>4, <2>1
<1>6. ASSUME NEW m \in Nat, j <= m
      PROVE  C(m + 1) = C(m) + (IF log'[m + 1].type \in FreshTypes THEN 1 ELSE 0)
  BY <1>1, <1>6, BetweenNext
<1>7. C(n + 1) = Waited(j) + (IF t \in FreshTypes THEN 1 ELSE 0)
  BY <1>1, <1>2, <1>3, <1>5, <1>6
<1>8. ASSUME fills PROVE C(n + 2) = C(n + 1)
  <2>1. log'[(n + 1) + 1].type \notin FreshTypes /\ n + 1 \in Nat /\ j <= n + 1 /\ (n + 1) + 1 = n + 2
    BY <1>1, <1>2, <1>3, <1>8
  <2>2. C((n + 1) + 1) = C(n + 1) + 0
    BY <1>6, <2>1
  <2>3. C(n + 1) \in Nat
    BY <1>4, <1>7
  <2> HIDE DEF C
  <2> QED BY <2>1, <2>2, <2>3
<1>9. Waited(j)' = C(Len(log'))
  BY DEF Waited
<1> HIDE DEF C
<1>10. CASE fills
  <2>1. Waited(j)' = C(n + 2)
    BY <1>2, <1>9, <1>10
  <2> QED BY <1>4, <1>7, <1>8, <1>10, <2>1 DEF C
<1>11. CASE ~fills
  BY <1>2, <1>4, <1>7, <1>9, <1>11
<1> QED BY <1>10, <1>11

\* An event that is not stale keeps the last stale one.
LEMMA LastStaleStays ==
  ASSUME log \in Seq(LogRow), NEW t \in Types \ {"FILL", "stale"}, NEW fills \in BOOLEAN,
         NEW s \in Markets \union {Unknown}, Logs(t, fills, s), NEW j, LastStale(j)'
  PROVE  LastStale(j) /\ j \in 1..Len(log)
<1> DEFINE n == Len(log)
<1>1. n \in Nat /\ DOMAIN log = 1..n
  OBVIOUS
<1>2. /\ log' \in Seq(LogRow) /\ Len(log') = n + (IF fills THEN 2 ELSE 1)
      /\ \A i \in 1..n : log'[i] = log[i]
      /\ log'[n + 1] = Event(t, s) /\ (fills => log'[n + 2] = Event("FILL", s))
  BY LogsAre
<1>3. /\ Event(t, s).type = t /\ Event("FILL", s).type = "FILL"
  BY DEF Event
<1>4. j \in 1..Len(log') /\ log'[j].type = "stale"
      /\ \A k \in j + 1..Len(log') : log'[k].type # "stale"
  BY <1>2 DEF LastStale
<1>5. j \in 1..n
  BY <1>1, <1>2, <1>3, <1>4
<1>6. \A k \in j + 1..n : log[k].type # "stale"
  BY <1>1, <1>2, <1>4, <1>5
<1> QED BY <1>1, <1>2, <1>4, <1>5, <1>6 DEF LastStale

\* Fills stay after the ticks they waited for, and a new one is.
LEMMA FillsFollow ==
  ASSUME log \in Seq(LogRow), NEW t \in Types \ {"FILL"}, NEW fills \in BOOLEAN,
         NEW s \in Markets \union {Unknown}, Logs(t, fills, s), StaleDataIsWaitedOut,
         fills => t = "ingested" /\ \A j : LastStale(j) => Waited(j) + 1 >= Required
  PROVE  StaleDataIsWaitedOut'
<1> DEFINE n == Len(log)
<1>1. n \in Nat /\ DOMAIN log = 1..n
  OBVIOUS
<1>2. /\ log' \in Seq(LogRow) /\ Len(log') = n + (IF fills THEN 2 ELSE 1)
      /\ \A i \in 1..n : log'[i] = log[i]
      /\ log'[n + 1] = Event(t, s) /\ (fills => log'[n + 2] = Event("FILL", s))
  BY LogsAre
<1>3. /\ Event(t, s).type = t /\ Event("FILL", s).type = "FILL"
  BY DEF Event
<1>4. ASSUME NEW i \in 1..n, log[i].type = "FILL" PROVE FreshBefore(i)'
  <2>1. FreshBefore(i)
    BY <1>1, <1>4 DEF StaleDataIsWaitedOut
  <2>2. \A j \in 1..i : log'[j] = log[j]
    BY <1>1, <1>2
  <2>3. \A j \in 1..i : {k \in j + 1..i : log'[k].type \in {"waiting", "ingested"}}
                          = {k \in j + 1..i : log[k].type \in {"waiting", "ingested"}}
    BY <2>2
  <2>4. \A j \in 1..i : \A k \in j + 1..i : log'[k] = log[k]
    BY <2>2
  <2> QED BY <2>1, <2>2, <2>3, <2>4 DEF FreshBefore
<1>5. ASSUME fills, NEW i, i = n + 2 PROVE FreshBefore(i)'
  <2>1. ASSUME NEW j \in 1..i, log'[j].type = "stale",
               \A k \in j + 1..i : log'[k].type # "stale"
        PROVE  Cardinality({k \in j + 1..i : log'[k].type \in {"waiting", "ingested"}}) >= Required
    <3>1. t = "ingested"
      BY <1>5
    <3>2. j \in 1..n
      BY <1>1, <1>2, <1>3, <1>5, <2>1, <3>1
    <3>3. LastStale(j)
      <4>1. log[j].type = "stale"
        BY <1>2, <2>1, <3>2
      <4>2. ASSUME NEW k \in j + 1..n PROVE log[k].type # "stale"
        <5>1. k \in 1..n /\ k \in j + 1..i
          BY <1>1, <1>5, <3>2, <4>2
        <5> QED BY <1>2, <2>1, <5>1
      <4> QED BY <1>1, <3>2, <4>1, <4>2 DEF LastStale
    <3>4. Waited(j) \in Nat /\ Waited(j) + 1 >= Required
      BY <1>5, <3>2, <3>3, WaitedNext
    <3>5. Cardinality(Between(log', j, Len(log) + 2, FreshTypes)) = Waited(j) + 1
      BY <1>5, <3>1, <3>2, <3>4, WaitedNext DEF FreshTypes
    <3>6. Between(log', j, n + 2, FreshTypes)
            = {k \in j + 1..n + 2 : log'[k].type \in {"waiting", "ingested"}}
      BY DEF Between, FreshTypes
    <3> QED BY <1>5, <3>4, <3>5, <3>6
  <2> QED BY <2>1 DEF FreshBefore
<1>6. ASSUME NEW i \in DOMAIN log', log'[i].type = "FILL" PROVE FreshBefore(i)'
  <2>1. i \in 1..n \/ i = n + 1 \/ (fills /\ i = n + 2)
    BY <1>1, <1>2
  <2>2. CASE i \in 1..n
    BY <1>2, <1>4, <1>6, <2>2
  <2>3. CASE i = n + 1
    BY <1>2, <1>3, <1>6, <2>3
  <2>4. CASE fills /\ i = n + 2
    BY <1>5, <2>4
  <2> QED BY <2>1, <2>2, <2>3, <2>4
<1> QED BY <1>6 DEF StaleDataIsWaitedOut

LEMMA InTurnIs ==
  ASSUME SessionShaped', part = "turns", WithinSession
  PROVE  OneAtATime' /\ usedUp'.lost = 0 /\ usedUp'.creates <= 1
<1> DEFINE busy == {r \in Handlers : ~Free(r)'}
<1>1. Cardinality(busy) <= 1 /\ usedUp'.lost = 0 /\ usedUp'.creates <= 1
  BY DEF WithinSession
<1>2. IsFiniteSet(busy)
  BY SessionsAssumption, FS_Subset
<1>3. ASSUME NEW r \in busy, NEW o \in busy, r # o PROVE FALSE
  <2>1. IsFiniteSet({r}) /\ Cardinality({r}) = 1
    BY FS_Singleton
  <2>2. Cardinality({r} \union {o}) = 2
    BY <1>3, <2>1, FS_AddElement
  <2>3. {r} \union {o} \subseteq busy
    BY <1>3
  <2>4. Cardinality({r} \union {o}) <= Cardinality(busy)
    BY <1>2, <2>3, FS_Subset
  <2>5. Cardinality(busy) \in Nat
    BY <1>2, FS_CardinalityType
  <2> HIDE DEF busy
  <2> QED BY <1>1, <2>2, <2>4, <2>5
<1>4. OneAtATime'
  BY <1>3 DEF OneAtATime
<1> QED BY <1>1, <1>4

\* Only request r does not stay free.
LEMMA OnlyOneMoves ==
  ASSUME SessionShaped, OneAtATime, NEW r \in Handlers, ~Free(r)
  PROVE  \A o \in Handlers \ {r} : request[o] = NoRequest /\ request[o].pc = "idle"
BY DEF OneAtATime, Free, NoRequest

\* Steps that leave the log alone.
LEMMA QuietWait ==
  ASSUME WaitIsCounted, log' = log, sessionRow'.reconnecting = sessionRow.reconnecting,
         \A n \in Nat : IsCount(n)' => IsCount(n)
  PROVE  WaitIsCounted'
<1>1. \A j : LastStale(j)' <=> LastStale(j)
  BY DEF LastStale
<1>2. \A j : Waited(j)' = Waited(j)
  BY DEF Waited
<1> QED BY <1>1, <1>2 DEF WaitIsCounted

LEMMA QuietFills == ASSUME StaleDataIsWaitedOut, log' = log PROVE StaleDataIsWaitedOut'
<1>1. \A i : FreshBefore(i)' <=> FreshBefore(i)
  BY DEF FreshBefore
<1> QED BY <1>1 DEF StaleDataIsWaitedOut

\* Requests r moves from a step of a tick or a rebuild to the next, or begins or ends.
LEMMA RequestMoves ==
  ASSUME SessionShaped, SessionShaped', TurnsInv, NEW r \in Handlers, NEW q,
         request' = [request EXCEPT ![r] = q]
  PROVE  /\ request'[r] = q
         /\ \A o \in Handlers \ {r} : request'[o] = request[o]
         /\ ~Free(r) => \A o \in Handlers \ {r} : request[o] = NoRequest /\ request[o].pc = "idle"
<1>1. request'[r] = q /\ \A o \in Handlers \ {r} : request'[o] = request[o]
  BY DEF SessionShaped
<1> QED BY <1>1, OnlyOneMoves DEF TurnsInv

LEMMA TurnsStep ==
  ASSUME SessionShaped, TurnsInv, part = "turns", WithinSession, SessionsNext
  PROVE  TurnsInv'
<1>0. /\ OneAtATime /\ PostedOnce /\ ReadsAreNew /\ WaitIsCounted /\ StaleDataIsWaitedOut
      /\ log \in Seq(LogRow) /\ sessionRow \in [status : Statuses, reconnecting : BOOLEAN]
      /\ request \in [Handlers -> TickRead \union RebuildRead \union {NoRequest}]
      /\ counters \in [fresh : Nat, last : [Markets -> Nat]]
      /\ usedUp \in [ticks : Nat, rebuilds : Nat, creates : Nat, lost : Nat]
  BY DEF TurnsInv, SessionShaped
<1>s. SessionShaped'
  BY SessionStepShaped
<1>t. OneAtATime' /\ usedUp'.lost = 0 /\ usedUp'.creates <= 1
  BY <1>s, InTurnIs
<1>i. NoRequest.pc = "idle" /\ \A o \in Handlers : Free(o) <=> request[o].pc = "idle"
  <2>1. \A o \in Handlers : request[o].pc = "idle" => request[o] = NoRequest
    BY RequestIs
  <2> QED BY <2>1 DEF Free, NoRequest
<1>n. NoRequest.pc = "idle"
  BY <1>i
<1>1. CASE CreateSession
  <2>1. usedUp.creates = 0 /\ usedUp'.creates = 1
    <3>1. usedUp.creates \in Nat /\ usedUp'.creates = usedUp.creates + 1
      BY <1>0, <1>1, UsesIs DEF CreateSession
    <3> QED BY <1>t, <3>1
  <2>2. /\ log = <<>> /\ (\A o \in Handlers : Free(o))
        /\ log' = log /\ request' = request /\ counters' = counters
    BY <1>0, <1>1, <2>1 DEF PostedOnce, CreateSession
  <2>3. PostedOnce'
    BY <2>1 DEF PostedOnce
  <2>4. ReadsAreNew'
    BY <1>i, <2>2 DEF ReadsAreNew, Free
  <2>5. \A j : ~LastStale(j)'
    BY <2>2 DEF LastStale
  <2>6. WaitIsCounted'
    BY <2>5 DEF WaitIsCounted
  <2>7. StaleDataIsWaitedOut'
    BY <1>0, <2>2, QuietFills
  <2> QED BY <1>t, <2>3, <2>4, <2>6, <2>7 DEF TurnsInv
<1>2. CASE StopSession
  <2>1. /\ log' = log /\ request' = request /\ counters' = counters /\ usedUp' = usedUp
        /\ sessionRow.status # "none"
        /\ sessionRow'.reconnecting = sessionRow.reconnecting
    BY <1>0, <1>2 DEF StopSession
  <2>2. PostedOnce'
    BY <1>0, <2>1 DEF PostedOnce
  <2>3. ReadsAreNew'
    BY <1>0, <2>1 DEF ReadsAreNew
  <2>4. \A n \in Nat : IsCount(n)' => IsCount(n)
    BY <2>1 DEF IsCount
  <2> QED BY <1>0, <1>t, <2>1, <2>2, <2>3, <2>4, QuietWait, QuietFills DEF TurnsInv
<1>3. ASSUME NEW r \in Handlers, ReadSession(r) PROVE TurnsInv'
  <2>1. /\ log' = log /\ sessionRow' = sessionRow /\ counters' = counters /\ usedUp' = usedUp
        /\ sessionRow.status # "none" /\ Free(r)
    BY <1>3 DEF ReadSession
  <2>2. PICK s \in Markets, p \in TickPrices, stale \in BOOLEAN :
          request' = [request EXCEPT ![r] =
            [pc |-> "session", symbol |-> s, price |-> p, stale |-> stale,
             reconnecting |-> sessionRow.reconnecting, fresh |-> 0, last |-> NoPrice]]
    BY <1>3 DEF ReadSession
  <2>3. /\ request'[r].pc = "session" /\ request'[r].reconnecting = sessionRow.reconnecting
        /\ \A o \in Handlers \ {r} : request'[o] = request[o]
    BY <1>0, <2>2
  <2>4. PostedOnce'
    BY <1>0, <2>1 DEF PostedOnce
  <2>5. ReadsAreNew'
    BY <1>0, <2>1, <2>3 DEF ReadsAreNew
  <2>6. \A n \in Nat : IsCount(n)' => IsCount(n)
    BY <1>i, <2>1, <2>3 DEF IsCount
  <2> QED BY <1>0, <1>t, <2>1, <2>4, <2>5, <2>6, QuietWait, QuietFills DEF TurnsInv
<1>4. ASSUME NEW r \in Handlers, ReadCounters(r) PROVE TurnsInv'
  <2>1. /\ log' = log /\ sessionRow' = sessionRow /\ counters' = counters /\ usedUp' = usedUp
        /\ request[r].pc = "session" /\ request[r] \in TickRead
    BY <1>0, <1>4, RequestIs DEF ReadCounters
  <2>2. /\ request'[r].pc = "decide" /\ request'[r].fresh = counters.fresh
        /\ request'[r].reconnecting = request[r].reconnecting
    BY <1>0, <1>4, <2>1 DEF ReadCounters, TickRead
  <2>3. \A o \in Handlers \ {r} : request'[o] = request[o]
    BY <1>0, <1>4 DEF ReadCounters
  <2>4. ~Free(r)
    BY <1>i, <2>1
  <2>5. PostedOnce'
    BY <1>0, <2>1, <2>4 DEF PostedOnce
  <2>6. ReadsAreNew'
    BY <1>0, <2>1, <2>2, <2>3 DEF ReadsAreNew
  <2>7. \A n \in Nat : IsCount(n)' => IsCount(n)
    BY <2>1, <2>2, <2>3 DEF IsCount
  <2> QED BY <1>0, <1>t, <2>1, <2>5, <2>6, <2>7, QuietWait, QuietFills DEF TurnsInv
<1>5. ASSUME NEW r \in Handlers, CommitTick(r) PROVE TurnsInv'
  <2> DEFINE d == Decision(request[r])
             s == request[r].symbol
             q == [request[r] EXCEPT !.pc = "price", !.fresh = d.fresh]
  <2>1. /\ request[r] \in TickRead /\ request[r].pc = "decide" /\ Logs(d.event, d.fills, s)
        /\ sessionRow' = [status |-> d.status, reconnecting |-> d.reconnecting]
        /\ request' = [request EXCEPT ![r] = q]
        /\ counters' = counters
    BY <1>5, CommitIs
  <2>2. /\ d.reconnecting \in BOOLEAN /\ d.fresh \in Nat
        /\ d.event \in Types \ {"FILL"} /\ d.fills \in BOOLEAN
        /\ d.event = "stale" => d.reconnecting /\ d.fresh = 0 /\ ~d.fills
        /\ d.event = "waiting" => /\ d.reconnecting /\ request[r].reconnecting
                                  /\ d.fresh = request[r].fresh + 1 /\ ~d.fills
        /\ d.event = "ingested" => /\ ~d.reconnecting
                                   /\ request[r].reconnecting => request[r].fresh + 1 >= Required
        /\ d.event \in {"stale", "waiting", "ingested"}
    BY <2>1, DecisionIs
  <2>3. s \in Markets /\ request[r].fresh \in Nat /\ Required \in Nat
    BY <2>1, SessionsAssumption DEF TickRead
  <2>4. q.pc = "price" /\ q.fresh = d.fresh
    BY <2>1 DEF TickRead
  <2> HIDE DEF d, s, q
  <2>5. ~Free(r)
    BY <1>i, <2>1
  <2>6. /\ request'[r] = q
        /\ \A o \in Handlers \ {r} : request'[o] = NoRequest /\ request[o].pc = "idle"
    BY <1>0, <1>n, <2>1, <2>5, OnlyOneMoves
  <2>7. usedUp.creates # 0 /\ usedUp'.creates = usedUp.creates
    <3>1. usedUp'.creates = usedUp.creates
      BY <1>0, <1>5, UsesIs DEF CommitTick
    <3> QED BY <1>0, <2>5, <3>1 DEF PostedOnce
  <2>8. PostedOnce'
    BY <1>t, <2>7 DEF PostedOnce
  <2>9. ReadsAreNew'
    BY <1>n, <2>4, <2>6 DEF ReadsAreNew
  <2>10. /\ request[r].reconnecting = sessionRow.reconnecting /\ request[r].fresh = counters.fresh
         /\ IsCount(request[r].fresh)
    BY <1>0, <2>1, <2>6 DEF ReadsAreNew, IsCount
  <2>11. ASSUME NEW n, IsCount(n)' PROVE n = d.fresh
    BY <1>n, <2>4, <2>6, <2>11 DEF IsCount
  <2>12. ASSUME NEW j, LastStale(j)
         PROVE  /\ j \in 1..Len(log) /\ Waited(j) \in Nat
                /\ Waited(j) + 1 >= Required \/ (request[r].reconnecting /\ Waited(j) >= request[r].fresh)
    <3>1. j \in 1..Len(log)
      BY <1>0, <2>12 DEF LastStale
    <3>2. Waited(j) \in Nat
      BY <1>0, <3>1, BetweenFinite DEF Waited
    <3>3. CASE sessionRow.reconnecting
      BY <1>0, <2>3, <2>10, <2>12, <3>1, <3>2, <3>3 DEF WaitIsCounted
    <3>4. CASE ~sessionRow.reconnecting
      BY <1>0, <2>3, <2>12, <3>1, <3>2, <3>4 DEF WaitIsCounted
    <3> QED BY <3>3, <3>4
  <2>13. WaitIsCounted'
    <3> SUFFICES ASSUME NEW j, LastStale(j)'
                 PROVE  IF d.reconnecting THEN \A n \in Nat : IsCount(n)' => Waited(j)' >= n
                        ELSE Waited(j)' >= Required
      BY <2>1 DEF WaitIsCounted
    <3>1. CASE d.event = "stale"
      <4>1. log' \in Seq(LogRow)
        BY <1>s DEF SessionShaped
      <4>2. j \in Nat /\ Len(log') \in Nat
        BY <4>1 DEF LastStale
      <4>3. Waited(j)' \in Nat
        <5>1. Cardinality(Between(log', j, Len(log'), FreshTypes)) \in Nat
          BY <4>2, BetweenFinite
        <5> QED BY <5>1 DEF Waited
      <4> QED BY <2>2, <2>11, <3>1, <4>3
    <3>2. CASE d.event # "stale"
      <4>1. LastStale(j) /\ j \in 1..Len(log)
        BY <1>0, <2>1, <2>2, <2>3, <3>2, LastStaleStays
      <4>2. Waited(j)' = Waited(j) + 1
        BY <1>0, <2>1, <2>2, <2>3, <3>2, <4>1, WaitedNext DEF FreshTypes
      <4>3. /\ Waited(j) \in Nat
            /\ Waited(j) + 1 >= Required \/ (request[r].reconnecting /\ Waited(j) >= request[r].fresh)
        BY <2>12, <4>1
      <4>4. CASE d.event = "waiting"
        <5>1. Waited(j) >= request[r].fresh
          BY <1>0, <2>2, <2>3, <2>10, <4>1, <4>4 DEF WaitIsCounted
        <5> QED BY <2>2, <2>3, <2>11, <4>2, <4>3, <4>4, <5>1
      <4>5. CASE d.event = "ingested"
        BY <2>2, <2>3, <4>2, <4>3, <4>5
      <4> QED BY <2>2, <3>2, <4>4, <4>5
    <3> QED BY <3>1, <3>2
  <2>14. d.fills => d.event = "ingested" /\ \A j : LastStale(j) => Waited(j) + 1 >= Required
    <3>1. ASSUME d.fills, NEW j, LastStale(j) PROVE Waited(j) + 1 >= Required
      <4>1. d.event = "ingested"
        BY <2>2, <3>1
      <4> QED BY <2>2, <2>3, <2>12, <3>1, <4>1
    <3> QED BY <2>2, <3>1
  <2>15. StaleDataIsWaitedOut'
    BY <1>0, <2>1, <2>2, <2>3, <2>14, FillsFollow
  <2> QED BY <1>t, <2>8, <2>9, <2>13, <2>15 DEF TurnsInv
<1>6. ASSUME NEW r \in Handlers, SavePrice(r) PROVE TurnsInv'
  <2>1. /\ log' = log /\ sessionRow' = sessionRow /\ usedUp' = usedUp
        /\ counters'.fresh = counters.fresh
        /\ request[r].pc = "price" /\ request[r] \in TickRead
    BY <1>0, <1>6, RequestIs DEF SavePrice
  <2>2. /\ request'[r].pc = "fresh" /\ request'[r].fresh = request[r].fresh
    BY <1>0, <1>6, <2>1 DEF SavePrice, TickRead
  <2>3. \A o \in Handlers \ {r} : request'[o] = request[o]
    BY <1>0, <1>6 DEF SavePrice
  <2>4. ~Free(r)
    BY <1>i, <2>1
  <2>5. PostedOnce'
    BY <1>0, <2>1, <2>4 DEF PostedOnce
  <2>6. ReadsAreNew'
    BY <1>0, <2>1, <2>2, <2>3 DEF ReadsAreNew
  <2>7. \A n \in Nat : IsCount(n)' => IsCount(n)
    BY <2>1, <2>2, <2>3 DEF IsCount
  <2> QED BY <1>0, <1>t, <2>1, <2>5, <2>6, <2>7, QuietWait, QuietFills DEF TurnsInv
<1>7. ASSUME NEW r \in Handlers, SaveFresh(r) PROVE TurnsInv'
  <2>1. /\ log' = log /\ sessionRow' = sessionRow /\ usedUp' = usedUp
        /\ counters'.fresh = request[r].fresh
        /\ request[r].pc = "fresh" /\ request' = [request EXCEPT ![r] = NoRequest]
    BY <1>0, <1>7 DEF SaveFresh, Ends
  <2>2. ~Free(r)
    BY <1>i, <2>1
  <2>3. \A o \in Handlers : request'[o] = NoRequest
    BY <1>0, <2>1, <2>2, OnlyOneMoves
  <2>4. PostedOnce'
    BY <1>0, <2>1, <2>2 DEF PostedOnce
  <2>5. ReadsAreNew'
    BY <1>n, <2>3 DEF ReadsAreNew
  <2>6. \A n \in Nat : IsCount(n)' => IsCount(n)
    BY <1>n, <2>1, <2>3 DEF IsCount
  <2> QED BY <1>0, <1>t, <2>1, <2>4, <2>5, <2>6, QuietWait, QuietFills DEF TurnsInv
<1>8. ASSUME NEW r \in Handlers, ReadEvents(r) \/ DeletePositions(r) \/ InsertPosition(r)
      PROVE  TurnsInv'
  <2>1. log' = log /\ sessionRow' = sessionRow /\ counters' = counters
    BY <1>8 DEF ReadEvents, DeletePositions, InsertPosition
  <2>2. \A o \in Handlers \ {r} : request'[o] = request[o]
    BY <1>0, <1>8 DEF ReadEvents, DeletePositions, InsertPosition
  <2>3. /\ request'[r].pc \in {"delete", "insert", "event"}
        /\ request[r].pc \in {"idle", "delete", "insert"}
        /\ request[r].pc # "idle" \/ sessionRow.status # "none"
        /\ usedUp'.creates = usedUp.creates
    <3>1. CASE ReadEvents(r)
      <4>1. usedUp'.creates = usedUp.creates
        BY <3>1, UsesIs DEF ReadEvents
      <4>2. request'[r].pc = "delete" /\ sessionRow.status # "none" /\ Free(r)
        BY <1>0, <3>1 DEF ReadEvents
      <4> QED BY <1>i, <4>1, <4>2
    <3>2. CASE DeletePositions(r)
      <4>1. request[r] \in RebuildRead /\ request[r].pc = "delete" /\ usedUp' = usedUp
        BY <3>2, RequestIs DEF DeletePositions
      <4>2. request'[r].pc = "insert"
        BY <1>0, <3>2, <4>1 DEF DeletePositions, RebuildRead
      <4> QED BY <4>1, <4>2
    <3>3. CASE InsertPosition(r)
      <4>1. request[r] \in RebuildRead /\ request[r].pc = "insert" /\ usedUp' = usedUp
        BY <3>3, RequestIs DEF InsertPosition
      <4>2. request'[r].pc = "event"
        BY <1>0, <3>3, <4>1 DEF InsertPosition, RebuildRead
      <4> QED BY <4>1, <4>2
    <3> QED BY <1>8, <3>1, <3>2, <3>3
  <2>4. usedUp.creates # 0
    BY <1>0, <1>i, <2>3 DEF PostedOnce
  <2>5. PostedOnce'
    BY <1>0, <2>3, <2>4 DEF PostedOnce
  <2>6. ReadsAreNew'
    BY <1>0, <2>1, <2>2, <2>3 DEF ReadsAreNew
  <2>7. \A n \in Nat : IsCount(n)' => IsCount(n)
    BY <2>1, <2>2, <2>3 DEF IsCount
  <2> QED BY <1>0, <1>t, <2>1, <2>5, <2>6, <2>7, QuietWait, QuietFills DEF TurnsInv
<1>9. ASSUME NEW r \in Handlers, LogRebuild(r) PROVE TurnsInv'
  <2> DEFINE t == "REBUILD_COMPLETED"
  <2>1. /\ log' = Append(log, Event(t, Unknown)) /\ sessionRow' = sessionRow /\ counters' = counters
        /\ usedUp' = usedUp /\ request[r].pc = "event" /\ request' = [request EXCEPT ![r] = NoRequest]
    BY <1>9 DEF LogRebuild, Ends
  <2>2. t \in Types \ {"FILL", "stale"} /\ t \notin FreshTypes /\ Event(t, Unknown) \in LogRow
    BY DEF Types, FreshTypes, Event, LogRow
  <2>3. Logs(t, FALSE, Unknown)
    <3>1. ASSUME NEW e \in LogRow PROVE Append(log, e) = log \o <<e>> \o <<>>
      BY <1>0
    <3> QED BY <2>1, <2>2, <3>1 DEF Logs
  <2>4. ~Free(r)
    BY <1>i, <2>1
  <2>5. \A o \in Handlers : request'[o] = NoRequest
    BY <1>0, <2>1, <2>4, OnlyOneMoves
  <2>6. \A o \in Handlers : request[o].pc \notin {"price", "fresh"}
    BY <1>0, <2>1, <2>4, OnlyOneMoves
  <2>7. PostedOnce'
    BY <1>0, <2>1, <2>4 DEF PostedOnce
  <2>8. ReadsAreNew'
    BY <1>n, <2>5 DEF ReadsAreNew
  <2>9. \A n \in Nat : IsCount(n)' => IsCount(n)
    BY <1>n, <2>1, <2>5, <2>6 DEF IsCount
  <2> HIDE DEF t
  <2>10. ASSUME NEW j, LastStale(j)' PROVE LastStale(j) /\ Waited(j)' = Waited(j)
    <3>1. LastStale(j) /\ j \in 1..Len(log)
      BY <1>0, <2>2, <2>3, <2>10, LastStaleStays
    <3>2. Waited(j) \in Nat /\ Waited(j)' = Waited(j) + 0
      BY <1>0, <2>2, <2>3, <3>1, WaitedNext
    <3> QED BY <3>1, <3>2
  <2>11. WaitIsCounted'
    BY <1>0, <2>1, <2>9, <2>10 DEF WaitIsCounted
  <2>12. StaleDataIsWaitedOut'
    BY <1>0, <2>2, <2>3, FillsFollow
  <2> QED BY <1>t, <2>7, <2>8, <2>11, <2>12 DEF TurnsInv
<1>10. ASSUME NEW r \in Handlers, RequestLost(r) PROVE FALSE
  <2>1. usedUp.lost \in Nat /\ usedUp'.lost = usedUp.lost + 1
    BY <1>0, <1>10, UsesIs DEF RequestLost
  <2> QED BY <1>t, <2>1
<1> QED
  BY <1>1, <1>2, <1>3, <1>4, <1>5, <1>6, <1>7, <1>8, <1>9, <1>10
    DEF SessionsNext, TickStep, RebuildStep

LEMMA TurnsStart == ASSUME SessionsInit PROVE TurnsInv
<1>1. /\ log = <<>> /\ sessionRow.status = "none" /\ usedUp.creates = 0
      /\ \A r \in Handlers : request[r] = NoRequest /\ Free(r)
  BY DEF SessionsInit, Free
<1>2. NoRequest.pc = "idle"
  BY DEF NoRequest
<1>3. OneAtATime /\ PostedOnce /\ ReadsAreNew
  BY <1>1, <1>2 DEF OneAtATime, PostedOnce, ReadsAreNew
<1>4. (\A j : ~LastStale(j)) /\ StaleDataIsWaitedOut
  BY <1>1 DEF LastStale, StaleDataIsWaitedOut
<1> QED BY <1>3, <1>4 DEF TurnsInv, WaitIsCounted

\* What holds of the session in the parts of the run that play it, and in the others.
SessionInv == BooksInv /\ (part = "turns" => TurnsInv)

\* While another part is played nothing of the session changes.
LEMMA SessionRests == ASSUME SessionInv, UNCHANGED <<sessionVars, part>> PROVE SessionInv'
<1>1. /\ sessionRow' = sessionRow /\ log' = log /\ held' = held /\ counters' = counters
      /\ request' = request /\ usedUp' = usedUp /\ part' = part
  BY DEF sessionVars
<1>2. BooksInv'
  BY BooksStep DEF SessionInv
<1>3. ASSUME TurnsInv PROVE TurnsInv'
  <2>1. OneAtATime' /\ PostedOnce' /\ ReadsAreNew'
    BY <1>1, <1>3 DEF TurnsInv, OneAtATime, PostedOnce, ReadsAreNew, Free
  <2>2. \A n \in Nat : IsCount(n)' => IsCount(n)
    BY <1>1 DEF IsCount
  <2> QED BY <1>1, <1>3, <2>1, <2>2, QuietWait, QuietFills DEF TurnsInv
<1> QED BY <1>1, <1>2, <1>3 DEF SessionInv

\* main.py:777, paper.py:63: the positions of a session of ticks are the fills of its log,
\* until a rebuild, whatever overlaps, fails or is repeated; and in turn nothing fills after
\* stale data before the fresh ticks that were asked for.
THEOREM SessionsAreSound == MCSpec => []SessionIsSound
<1>1. MCInit => SessionInv
  BY BooksStart, TurnsStart DEF MCInit, SessionInv
<1>2. SessionInv /\ [MCNext]_mcVars => SessionInv'
  <2> SUFFICES ASSUME SessionInv, [MCNext]_mcVars PROVE SessionInv'
    OBVIOUS
  <2>1. CASE InSession /\ SessionsNext /\ WithinSession /\ UNCHANGED <<vars, evidenceVars, part>>
    <3>1. BooksInv'
      BY <2>1, BooksStep DEF SessionInv
    <3>2. part = "turns" => TurnsInv'
      BY <2>1, TurnsStep DEF SessionInv, BooksInv
    <3> QED BY <2>1, <3>1, <3>2 DEF SessionInv
  <2>2. CASE UNCHANGED <<sessionVars, part>>
    BY <2>2, SessionRests
  <2> QED BY <2>1, <2>2 DEF MCNext, mcVars
<1>3. SessionInv => SessionIsSound
  BY DEF SessionInv, BooksInv, TurnsInv, SessionIsSound
<1> QED BY <1>1, <1>2, <1>3, PTL DEF MCSpec
=============================================================================
