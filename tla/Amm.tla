-------------------------------- MODULE Amm --------------------------------
(***************************************************************************)
(* The constant-product pool of contracts/src/DualityAmm.sol over two      *)
(* MintableTokens.  One action per external function, a transaction being  *)
(* atomic: a require that fails leaves every variable alone and is no      *)
(* step.  Only the pool is ever given an allowance (agentExec.ts).  The    *)
(* token amounts are Nats: 256 bits do not overflow at these sizes.        *)
(***************************************************************************)
EXTENDS Accounts, Functions

CONSTANTS Pool,       \* the pool's address
          FeeBps      \* the swap fee, in hundredths of a percent

ASSUME AmmAssumption == /\ Pool \notin Users /\ Pool # Sink
                        /\ FeeBps \in 0 .. 10000

Tokens  == {0, 1}                   \* token0 (dWETH) and token1 (dUSDC)
Holders == Users \union {Pool, Sink}

VARIABLES bal,         \* balanceOf, per token
          allowance,   \* allowance[user][pool], per token
          reserve,     \* reserve0 and reserve1
          shares, totalShares

ammVars == <<bal, allowance, reserve, shares, totalShares>>

AmmTypeOK == /\ bal \in [Tokens -> [Holders -> Nat]]
             /\ allowance \in [Tokens -> [Users -> Nat]]
             /\ reserve \in [Tokens -> Nat]
             /\ shares \in [Users -> Nat]
             /\ totalShares \in Nat

AmmInit == /\ bal = [t \in Tokens |-> [h \in Holders |-> 0]]
           /\ allowance = [t \in Tokens |-> [u \in Users |-> 0]]
           /\ reserve = [t \in Tokens |-> 0]
           /\ shares = [u \in Users |-> 0]
           /\ totalShares = 0

(* The Newton iteration of _sqrt ends in the floor of the root. *)
IsSqrt(z, y) == z * z <= y /\ y < (z + 1) * (z + 1)
\* Mutation: shares for the side that was overpaid.
LeastOrMore(a, b) == IF a < b THEN b ELSE a

Least(a, b) == IF a < b THEN a ELSE b

(* What the balances of token t are after amount moved from one holder to another. *)
Moved(t, from, to, amount) ==
    [bal[t] EXCEPT ![from] = @ - amount, ![to] = @ + amount]

-----------------------------------------------------------------------------
(* The tokens: an open faucet, approve, transfer. *)

Faucet(t, u, amount) ==
    /\ bal' = [bal EXCEPT ![t][u] = @ + amount]
    /\ UNCHANGED <<allowance, reserve, shares, totalShares>>

Approve(t, u, amount) ==
    /\ allowance' = [allowance EXCEPT ![t][u] = amount]
    /\ UNCHANGED <<bal, reserve, shares, totalShares>>

Transfer(t, u, to, amount) ==
    /\ bal[t][u] >= amount
    /\ u # to
    /\ bal' = [bal EXCEPT ![t] = Moved(t, u, to, amount)]
    /\ UNCHANGED <<allowance, reserve, shares, totalShares>>

(* transferFrom by the pool finds the allowance and the balance it needs. *)
MayPull(t, u, amount) == allowance[t][u] >= amount /\ bal[t][u] >= amount

-----------------------------------------------------------------------------
Provide(u, a0, a1, minted) ==
    /\ a0 > 0 /\ a1 > 0
    /\ MayPull(0, u, a0) /\ MayPull(1, u, a1)
    /\ minted > 0
    /\ bal' = [t \in Tokens |-> Moved(t, u, Pool, IF t = 0 THEN a0 ELSE a1)]
    /\ allowance' = [t \in Tokens |->
                        [allowance[t] EXCEPT ![u] = @ - (IF t = 0 THEN a0 ELSE a1)]]
    /\ shares' = [shares EXCEPT ![u] = @ + minted]
    /\ totalShares' = totalShares + minted
    /\ reserve' = [t \in Tokens |-> reserve[t] + (IF t = 0 THEN a0 ELSE a1)]

AddLiquidity(u, a0, a1) ==
    IF totalShares = 0
    THEN \E root \in 1 .. a0 * a1 : IsSqrt(root, a0 * a1) /\ Provide(u, a0, a1, root)
    ELSE Provide(u, a0, a1, Least((a0 * totalShares) \div reserve[0],
                                  (a1 * totalShares) \div reserve[1]))

PaidOut(s, t) == (s * reserve[t]) \div totalShares

RemoveLiquidity(u, s) ==
    /\ s > 0 /\ shares[u] >= s
    /\ totalShares >= s                 \* checked subtraction
    /\ \A t \in Tokens : bal[t][Pool] >= PaidOut(s, t)
    /\ shares' = [shares EXCEPT ![u] = @ - s]
    /\ totalShares' = totalShares - s
    /\ reserve' = [t \in Tokens |-> reserve[t] - PaidOut(s, t)]
    /\ bal' = [t \in Tokens |-> Moved(t, Pool, u, PaidOut(s, t))]
    /\ UNCHANGED allowance

AfterFee(amountIn) == (amountIn * (10000 - FeeBps)) \div 10000

\* Mutation: the price before the trade, not the one after it.
QuoteSpot(in, amountIn) ==
    IF reserve[in] = 0 THEN 0 ELSE (AfterFee(amountIn) * reserve[1 - in]) \div reserve[in]

(* The output of a swap that sells token in, and 0 of an empty pool as quote has it. *)
Quote(in, amountIn) ==
    IF reserve[in] = 0 THEN 0
    ELSE (AfterFee(amountIn) * reserve[1 - in]) \div (reserve[in] + AfterFee(amountIn))

Swap(u, in, amountIn, minOut) ==
    /\ amountIn > 0 /\ totalShares > 0
    /\ MayPull(in, u, amountIn)
    /\ Quote(in, amountIn) >= minOut /\ Quote(in, amountIn) < reserve[1 - in]
    /\ bal[1 - in][Pool] >= Quote(in, amountIn)
    /\ bal' = [t \in Tokens |-> IF t = in THEN Moved(t, u, Pool, amountIn)
                                ELSE Moved(t, Pool, u, Quote(in, amountIn))]
    /\ allowance' = [allowance EXCEPT ![in][u] = @ - amountIn]
    /\ reserve' = [t \in Tokens |-> IF t = in THEN reserve[t] + amountIn
                                    ELSE reserve[t] - Quote(in, amountIn)]
    /\ UNCHANGED <<shares, totalShares>>

-----------------------------------------------------------------------------
(* Any account, in any order, for any amounts. *)
AmmStep == \E u \in Users, t \in Tokens, a, b \in Nat :
    \/ Faucet(t, u, a) \/ Approve(t, u, a) \/ Transfer(t, u, Sink, a)
    \/ AddLiquidity(u, a, b) \/ RemoveLiquidity(u, a) \/ Swap(u, t, a, b)

AmmSpec == AmmInit /\ [][AmmStep]_ammVars

(* The pool holds the reserves it computes with, and the product of the reserves *)
(* covers the square of the shares: with shares outstanding neither reserve is   *)
(* zero, so addLiquidity and swap never divide by zero (DualityAmm.sol:44, 73).  *)
PoolBacked == /\ \A t \in Tokens : reserve[t] <= bal[t][Pool]
              /\ reserve[0] * reserve[1] >= totalShares * totalShares

(* No deposit, withdrawal or swap of another account, its rounding and its fee  *)
(* included, lowers what one share stands for: the product of the reserves per  *)
(* squared share never falls while shares are outstanding (DualityAmm.sol:44).  *)
NoDilution == [][totalShares > 0 /\ totalShares' > 0 =>
                   reserve'[0] * reserve'[1] * totalShares * totalShares
                     >= reserve[0] * reserve[1] * totalShares' * totalShares']_ammVars
=============================================================================
