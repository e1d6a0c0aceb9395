----------------------------- MODULE StockVault -----------------------------
(***************************************************************************)
(* The oracle-priced vault of contracts/src/DualityStockVault.sol, its     *)
(* stock tokens and the MockUSDG it takes as collateral.  One action per   *)
(* external function.  Time is kept as what mint and redeem read of it,    *)
(* whether each price is fresh.  Stock tokens are burnt without an         *)
(* allowance and never moved by agentExec.ts: their transfers are left out.*)
(***************************************************************************)
EXTENDS Accounts, Functions

CONSTANTS Vault,         \* the vault's address
          Symbols,
          PriceScale     \* 10^8: a price is in units of a dollar / PriceScale

ASSUME VaultAssumption == /\ Vault \notin Users /\ Vault # Sink
                          /\ PriceScale \in Nat \ {0}

UsdHolders == Users \union {Vault, Sink}

VARIABLES usd,           \* MockUSDG.balanceOf
          usdAllowance,  \* MockUSDG.allowance[user][vault]
          stock, supply, \* per symbol: balanceOf and totalSupply of its token
          price,         \* per symbol: priceUsd1e8, 0 before the first push
          fresh,         \* per symbol: updated within maxPriceStaleness
          listed, marketOpen, rthOnly

vaultVars == <<usd, usdAllowance, stock, supply, price, fresh, listed, marketOpen, rthOnly>>
oracleVars == <<price, fresh, listed, marketOpen, rthOnly>>

VaultTypeOK == /\ usd \in [UsdHolders -> Nat] /\ usdAllowance \in [Users -> Nat]
               /\ stock \in [Symbols -> [Users -> Nat]] /\ supply \in [Symbols -> Int]
               /\ price \in [Symbols -> Nat] /\ fresh \in [Symbols -> BOOLEAN]
               /\ listed \subseteq Symbols
               /\ marketOpen \in BOOLEAN /\ rthOnly \in BOOLEAN

VaultInit == /\ usd = [h \in UsdHolders |-> 0] /\ usdAllowance = [u \in Users |-> 0]
             /\ stock = [s \in Symbols |-> [u \in Users |-> 0]]
             /\ supply = [s \in Symbols |-> 0]
             /\ price = [s \in Symbols |-> 0] /\ fresh = [s \in Symbols |-> FALSE]
             /\ listed = {} /\ marketOpen = TRUE /\ rthOnly = FALSE

-----------------------------------------------------------------------------
(* The owner of the vault: listing, the oracle and the trading window. *)

ListStock(s) ==
    /\ s \notin listed
    /\ listed' = listed \union {s}
    /\ UNCHANGED <<usd, usdAllowance, stock, supply, price, fresh, marketOpen, rthOnly>>

(* setPrices; setPrice is the push of one symbol. *)
SetPrices(syms, pushed) ==
    /\ syms \subseteq listed
    /\ \A s \in syms : pushed[s] > 0
    /\ price' = [s \in Symbols |-> IF s \in syms THEN pushed[s] ELSE price[s]]
    /\ fresh' = [s \in Symbols |-> s \in syms \/ fresh[s]]
    /\ UNCHANGED <<usd, usdAllowance, stock, supply, listed, marketOpen, rthOnly>>

(* Time passes, or the owner sets another maxPriceStaleness. *)
Reage(ages) ==
    /\ \A s \in Symbols : ages[s] => price[s] > 0
    /\ fresh' = [s \in Symbols |-> ages[s]]
    /\ UNCHANGED <<usd, usdAllowance, stock, supply, price, listed, marketOpen, rthOnly>>

SetWindow(open, only) ==
    /\ marketOpen' = open /\ rthOnly' = only
    /\ UNCHANGED <<usd, usdAllowance, stock, supply, price, fresh, listed>>

-----------------------------------------------------------------------------
(* MockUSDG: an open faucet, approve, transfer. *)

UsdFaucet(u, amount) ==
    /\ usd' = [usd EXCEPT ![u] = @ + amount]
    /\ UNCHANGED <<usdAllowance, stock, supply, oracleVars>>

UsdApprove(u, amount) ==
    /\ usdAllowance' = [usdAllowance EXCEPT ![u] = amount]
    /\ UNCHANGED <<usd, stock, supply, oracleVars>>

UsdTransfer(u, to, amount) ==
    /\ usd[u] >= amount
    /\ u # to
    /\ usd' = [usd EXCEPT ![u] = @ - amount, ![to] = @ + amount]
    /\ UNCHANGED <<usdAllowance, stock, supply, oracleVars>>

-----------------------------------------------------------------------------
Trades(s) == /\ marketOpen \/ ~ rthOnly
             /\ s \in listed
             /\ fresh[s]

\* Mutation: rounds in favour of who mints.
StockOutRoundedUp(s, collateralIn) == (collateralIn * PriceScale + price[s] - 1) \div price[s]

StockOut(s, collateralIn) == (collateralIn * PriceScale) \div price[s]
CollateralOut(s, stockIn) == (stockIn * price[s]) \div PriceScale

Mint(u, s, collateralIn) ==
    /\ Trades(s)
    /\ collateralIn > 0
    /\ usdAllowance[u] >= collateralIn /\ usd[u] >= collateralIn
    /\ usdAllowance' = [usdAllowance EXCEPT ![u] = @ - collateralIn]
    /\ usd' = [usd EXCEPT ![u] = @ - collateralIn, ![Vault] = @ + collateralIn]
    /\ stock' = [stock EXCEPT ![s][u] = @ + StockOut(s, collateralIn)]
    /\ supply' = [supply EXCEPT ![s] = @ + StockOut(s, collateralIn)]
    /\ UNCHANGED oracleVars

Redeem(u, s, stockIn) ==
    /\ Trades(s)
    /\ stockIn > 0
    /\ stock[s][u] >= stockIn
    /\ usd[Vault] >= CollateralOut(s, stockIn)      \* VAULT_LIQUIDITY
    /\ stock' = [stock EXCEPT ![s][u] = @ - stockIn]
    /\ supply' = [supply EXCEPT ![s] = @ - stockIn]
    /\ usd' = [usd EXCEPT ![Vault] = @ - CollateralOut(s, stockIn),
                          ![u] = @ + CollateralOut(s, stockIn)]
    /\ UNCHANGED <<usdAllowance, oracleVars>>

-----------------------------------------------------------------------------
(* What the owner and time may do, and what any account may do. *)
OwnerStep == \/ \E s \in Symbols : ListStock(s)
             \/ \E syms \in SUBSET Symbols, pushed \in [Symbols -> Nat] : SetPrices(syms, pushed)
             \/ \E ages \in [Symbols -> BOOLEAN] : Reage(ages)
             \/ \E open, only \in BOOLEAN : SetWindow(open, only)

AccountStep == \E u \in Users, s \in Symbols, amount \in Nat :
    \/ UsdFaucet(u, amount) \/ UsdApprove(u, amount) \/ UsdTransfer(u, Sink, amount)
    \/ Mint(u, s, amount) \/ Redeem(u, s, amount)

VaultSpec == VaultInit /\ [][OwnerStep \/ AccountStep]_vaultVars

(* No mint or redemption, its rounding included, takes from the vault more than *)
(* the price it trades at: at unchanged prices what the vault receives is worth *)
(* at least the stock it issues, and what it pays no more than the stock it     *)
(* burns.  Only the owner's prices open a deficit (DualityStockVault.sol:202).  *)
OnlyPricesOpenADeficit ==
    [][price' = price =>
         \/ /\ supply' = supply
            /\ usd'[Vault] >= usd[Vault]
         \/ \E s \in Symbols :
              /\ \A o \in Symbols \ {s} : supply'[o] = supply[o]
              /\ (usd'[Vault] - usd[Vault]) * PriceScale
                   >= (supply'[s] - supply[s]) * price[s]]_vaultVars
=============================================================================
