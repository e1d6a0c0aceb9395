------------------------------ MODULE AgentExec ------------------------------
(***************************************************************************)
(* The testnet execution of apps/api/src/lib/agentExec.ts for one owner:   *)
(* requests that buy and sell stock, swap, provide liquidity, bridge or    *)
(* launch a plan of these, each running from await to await beside the     *)
(* others, on the contracts of Amm.tla and StockVault.tla.  A transaction  *)
(* may fail (reverted, out of gas, a nonce taken by another request, a     *)
(* lost connection), before it is mined or after.                          *)
(***************************************************************************)
EXTENDS Amm, StockVault, SequencesExt

CONSTANTS Requests,      \* the HTTP requests
          Actions,       \* what a request may ask: [kind, sym, amount, side]
          Launches,      \* the plans a launch may ask: sequences of [kind, sym, weight]
          LaunchUsd,     \* the amounts a launch may ask
          LaunchCap, MaxBuy, MaxBridge,
          Trader,        \* another account of the contracts, and their deployer
          Listed,        \* the stocks listed and priced at first
          Prices,        \* the prices the oracle pushes
          MaxMoves       \* bounds the steps of the trader and the owner of the vault

(* A deal is an action of its own; a leg of a launch becomes one. *)
Deal == [kind : {"buy", "sell"}, sym : Symbols, amount : Nat, side : Tokens] \union
        [kind : {"swap", "lp", "bridge"}, sym : Symbols \union {"usd"}, amount : Nat, side : Tokens]
LaunchLeg == [kind : {"buy"}, sym : Symbols, weight : Nat] \union
             [kind : {"swap", "lp"}, sym : Symbols \union {"usd"}, weight : Nat]

(* Weights that are all zero count as equal ones (agentExec.ts:646-650). *)
ASSUME ExecAssumption ==
    /\ {LaunchCap, MaxBuy, MaxBridge, MaxMoves} \subseteq Nat
    /\ LaunchCap <= MaxBuy /\ LaunchCap <= MaxBridge
    /\ Actions \subseteq Deal
    /\ \A legs \in Launches : /\ legs \in Seq(LaunchLeg)
                              /\ \E i \in DOMAIN legs : legs[i].weight > 0
    /\ LaunchUsd \subseteq Nat /\ Prices \subseteq Nat \ {0}
    /\ Trader \in Users /\ Listed \subseteq Symbols

Keys == Users \ {Trader}         \* the keys Wallet.createRandom may return
NoKey == "none"
Roles == {"a", "b", "c"}         \* the wallet lookups of one request

VARIABLES stored,    \* agent_wallets: the key of the owner's row
          funded,    \* its funded_arb and funded_rh
          gas,       \* the keys and chains that hold gas
          lookup,    \* per request and role: where getOrCreateWallet stands, and its key
          todo,      \* per request: the actions of its plan still to run
          running,   \* per request: the action under way, or what the request is doing
          at,        \* per request: the position in the path of that action
          memory,    \* per request: the numbers it read, and what the reads before
                     \* the trade missed (history)
          answers,   \* per request: whether each of its actions succeeded
          gained,    \* what the trade of the running action paid (history)
          alone,     \* no other request ran beside the running action (history)
          released,  \* what bridges minted on their destination (history)
          moves

walletVars == <<stored, funded, gas>>
agentVars  == <<lookup, todo, running, at, memory, answers, gained, alone, released>>
vars == <<ammVars, vaultVars, walletVars, agentVars, moves>>

Idle == [kind |-> "idle"]
Done == [kind |-> "done"]
NoLookups == [x \in Roles |-> [st |-> "off", key |-> NoKey]]
NoMemory  == [before0 |-> 0, before1 |-> 0, missed0 |-> 0, missed1 |-> 0,
              least |-> 0, put0 |-> 0, put1 |-> 0]

(* What each kind of action awaits, in order. *)
Path(kind) ==
    IF kind = "buy" THEN <<"price", "usdFaucet", "usdApprove", "mint", "report">>
    ELSE IF kind = "sell" THEN <<"price", "redeem", "report">>
    ELSE IF kind = "swap" THEN <<"faucet", "approve", "quote", "swap", "report">>
    ELSE IF kind = "lp" THEN <<"quote", "faucet", "approve", "swap", "measure",
                               "approve0", "approve1", "add", "report">>
    ELSE IF kind = "bridge" THEN <<"fill", "lock", "release", "report">>
    ELSE <<"plan">>

Seed == [t \in Tokens |-> IF t = 0 THEN 4 ELSE 9]

(* Init is right after the deployment scripts: every symbol listed and priced, *)
(* the pool seeded by the deployer.                                            *)
Init ==
    /\ reserve = Seed
    /\ bal = [t \in Tokens |->
                 [h \in Holders |-> IF h = Pool THEN Seed[t] ELSE IF h = Trader THEN 3 ELSE 0]]
    /\ shares = [u \in Users |-> IF u = Trader THEN 6 ELSE 0] /\ totalShares = 6
    /\ allowance = [t \in Tokens |-> [u \in Users |-> IF u = Trader THEN 3 ELSE 0]]
    /\ usd = [h \in UsdHolders |-> 0] /\ usdAllowance = [u \in Users |-> 0]
    /\ stock = [s \in Symbols |-> [u \in Users |-> 0]] /\ supply = [s \in Symbols |-> 0]
    /\ listed = Listed /\ fresh = [s \in Symbols |-> s \in Listed]
    /\ \E cheapest \in Prices :
         /\ \A p \in Prices : cheapest <= p
         /\ price = [s \in Symbols |-> IF s \in Listed THEN cheapest ELSE 0]
    /\ marketOpen = TRUE /\ rthOnly = FALSE
    /\ \/ stored = NoKey /\ funded = {} /\ gas = {}
       \/ \E k \in Keys : /\ stored = k /\ funded = {"rh", "arb"}
                          /\ gas = {k} \X {"rh", "arb"}
    /\ lookup = [r \in Requests |-> NoLookups]
    /\ todo = [r \in Requests |-> <<>>]
    /\ running = [r \in Requests |-> Idle]
    /\ at = [r \in Requests |-> 0]
    /\ memory = [r \in Requests |-> NoMemory]
    /\ answers = [r \in Requests |-> <<>>]
    /\ gained = [r \in Requests |-> 0] /\ alone = [r \in Requests |-> TRUE]
    /\ released = 0 /\ moves = 0

-----------------------------------------------------------------------------
(* getOrCreateWallet, for each wallet an action asks for. *)

RhSide(q) == \/ q.kind \in {"buy", "sell"}
             \/ q.kind = "bridge" /\ q.side = 0       \* rh_to_arb: the source
(* The chain of each lookup; a bridge looks its second wallet up after the first, *)
(* a launch all three at once (agentWalletInfo, stockMarketState, arbTestnetState).*)
Chain(q, x) == IF q.kind = "launch" THEN IF x = "c" THEN "arb" ELSE "rh"
               ELSE IF RhSide(q) <=> x = "a" THEN "rh" ELSE "arb"
RolesOf(q) == IF q.kind = "launch" THEN Roles
              ELSE IF q.kind = "bridge" THEN {"a", "b"} ELSE {"a"}
LookUp(q) == [x \in Roles |-> [st |-> IF x \in RolesOf(q) THEN "todo" ELSE "off", key |-> NoKey]]

Ready(r) == \A x \in Roles : lookup[r][x].st \in {"off", "ready"}
Busy(r)  == running[r].kind \notin {"idle", "done"}
Key(r)   == lookup[r]["a"].key

(* The lookup is under way. *)
Due(r, x) == /\ lookup[r][x].st \in {"todo", "insert", "fund"}
             /\ running[r].kind = "bridge" /\ x = "b" => lookup[r]["a"].st = "ready"

(* SELECT; a key of its own when there is no row. *)
SelectWallet(r, x) ==
    /\ Due(r, x) /\ lookup[r][x].st = "todo"
    /\ IF stored # NoKey
       THEN lookup' = [lookup EXCEPT ![r][x] =
              [st |-> IF Chain(running[r], x) \in funded THEN "ready" ELSE "fund", key |-> stored]]
       ELSE \E k \in Keys :
              /\ \A other \in Requests, y \in Roles : lookup[other][y].key # k
              /\ lookup' = [lookup EXCEPT ![r][x] = [st |-> "insert", key |-> k]]
    /\ UNCHANGED <<ammVars, vaultVars, walletVars, todo, running, at, memory, answers,
                   gained, alone, released, moves>>

(* INSERT ... ON CONFLICT DO NOTHING; the key goes on, stored or not. *)
InsertWallet(r, x) ==
    /\ lookup[r][x].st = "insert"
    /\ stored' = IF stored = NoKey THEN lookup[r][x].key ELSE stored
    /\ lookup' = [lookup EXCEPT ![r][x].st = "fund"]
    /\ UNCHANGED <<ammVars, vaultVars, funded, gas, todo, running, at, memory, answers,
                   gained, alone, released, moves>>

(* The treasury tops the key up, if it can, and the row is marked either way. *)
FundWallet(r, x) ==
    LET chain == Chain(running[r], x) IN
    /\ lookup[r][x].st = "fund"
    /\ gas' \in {gas, gas \union {<<lookup[r][x].key, chain>>}}
    /\ funded' = funded \union {chain}
    /\ lookup' = [lookup EXCEPT ![r][x].st = "ready"]
    /\ UNCHANGED <<ammVars, vaultVars, stored, todo, running, at, memory, answers,
                   gained, alone, released, moves>>

(* A query or a balance is not answered, which no one catches here; what it did, or *)
(* the top-up before it, may have been done.                                        *)
LookupFails(r, x) ==
    LET key == lookup[r][x].key  chain == Chain(running[r], x) IN
    /\ Due(r, x)
    /\ \/ lookup[r][x].st = "todo" /\ UNCHANGED walletVars
       \/ /\ lookup[r][x].st = "insert"
          /\ stored' \in {stored, IF stored = NoKey THEN key ELSE stored}
          /\ UNCHANGED <<funded, gas>>
       \/ /\ lookup[r][x].st = "fund"
          /\ gas' \in {gas, gas \union {<<key, chain>>}}
          /\ funded' \in {funded, funded \union {chain}}
          /\ UNCHANGED stored
    /\ lookup' = [lookup EXCEPT ![r][x].st = "failed"]
    /\ UNCHANGED <<ammVars, vaultVars, todo, running, at, memory, answers,
                   gained, alone, released, moves>>

-----------------------------------------------------------------------------
(* Requests, their actions and answers. *)

(* The per-action caps of executeStockBuy, executeLp and executeBridge; *)
(* executeStockSell and executeSwap have none.                          *)
WithinCap(q) == /\ q.amount > 0
                /\ q.kind = "buy" => q.amount <= MaxBuy
                /\ q.kind = "lp" => q.amount <= 2 * MaxBuy
                /\ q.kind = "bridge" => q.amount <= MaxBridge

(* Request r goes on to the first of the actions next, or is answered. *)
GoOn(r, next, results) ==
    /\ todo' = [todo EXCEPT ![r] = IF next = <<>> THEN <<>> ELSE Tail(next)]
    /\ running' = [running EXCEPT ![r] = IF next = <<>> THEN Done ELSE Head(next)]
    /\ lookup' = [lookup EXCEPT ![r] = IF next = <<>> THEN NoLookups ELSE LookUp(Head(next))]
    /\ at' = [at EXCEPT ![r] = IF next = <<>> THEN 0 ELSE 1]
    /\ memory' = [memory EXCEPT ![r] = NoMemory]
    /\ answers' = [answers EXCEPT ![r] = results]
    /\ gained' = [gained EXCEPT ![r] = 0]
    /\ alone' = [o \in Requests |->
                   IF o = r THEN next # <<>> /\ \A other \in Requests \ {r} : ~ Busy(other)
                   ELSE alone[o] /\ next = <<>>]

Answer(r, ok) == GoOn(r, todo[r], Append(answers[r], ok))

Ask(r, q) ==
    /\ running[r] = Idle
    /\ IF WithinCap(q) THEN GoOn(r, <<q>>, <<>>)
       ELSE GoOn(r, <<>>, <<FALSE>>)
    /\ UNCHANGED <<ammVars, vaultVars, walletVars, released, moves>>

AskLaunch(r, legs, usdAsked) ==
    /\ running[r] = Idle
    /\ GoOn(r, <<[kind |-> "launch", legs |-> legs,
                  amount |-> IF usdAsked < LaunchCap THEN usdAsked ELSE LaunchCap]>>, <<>>)
    /\ UNCHANGED <<ammVars, vaultVars, walletVars, released, moves>>

At(r, await) == /\ Busy(r) /\ Ready(r)
                /\ Path(running[r].kind)[at[r]] = await
Advance(r) == at' = [at EXCEPT ![r] = @ + 1]

-----------------------------------------------------------------------------
(* buildTestnetLaunchPlan: the legs by weight, after a bridge when one chain *)
(* is short and the other has more than it needs.                            *)

TotalWeight(legs) == SumFunction([i \in DOMAIN legs |-> legs[i].weight])
LegUsd(leg, launch) == (2 * launch.amount * leg.weight + TotalWeight(launch.legs))
                         \div (2 * TotalWeight(launch.legs))
Legs(launch) ==
    [i \in DOMAIN launch.legs |->
       [kind |-> launch.legs[i].kind, sym |-> launch.legs[i].sym, side |-> 1,
        amount |-> LegUsd(launch.legs[i], launch)]]
Need(launch, rh) ==
    SumFunction([i \in DOMAIN launch.legs |->
                   IF (launch.legs[i].kind = "buy") = rh THEN LegUsd(launch.legs[i], launch) ELSE 0])
(* A leg of nothing is no action. *)
Sized(legs) == FoldLeft(LAMBDA kept, leg : IF leg.amount > 0 THEN Append(kept, leg) ELSE kept,
                        <<>>, legs)
BridgeOf(usdShort, side) ==
    <<[kind |-> "bridge", sym |-> "usd", side |-> side, amount |-> usdShort]>>

(* A read that fails where the code catches it counts as a balance of nothing. *)
Seen(balance) == {balance, 0}

Plan(r) ==
    LET launch == running[r]
        rhNeed == Need(launch, TRUE)
        arbNeed == Need(launch, FALSE)
        BridgeFor(rhHave, arbHave) ==
            IF rhNeed > rhHave /\ arbHave > arbNeed THEN BridgeOf(rhNeed - rhHave, 1)
            ELSE IF arbNeed > arbHave /\ rhHave > rhNeed
            THEN BridgeOf(arbNeed - arbHave, 0) ELSE <<>>
    IN /\ At(r, "plan")
       /\ \E rhHave \in Seen(usd[lookup[r]["b"].key]),
             arbHave \in Seen(bal[1][lookup[r]["c"].key]) :
             GoOn(r, BridgeFor(rhHave, arbHave) \o Sized(Legs(launch)), answers[r])
       /\ UNCHANGED <<ammVars, vaultVars, walletVars, released, moves>>

-----------------------------------------------------------------------------
(* The reads. *)

\* Mutation: what the wallet holds, not what it gained.
DiffFromZero(after, before) == after

Diff(after, before) == IF after > before THEN after - before ELSE after
In(q) == IF q.kind = "lp" THEN 1 ELSE q.side
Spent(q) == IF q.kind = "lp" THEN q.amount \div 2 ELSE q.amount

(* Of a buy or a sell, what the balance it measures holds. *)
Holds(r) == LET q == running[r] IN
            IF q.kind = "buy" THEN stock[q.sym][Key(r)] ELSE usd[Key(r)]

ReadPrice(r) ==
    LET q == running[r] IN
    /\ At(r, "price")
    /\ IF ~ fresh[q.sym] \/ (q.kind = "sell" /\ stock[q.sym][Key(r)] < q.amount)
       THEN Answer(r, FALSE)
       ELSE /\ \E seen \in Seen(Holds(r)) :
                 memory' = [memory EXCEPT ![r].before0 = seen, ![r].missed0 = Holds(r) - seen,
                                          ![r].least = price[q.sym]]
            /\ Advance(r)
            /\ UNCHANGED <<lookup, todo, running, answers, gained, alone>>
    /\ UNCHANGED <<ammVars, vaultVars, walletVars, released, moves>>

ReadQuote(r) ==
    LET q == running[r]
        holds(t) == IF q.kind = "lp" THEN bal[t][Key(r)] ELSE 0 IN
    /\ At(r, "quote")
    /\ IF q.kind = "lp" /\ Quote(1, Spent(q)) = 0
       THEN Answer(r, FALSE)
       ELSE /\ \E seen0 \in Seen(holds(0)), seen1 \in Seen(holds(1)) :
                 memory' = [memory EXCEPT ![r].least = (Quote(In(q), Spent(q)) * 95) \div 100,
                              ![r].before0 = seen0, ![r].missed0 = holds(0) - seen0,
                              ![r].before1 = seen1, ![r].missed1 = holds(1) - seen1]
            /\ Advance(r)
            /\ UNCHANGED <<lookup, todo, running, answers, gained, alone>>
    /\ UNCHANGED <<ammVars, vaultVars, walletVars, released, moves>>

Measure(r) ==
    /\ At(r, "measure")
    /\ memory' = [memory EXCEPT ![r].put0 = Diff(bal[0][Key(r)], memory[r].before0),
                                ![r].put1 = Diff(bal[1][Key(r)], memory[r].before1)]
    /\ Advance(r)
    /\ UNCHANGED <<ammVars, vaultVars, walletVars, lookup, todo, running, answers, gained,
                   alone, released, moves>>

(* What is answered; of a sell, whether its last read failed or not.  A swap answers *)
(* its quote.                                                                       *)
Reported(r, failed) ==
    LET q == running[r]
        usdNow == IF failed THEN memory[r].before0 ELSE usd[Key(r)] IN
    IF q.kind = "buy" THEN Diff(stock[q.sym][Key(r)], memory[r].before0)
    ELSE IF q.kind = "sell"
    THEN IF usdNow > memory[r].before0 THEN usdNow - memory[r].before0
         ELSE (q.amount * memory[r].least) \div PriceScale
    ELSE memory[r].put0

Report(r) ==
    /\ At(r, "report")
    /\ Answer(r, TRUE)
    /\ UNCHANGED <<ammVars, vaultVars, walletVars, released, moves>>

-----------------------------------------------------------------------------
(* The transactions. *)

OnVault(r) ==
    LET q == running[r]  k == Key(r) IN
    \/ At(r, "usdFaucet") /\ UsdFaucet(k, q.amount)
    \/ At(r, "usdApprove") /\ UsdApprove(k, q.amount)
    \/ At(r, "mint") /\ Mint(k, q.sym, q.amount)
    \/ At(r, "redeem") /\ Redeem(k, q.sym, q.amount)
    \/ At(r, "fill") /\ q.side = 0 /\ UsdFaucet(k, q.amount)
    \/ At(r, "lock") /\ q.side = 0 /\ UsdTransfer(k, Sink, q.amount)

OnPool(r) ==
    LET q == running[r]  k == Key(r) IN
    \/ At(r, "faucet") /\ Faucet(In(q), k, q.amount)
    \/ At(r, "approve") /\ Approve(In(q), k, Spent(q))
    \/ At(r, "swap") /\ Swap(k, In(q), Spent(q), memory[r].least)
    \/ At(r, "approve0") /\ Approve(0, k, memory[r].put0)
    \/ At(r, "approve1") /\ Approve(1, k, memory[r].put1)
    \/ At(r, "add") /\ AddLiquidity(k, memory[r].put0, memory[r].put1)
    \/ At(r, "fill") /\ q.side = 1 /\ Faucet(1, k, q.amount)
    \/ At(r, "lock") /\ q.side = 1 /\ Transfer(1, k, Sink, q.amount)

(* The second leg of a bridge, on the other chain with the other wallet. *)
Release(r) ==
    LET q == running[r]  k == lookup[r]["b"].key IN
    /\ At(r, "release")
    /\ IF q.side = 1 THEN UsdFaucet(k, q.amount) /\ UNCHANGED ammVars
       ELSE Faucet(1, k, q.amount) /\ UNCHANGED vaultVars
    /\ released' = released + q.amount

SignsWith(r) == lookup[r][IF At(r, "release") THEN "b" ELSE "a"].key
SignsOn(r)   == Chain(running[r], IF At(r, "release") THEN "b" ELSE "a")

Mined(r) == /\ <<SignsWith(r), SignsOn(r)>> \in gas
            /\ \/ OnVault(r) /\ UNCHANGED <<ammVars, released>>
               \/ OnPool(r) /\ UNCHANGED <<vaultVars, released>>
               \/ Release(r)

(* What the trade of this step pays. *)
Gain(r) ==
    LET q == running[r] IN
    IF At(r, "mint") THEN StockOut(q.sym, q.amount)
    ELSE IF At(r, "redeem") THEN CollateralOut(q.sym, q.amount)
    ELSE IF At(r, "swap") THEN Quote(In(q), Spent(q)) ELSE gained[r]

(* A transaction is mined and the request goes on. *)
Transact(r) ==
    /\ Mined(r)
    /\ Advance(r)
    /\ gained' = [gained EXCEPT ![r] = Gain(r)]
    /\ UNCHANGED <<walletVars, lookup, todo, running, memory, answers, alone, moves>>

(* An await fails that is not caught on its own: any of an action's but the reads of *)
(* Seen, the one at the end of a sell and the reference at the end of a swap; or a   *)
(* lookup, once those beside it have ended.                                          *)
MayFail(r) ==
    \/ Ready(r) /\ (At(r, "report") => running[r].kind \in {"buy", "lp"})
    \/ /\ \E x \in Roles : lookup[r][x].st = "failed"
       /\ \A x \in Roles : ~ Due(r, x)

\* Mutation: a lock that fails does not stop the bridge.
FailsReleasing(r) ==
    /\ Busy(r) /\ MayFail(r)
    /\ IF At(r, "lock")
       THEN Advance(r) /\ UNCHANGED <<lookup, todo, running, memory, answers, gained, alone>>
       ELSE Answer(r, FALSE)
    /\ UNCHANGED <<ammVars, vaultVars, walletVars, released, moves>>

(* A call fails: nothing is mined, and the action is answered with the error. *)
Fails(r) ==
    /\ Busy(r) /\ MayFail(r)
    /\ Answer(r, FALSE)
    /\ UNCHANGED <<ammVars, vaultVars, walletVars, released, moves>>

(* The transaction is mined, and waiting for its receipt fails. *)
MinedUnseen(r) ==
    /\ Mined(r)
    /\ Answer(r, FALSE)
    /\ UNCHANGED <<walletVars, moves>>

-----------------------------------------------------------------------------
(* The other account of the pool, and the owner of the vault. *)

TraderMoves ==
    /\ moves < MaxMoves
    /\ moves' = moves + 1
    /\ \/ \E t \in Tokens : Swap(Trader, t, bal[t][Trader], 0)
       \/ RemoveLiquidity(Trader, shares[Trader])
    /\ UNCHANGED <<vaultVars, walletVars, agentVars>>

OwnerMoves ==
    /\ moves < MaxMoves
    /\ moves' = moves + 1
    /\ \/ \E s \in Symbols : ListStock(s)
       \/ \E p \in Prices : SetPrices(listed, [s \in Symbols |-> p])
       \/ Reage([s \in Symbols |-> FALSE])
       \/ SetWindow(FALSE, TRUE)
    /\ UNCHANGED <<ammVars, walletVars, agentVars>>

Step(r) == \/ \E x \in Roles : \/ SelectWallet(r, x) \/ InsertWallet(r, x)
                                \/ FundWallet(r, x) \/ LookupFails(r, x)
           \/ \E q \in Actions : Ask(r, q)
           \/ \E legs \in Launches, amount \in LaunchUsd : AskLaunch(r, legs, amount)
           \/ Plan(r) \/ ReadPrice(r) \/ ReadQuote(r) \/ Measure(r) \/ Report(r)
           \/ Transact(r) \/ Fails(r) \/ MinedUnseen(r)

Next == (\E r \in Requests : Step(r)) \/ TraderMoves \/ OwnerMoves

Spec == Init /\ [][Next]_vars

-----------------------------------------------------------------------------
(* What an action that ran with no other beside it is about to answer is what its  *)
(* own trade paid, and liquidity is provided with what this leg swapped and kept,   *)
(* not with what the wallet already held (agentExec.ts:207, 250, 438-439), but for  *)
(* exactly the balance that a failed read before the trade did not see, which       *)
(* counts as gained (196, 246, 427-428).  A sell that cannot read the balance after *)
(* answers by the price it read (249-250).  A trade that paid nothing reports the   *)
(* balance.                                                                         *)
AnswersAreHonest ==
    \A r \in Requests, failed \in BOOLEAN :
      LET q == running[r]  m == memory[r] IN
      At(r, "report") /\ alone[r] /\ gained[r] > 0 /\ q.kind \in {"buy", "sell", "lp"} =>
        /\ Reported(r, failed) = IF q.kind = "sell" /\ failed
                                 THEN (q.amount * m.least) \div PriceScale
                                 ELSE gained[r] + m.missed0
        /\ q.kind = "lp" => m.put1 = (q.amount - Spent(q)) + m.missed1

(* No bridge mints on its destination what is not locked on its source, whatever *)
(* fails between the two transactions (agentExec.ts:500-503).                    *)
BridgedIsLocked == released <= usd[Sink] + bal[1][Sink]

(* Each owner gets their own EOA the agent signs with, encrypted in the database: *)
(* every key a request acts with is the stored one (agentExec.ts:44-54).          *)
ActsWithStoredKey ==
    \A r \in Requests, x \in Roles :
        lookup[r][x].st = "ready" => lookup[r][x].key = stored
=============================================================================
