---------------------------- MODULE PaperRuntime ----------------------------
(***************************************************************************)
(* The bar-driven paper engine, packages/quant-core/quant_core/            *)
(* paper_runtime.py and orders.py, at bar fidelity with the opt-in paths   *)
(* (L2 providers, latency, instrument filters, order semantics, tiered     *)
(* liquidation) off, as a session starts it by default.  Run replays a     *)
(* batch of bars on a runtime that keeps its book, its resting orders and  *)
(* its strategy from one batch to the next.                                *)
(*                                                                         *)
(* An order fills in full or rests: MAKER_PARTICIPATION_RATE is 0.  Fees   *)
(* and slippage are per unit.  Two of the strategies stand for the rest:   *)
(* one that trades with market orders and trailing stops and remembers its *)
(* last signal, and one that quotes limit orders on both sides.            *)
(***************************************************************************)
EXTENDS PaperPortfolio, Sequences, SequencesExt

CONSTANTS TakerFee, MakerFee, Slip,      \* per unit
          OrderQty, TrailOffset, Spread, MaxInventory,
          BarsPerDay

ASSUME EngineAssumption ==
  /\ {TakerFee, MakerFee, Slip, TrailOffset, Spread, MaxInventory} \subseteq Nat
  /\ {OrderQty, BarsPerDay} \subseteq Nat \ {0}

NoLevel == 0

Market(side, qty) ==
  [type |-> "market", side |-> side, qty |-> qty, level |-> NoLevel, offset |-> 0]
TrailingStop(side, qty, offset) ==
  [type |-> "trailing_stop", side |-> side, qty |-> qty, level |-> NoLevel, offset |-> offset]
Limit(side, qty, price) ==
  [type |-> "limit", side |-> side, qty |-> qty, level |-> price, offset |-> 0]

-----------------------------------------------------------------------------
(* Strategies.  A decision cancels all resting orders or none, places new  *)
(* ones and may change what the strategy remembers.                        *)

\* The crossing of the two averages is the direction of the bar.
CrossUp(rt, bar) == bar.close > bar.open /\ rt.signal # "long"
CrossDown(rt, bar) == bar.close < bar.open /\ rt.signal # "short"

Follow(side, net) ==
  (IF net * side < 0 THEN <<Market(side, Size(net))>> ELSE <<>>)
  \o (IF net * side <= 0
      THEN <<Market(side, OrderQty), TrailingStop(-side, OrderQty, TrailOffset)>>
      ELSE <<>>)

TrendEmaCross(rt, bar) ==
  [cancelAll |-> FALSE,
   place |-> IF CrossUp(rt, bar) THEN Follow(1, rt.pf.net)
             ELSE IF CrossDown(rt, bar) THEN Follow(-1, rt.pf.net) ELSE <<>>,
   signal |-> IF CrossUp(rt, bar) THEN "long"
              ELSE IF CrossDown(rt, bar) THEN "short" ELSE rt.signal]

PureMarketMaker(rt, bar) ==
  [cancelAll |-> TRUE,
   place |-> (IF rt.pf.net < MaxInventory
              THEN <<Limit(1, OrderQty, bar.close - Spread)>> ELSE <<>>)
             \o (IF rt.pf.net > -MaxInventory
                 THEN <<Limit(-1, OrderQty, bar.close + Spread)>> ELSE <<>>),
   signal |-> rt.signal]

Decide(rt, bar) ==
  IF rt.strategy = "trend_ema_cross" THEN TrendEmaCross(rt, bar) ELSE PureMarketMaker(rt, bar)

-----------------------------------------------------------------------------
(* Orders.                                                                 *)

NewRuntime(strategy, signal) ==
  [strategy |-> strategy, signal |-> signal, pf |-> NewPortfolio,
   orders |-> <<>>, fills |-> <<>>, curve |-> 0]

\* An order that passes the pre-trade checks rests; one that does not is dropped.
Intake(rt, o, bar) ==
  IF Allowed(rt.pf, o.qty, bar.close)
  THEN [rt EXCEPT !.orders = Append(@, [order |-> o, at |-> bar.ts])]
  ELSE rt

Filled(rt, type, at, signed, price, unitFee, ts) ==
  [rt EXCEPT
     !.pf = ApplyFill(@, signed, price, unitFee * Size(signed)),
     !.fills = Append(@, [type |-> type, at |-> at, signed |-> signed, price |-> price,
                          fee |-> unitFee * Size(signed), ts |-> ts])]

MarketPrice(bar, side) == bar.open + side * Slip

LimitHit(o, bar) == IF o.side = 1 THEN bar.low < o.level ELSE bar.high > o.level

\* update_trailing: the level follows the best close seen and never gives way.
Trailed(o, close) ==
  LET level == close + o.side * o.offset
  IN  IF o.level = NoLevel \/ (level - o.level) * o.side < 0
      THEN [o EXCEPT !.level = level] ELSE o

StopReached(o, bar) == IF o.side = 1 THEN bar.high >= o.level ELSE bar.low <= o.level

\* A bar that opens beyond the stop fills at its open.
StopPrice(o, bar) ==
  IF (bar.open - o.level) * o.side > 0 THEN bar.open ELSE o.level

Process(rt, r, bar, next) ==
  LET o == IF r.order.type = "trailing_stop" THEN Trailed(r.order, bar.close) ELSE r.order
      signed == o.side * o.qty
  IN  IF o.type = "market"
      THEN Filled(rt, o.type, r.at, signed, MarketPrice(next, o.side), TakerFee, next.ts)
      ELSE IF o.type = "limit" /\ LimitHit(o, bar)
      THEN Filled(rt, o.type, r.at, signed, o.level, MakerFee, bar.ts)
      ELSE IF o.type = "trailing_stop" /\ StopReached(o, bar)
      THEN Filled(rt, o.type, r.at, signed, StopPrice(o, bar), TakerFee, bar.ts)
      ELSE [rt EXCEPT !.orders = Append(@, [order |-> o, at |-> r.at])]

-----------------------------------------------------------------------------
(* A batch.  Nothing is processed on its last bar, which has no next one.  *)

IsLast(bars, i) == i = Len(bars)

ProcessPending(rt, bars, i) ==
  IF IsLast(bars, i) THEN rt
  ELSE FoldLeft(LAMBDA acc, r : Process(acc, r, bars[i], bars[i + 1]),
                [rt EXCEPT !.orders = <<>>], rt.orders)

Decided(rt, bar) ==
  LET d == Decide(rt, bar)
  IN  FoldLeft(LAMBDA acc, o : Intake(acc, o, bar),
               [rt EXCEPT !.signal = d.signal, !.orders = IF d.cancelAll THEN <<>> ELSE @],
               d.place)

Marked(rt, bar) ==
  [rt EXCEPT !.pf = UpdateEquityMarks(@, bar.ts \div BarsPerDay, bar.close), !.curve = @ + 1]

\* Mutation: a book is closed once only.
LiquidatedOnce(rt, bars, i) ==
  IF \/ rt.pf.net = 0 \/ IsLast(bars, i)
     \/ \E k \in DOMAIN rt.fills : rt.fills[k].type = "kill_liquidate"
  THEN rt
  ELSE Filled(rt, "kill_liquidate", bars[i].ts, -rt.pf.net,
              MarketPrice(bars[i + 1], IF rt.pf.net > 0 THEN -1 ELSE 1), TakerFee, bars[i + 1].ts)

\* A killed book closes its position at the next open, when the batch has one.
Liquidated(rt, bars, i) ==
  IF rt.pf.net = 0 \/ IsLast(bars, i) THEN rt
  ELSE Filled(rt, "kill_liquidate", bars[i].ts, -rt.pf.net,
              MarketPrice(bars[i + 1], IF rt.pf.net > 0 THEN -1 ELSE 1), TakerFee, bars[i + 1].ts)

OnBar(rt, bars, i) ==
  LET marked == Marked(ProcessPending(Decided(rt, bars[i]), bars, i), bars[i])
  IN  IF marked.pf.killed THEN Liquidated(marked, bars, i) ELSE marked

\* run: the first bar on which the book is killed ends the batch.
Run(rt, bars) ==
  FoldLeftDomain(LAMBDA acc, i : IF acc.halted THEN acc
                                 ELSE LET done == OnBar(acc.rt, bars, i)
                                      IN  [rt |-> done, halted |-> done.pf.killed],
                 [rt |-> rt, halted |-> FALSE], bars).rt
=============================================================================
