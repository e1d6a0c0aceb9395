------------------------------- MODULE Basket -------------------------------
(***************************************************************************)
(* The multi-asset engine, packages/quant-core/quant_core/                 *)
(* portfolio_engine.py: a basket of legs run as one book over the candles  *)
(* of all of them, at the default liquidation model.                       *)
(*                                                                         *)
(* A tape is the union timeline: a column has a time and the candle of     *)
(* each leg that has one at it.  The engine reads the open and the close   *)
(* of a candle only.  Money and quantities are integers, a quantity in     *)
(* hundredths of a unit: a division rounds down where the Decimal of the   *)
(* code has 28 digits.  Slippage is an amount per unit.  The schemes that  *)
(* divide by a volatility (inverse_vol, risk_parity) are left out.         *)
(***************************************************************************)
EXTENDS PaperPortfolio, Sequences, SequencesExt

CONSTANTS Legs,              \* of the basket: [equity, weight, leverage], in their order
          OffHours,          \* the times outside US regular trading hours
          TimesPerDay,
          LegSlip, OffHoursSlip, LegFeeBps,
          ThresholdPct,      \* rebalance_threshold
          Lookback, TopN,    \* of the momentum scheme
          DayLossPct, KillPct

\* validate_legs: a basket that breaks the rule of the equity legs is not run.
ASSUME LegsAssumption ==
  /\ Legs \in Seq([equity : BOOLEAN, weight : Int, leverage : Int])
  /\ \A l \in DOMAIN Legs : Legs[l].equity => Legs[l].leverage = 1
ASSUME BasketAssumption ==
  TimesPerDay \in Nat \ {0} /\ {LegSlip, OffHoursSlip, LegFeeBps, Lookback} \subseteq Nat

Unit == 100

NoBar == [open |-> 0, close |-> 0]
Flat == [net |-> 0, cost |-> 0]

\* The column of a leg's last candle at or before a column, 0 before its first one.
ColumnOf(tape, l, i) == Max({j \in 1..i : tape[j].bar[l] # NoBar} \cup {0})

\* bar_for: that candle, carried forward to the column.
BarAt(tape, l, i) ==
  IF ColumnOf(tape, l, i) = 0 THEN NoBar ELSE tape[ColumnOf(tape, l, i)].bar[l]

\* Mutation: the marks of a column are those of the next one.
MarksAhead(tape, i) ==
  [l \in DOMAIN Legs |-> BarAt(tape, l, IF i < Len(tape) THEN i + 1 ELSE i).close]

MarksAt(tape, i) == [l \in DOMAIN Legs |-> BarAt(tape, l, i).close]

-----------------------------------------------------------------------------
(* The book: one account of cash, a position for each leg.                 *)

Total(f) == FoldFunction(+, 0, f)

NewBook ==
  [cash |-> StartingEquity * Unit, pos |-> [l \in DOMAIN Legs |-> Flat], day |-> NoDay,
   dayStart |-> StartingEquity * Unit, hwm |-> StartingEquity * Unit, killed |-> FALSE]

NotionalOf(book, l, marks) == Exposure(book.pos[l], marks[l])
Gross(book, marks) == Total([l \in DOMAIN Legs |-> NotionalOf(book, l, marks)])
Worth(book, marks) ==
  book.cash + Total([l \in DOMAIN Legs |-> Unrealized(book.pos[l], marks[l])])

\* update_equity_marks for the whole basket, and the engine's floor at zero.
MarkedBook(book, day, marks) ==
  LET today == RolledOver(book, day)
      worth == Worth(today, marks)
      hwm == IF worth > today.hwm THEN worth ELSE today.hwm
  IN  [today EXCEPT
         !.hwm = hwm,
         !.killed = \/ @
                    \/ LossAbove(today.dayStart, worth, DayLossPct)
                    \/ LossAbove(hwm, worth, KillPct)
                    \/ worth <= 0]

-----------------------------------------------------------------------------
(* Target weights, as fractions num / den.                                 *)

\* The legs whose closes rose most over the lookback; a leg has none before its first
\* candle.
Momentum(tape, i) ==
  LET now == MarksAt(tape, i)
      past == MarksAt(tape, i - Lookback)
      rising == {l \in DOMAIN Legs : i > Lookback /\ past[l] > 0 /\ now[l] > past[l]}
      ahead(k, l) == \/ now[k] * past[l] > now[l] * past[k]
                     \/ now[k] * past[l] = now[l] * past[k] /\ k < l
      chosen == {l \in rising : Cardinality({k \in rising : ahead(k, l)}) < TopN}
  IN  IF chosen = {} THEN DOMAIN Legs ELSE chosen

Weights(scheme, tape, i) ==
  LET among == IF scheme = "momentum" THEN Momentum(tape, i) ELSE DOMAIN Legs
      total == Total([l \in DOMAIN Legs |-> Size(Legs[l].weight)])
  IN  IF scheme = "fixed"
      THEN [num |-> [l \in DOMAIN Legs |-> Size(Legs[l].weight)],
            den |-> IF total = 0 THEN 1 ELSE total]
      ELSE [num |-> [l \in DOMAIN Legs |-> IF l \in among THEN 1 ELSE 0],
            den |-> Cardinality(among)]

\* Some leg's share of the exposure is off its target by the threshold.
Drifted(book, marks, w) ==
  LET gross == Gross(book, marks)
      off(l) == Size(NotionalOf(book, l, marks) * w.den - w.num[l] * gross)
  IN  \E l \in DOMAIN Legs :
        IF gross = 0 THEN 100 * w.num[l] >= ThresholdPct * w.den
        ELSE 100 * off(l) >= ThresholdPct * w.den * gross

-----------------------------------------------------------------------------
(* Fills, always in the next column.                                       *)

\* The slippage is that of the candle's own time, the trading hours are those of the
\* column.
SlipOf(l, ts) == IF Legs[l].equity /\ ts \in OffHours THEN OffHoursSlip ELSE LegSlip

FillPrice(tape, l, i, side) ==
  BarAt(tape, l, i).open + side * SlipOf(l, tape[ColumnOf(tape, l, i)].ts)

Filling(run, l, signed, price, i) ==
  LET fee == (Size(signed) * price * LegFeeBps) \div 10000
      p == run.book.pos[l]
  IN  [run EXCEPT
         !.book.cash = @ + Realized(p, signed, price) - fee,
         !.book.pos[l] = [net |-> p.net + signed, cost |-> CostAfter(p, signed, price)],
         !.fills = Append(@, [leg |-> l, signed |-> signed, price |-> price, at |-> i])]

\* What an order for a leg would change its notional by.
Delta(run, l, marks, w, budget) ==
  (budget * w.num[l] * Legs[l].leverage) \div w.den - NotionalOf(run.book, l, marks)

\* Equity legs: in trading hours only, and no sale without a position.
Venue(run, l, delta, ts) ==
  Legs[l].equity => ts \notin OffHours /\ (delta < 0 => run.book.pos[l].net # 0)

Ordered(run, tape, l, i, marks, w, budget) ==
  LET delta == Delta(run, l, marks, w, budget)
      side == IF delta > 0 THEN 1 ELSE -1
      price == FillPrice(tape, l, i + 1, side)
  IN  IF \/ delta = 0 \/ BarAt(tape, l, i + 1) = NoBar
         \/ ~Venue(run, l, delta, tape[i + 1].ts) \/ price <= 0
      THEN run
      ELSE Filling(run, l, side * (Size(delta) \div price), price, i + 1)

Rebalanced(run, tape, i, marks, w) ==
  LET gross == Gross(run.book, marks)
      budget == IF gross > 0 THEN gross ELSE StartingEquity * Unit
  IN  FoldLeftDomain(LAMBDA acc, l : Ordered(acc, tape, l, i, marks, w, budget),
                     [run EXCEPT !.rebalances = @ + 1], Legs)

\* Mutation: every position is closed by a sale.
FlattenedBySelling(run, tape, i) ==
  FoldLeftDomain(LAMBDA acc, l :
                   LET p == acc.book.pos[l]
                   IN  IF p.net = 0 THEN acc
                       ELSE Filling(acc, l, -Size(p.net), FillPrice(tape, l, i, -1), i),
                 run, Legs)

\* A killed book closes every position at the next open.
Closing(run, tape, l, i) ==
  LET p == run.book.pos[l]
      side == IF p.net > 0 THEN -1 ELSE 1
  IN  IF p.net = 0 \/ BarAt(tape, l, i) = NoBar THEN run
      ELSE Filling(run, l, -p.net, FillPrice(tape, l, i, side), i)

Flattened(run, tape, i) ==
  FoldLeftDomain(LAMBDA acc, l : Closing(acc, tape, l, i), run, Legs)

-----------------------------------------------------------------------------
(* run_portfolio.                                                          *)

NewRun == [book |-> NewBook, curve |-> <<>>, fills |-> <<>>, rebalances |-> 0]

OnColumn(run, scheme, tape, i) ==
  LET marks == MarksAt(tape, i)
      book == MarkedBook(run.book, tape[i].ts \div TimesPerDay, marks)
      seen == [run EXCEPT !.book = book, !.curve = Append(@, Worth(book, marks))]
      w == Weights(scheme, tape, i)
  IN  IF i = Len(tape) THEN seen
      ELSE IF book.killed THEN Flattened(seen, tape, i + 1)
      ELSE IF i = 1 \/ Drifted(book, marks, w) THEN Rebalanced(seen, tape, i, marks, w)
      ELSE seen

\* The column that kills the book is the last one looked at.
RunPortfolio(scheme, tape) ==
  IF Len(tape) < 2 THEN NewRun
  ELSE FoldLeftDomain(LAMBDA run, i : IF run.book.killed THEN run
                                      ELSE OnColumn(run, scheme, tape, i),
                      NewRun, tape)
=============================================================================
