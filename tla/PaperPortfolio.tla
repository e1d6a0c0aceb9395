--------------------------- MODULE PaperPortfolio ---------------------------
(***************************************************************************)
(* The book of a paper-trading session, packages/quant-core/quant_core/    *)
(* portfolio.py, for the one symbol a session trades.  The position is a   *)
(* signed quantity and the cost of entering it (avg_entry * qty, so that   *)
(* averaging needs no division).  Prices, quantities and cash are          *)
(* integers; the risk fractions are percentages.                           *)
(***************************************************************************)
EXTENDS Integers

CONSTANTS StartingEquity,
          MaxPositionPct, MaxExposurePct,  \* pre-trade limits, % of equity
          MaxDailyLossPct, MaxDrawdownPct  \* kill switches, % of equity

ASSUME StartingEquityAssumption == StartingEquity \in Nat \ {0}

Size(x) == IF x < 0 THEN -x ELSE x

NoDay == -1

NewPortfolio ==
  [cash |-> StartingEquity, net |-> 0, cost |-> 0, day |-> NoDay,
   dayStart |-> StartingEquity, hwm |-> StartingEquity, killed |-> FALSE]

Unrealized(pf, mark) ==
  IF pf.net < 0 THEN pf.cost + mark * pf.net ELSE mark * pf.net - pf.cost

Equity(pf, mark) == pf.cash + Unrealized(pf, mark)

Exposure(pf, mark) == Size(pf.net) * mark

-----------------------------------------------------------------------------
(* Fills.  signed is the quantity bought (sold when negative).             *)

Opposite(pf, signed) == (pf.net < 0 /\ signed > 0) \/ (pf.net > 0 /\ signed < 0)

\* The part of a fill that closes the position, and what entering it had cost.
CloseQty(pf, signed) ==
  IF ~Opposite(pf, signed) THEN 0
  ELSE IF Size(signed) < Size(pf.net) THEN Size(signed) ELSE Size(pf.net)

EntryCost(pf, signed) ==
  IF CloseQty(pf, signed) = Size(pf.net) THEN pf.cost
  ELSE (pf.cost * CloseQty(pf, signed)) \div Size(pf.net)

\* Mutation: a short is realised as if it were long.
RealizedLong(pf, signed, price) ==
  IF ~Opposite(pf, signed) THEN 0
  ELSE price * CloseQty(pf, signed) - EntryCost(pf, signed)

Realized(pf, signed, price) ==
  IF ~Opposite(pf, signed) THEN 0
  ELSE IF pf.net > 0 THEN price * CloseQty(pf, signed) - EntryCost(pf, signed)
       ELSE EntryCost(pf, signed) - price * CloseQty(pf, signed)

CostAfter(pf, signed, price) ==
  IF ~Opposite(pf, signed) THEN pf.cost + price * Size(signed)
  ELSE IF CloseQty(pf, signed) < Size(pf.net) THEN pf.cost - EntryCost(pf, signed)
       ELSE price * (Size(signed) - CloseQty(pf, signed))

ApplyFill(pf, signed, price, fee) ==
  [cash |-> pf.cash + Realized(pf, signed, price) - fee,
   net |-> pf.net + signed,
   cost |-> CostAfter(pf, signed, price),
   day |-> pf.day, dayStart |-> pf.dayStart, hwm |-> pf.hwm, killed |-> pf.killed]

-----------------------------------------------------------------------------
(* Risk gates.                                                             *)

Allowed(pf, qty, price) ==
  LET eq == Equity(pf, price)
      notional == qty * price
  IN  /\ ~pf.killed
      /\ eq > 0
      /\ 100 * notional <= eq * MaxPositionPct
      /\ 100 * (Exposure(pf, price) + notional) <= eq * MaxExposurePct

\* rollover_day_if_needed: a new day starts from the cash, open positions or not.
RolledOver(pf, day) ==
  IF pf.day = day THEN pf ELSE [pf EXCEPT !.day = day, !.dayStart = pf.cash]

LossAbove(from, eq, pct) == from > 0 /\ 100 * (from - eq) > pct * from

UpdateEquityMarks(pf, day, mark) ==
  LET today == RolledOver(pf, day)
      eq == Equity(today, mark)
      hwm == IF eq > today.hwm THEN eq ELSE today.hwm
  IN  [today EXCEPT
         !.hwm = hwm,
         !.killed = \/ today.killed
                    \/ LossAbove(today.dayStart, eq, MaxDailyLossPct)
                    \/ LossAbove(hwm, eq, MaxDrawdownPct)]

-----------------------------------------------------------------------------
\* What the book is worth with the position at its cost: the part of the equity that
\* only fills and fees move.
Settled(pf) == IF pf.net < 0 THEN pf.cash + pf.cost ELSE pf.cash - pf.cost
=============================================================================
