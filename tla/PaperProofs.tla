----------------------------- MODULE PaperProofs -----------------------------
(***************************************************************************)
(* Proofs about a live paper session: what a fill does to a book, what a   *)
(* bar and a batch of bars do to a runtime, and from these what the worker *)
(* does to its books, for any candles, fees, sizes, crashes, errors and    *)
(* interleavings.  Then about the basket engine: what a column does to a   *)
(* run, that a run over one more column repeats the run before it, and     *)
(* that an equity leg is short only behind a fall of its price.            *)
(***************************************************************************)
EXTENDS MCLivePaper, FoldFacts, TLAPS

Book == [cash : Int, net : Int, cost : Int, day : Int, dayStart : Int, hwm : Int,
         killed : BOOLEAN]

\* A flat book has no entry cost.
WellKept(pf) == pf \in Book /\ (pf.net = 0 => pf.cost = 0)

\* A fill closes part of the position, all of it, or all of it and opens the other way.
LEMMA CloseQtyBounds ==
  ASSUME NEW pf \in Book, NEW signed \in Int
  PROVE  /\ CloseQty(pf, signed) \in Nat
         /\ CloseQty(pf, signed) <= Size(pf.net)
         /\ CloseQty(pf, signed) <= Size(signed)
  BY DEF Book, CloseQty, Opposite, Size

\* What entering the part had cost is all of it when the part is.
LEMMA EntryCostType ==
  ASSUME NEW pf \in Book, NEW signed \in Int, Opposite(pf, signed)
  PROVE  /\ EntryCost(pf, signed) \in Int
         /\ CloseQty(pf, signed) = Size(pf.net) => EntryCost(pf, signed) = pf.cost
<1>1. CASE CloseQty(pf, signed) = Size(pf.net)
  BY <1>1 DEF EntryCost, Book
<1>2. CASE CloseQty(pf, signed) # Size(pf.net)
  <2>1. Size(pf.net) \in Nat \ {0}
    BY DEF Size, Book, Opposite
  <2>2. pf.cost * CloseQty(pf, signed) \in Int
    BY CloseQtyBounds DEF Book
  <2>3. \A x \in Int, d \in Nat \ {0} : x \div d \in Int
    OBVIOUS
  <2>4. (pf.cost * CloseQty(pf, signed)) \div Size(pf.net) \in Int
    BY <2>1, <2>2, <2>3
  <2> QED
    BY <1>2, <2>4 DEF EntryCost
<1> QED
  BY <1>1, <1>2

\* The product of a price and a signed quantity, by the sign of the quantity.
LEMMA SizeProduct ==
  ASSUME NEW price \in Int, NEW q \in Int
  PROVE  /\ Size(q) \in Nat
         /\ q >= 0 => price * Size(q) = q * price
         /\ q < 0 => price * Size(q) = -(q * price)
  BY DEF Size

\* portfolio.py:86-121: whatever a fill does to the position (opens it, adds to it,
\* closes part of it, closes it, turns it around), the cash and the entry cost together
\* move by exactly what was paid, and a book that becomes flat keeps no entry cost.
THEOREM FillAccounting ==
  ASSUME NEW pf, WellKept(pf), NEW signed \in Int \ {0}, NEW price \in Int, NEW fee \in Int
  PROVE  /\ WellKept(ApplyFill(pf, signed, price, fee))
         /\ ApplyFill(pf, signed, price, fee).net = pf.net + signed
         /\ Settled(ApplyFill(pf, signed, price, fee)) = Settled(pf) - signed * price - fee
<1> DEFINE after == ApplyFill(pf, signed, price, fee)
           closed == CloseQty(pf, signed)
           entry == EntryCost(pf, signed)
           paid == price * Size(signed)
           opened == price * (Size(signed) - closed)
<1>1. /\ pf.cash \in Int /\ pf.net \in Int /\ pf.cost \in Int
      /\ pf \in Book /\ (pf.net = 0 => pf.cost = 0)
  BY DEF WellKept, Book
<1>2. /\ after.cash = pf.cash + Realized(pf, signed, price) - fee
      /\ after.net = pf.net + signed
      /\ after.cost = CostAfter(pf, signed, price)
  BY DEF ApplyFill
<1>3. after \in Book
      <=> /\ pf.cash + Realized(pf, signed, price) - fee \in Int
          /\ CostAfter(pf, signed, price) \in Int
  BY <1>1 DEF ApplyFill, Book
<1>4. /\ closed \in Nat /\ closed <= Size(pf.net) /\ closed <= Size(signed)
      /\ Size(signed) \in Nat /\ Size(pf.net) \in Nat
  BY <1>1, CloseQtyBounds DEF Size
<1>5. /\ paid \in Int /\ opened \in Int /\ price * closed \in Int
      /\ opened = paid - price * closed
  BY <1>4
<1>6. /\ signed > 0 => paid = signed * price
      /\ signed < 0 => paid = -(signed * price)
      /\ signed * price \in Int
  BY SizeProduct
<1>7. CASE ~Opposite(pf, signed)
  <2>1. after.cash = pf.cash - fee /\ after.cost = pf.cost + paid
    BY <1>1, <1>2, <1>7 DEF Realized, CostAfter
  <2>2. after \in Book
    BY <1>1, <1>3, <1>5, <1>7, <2>1 DEF Realized, CostAfter
  <2>3. CASE signed > 0
    BY <1>1, <1>2, <1>5, <1>6, <1>7, <2>1, <2>2, <2>3 DEF Opposite, Settled, WellKept
  <2>4. CASE signed < 0
    BY <1>1, <1>2, <1>5, <1>6, <1>7, <2>1, <2>2, <2>4 DEF Opposite, Settled, WellKept
  <2> QED
    BY <2>3, <2>4
<1>8. CASE Opposite(pf, signed)
  <2>1. entry \in Int /\ (closed = Size(pf.net) => entry = pf.cost)
    BY <1>1, <1>8, EntryCostType
  <2>2. /\ pf.net > 0 => after.cash = pf.cash + (price * closed - entry) - fee
        /\ pf.net < 0 => after.cash = pf.cash + (entry - price * closed) - fee
    BY <1>1, <1>2, <1>8 DEF Realized, Opposite
  <2>3. pf.net > 0 \/ pf.net < 0
    BY <1>8 DEF Opposite
  <2>4. CASE closed < Size(pf.net)
    <3>1. after.cost = pf.cost - entry
      BY <1>2, <1>8, <2>4 DEF CostAfter
    <3>2. closed = Size(signed) /\ price * closed = paid
      <4>1. closed = Size(signed)
        BY <1>4, <1>8, <2>4 DEF CloseQty
      <4> QED
        BY <4>1
    <3>3. after \in Book
      BY <1>1, <1>2, <1>3, <1>5, <2>1, <2>2, <2>3, <3>1
    <3>4. /\ pf.net > 0 => after.net > 0 /\ signed < 0
          /\ pf.net < 0 => after.net < 0 /\ signed > 0
      BY <1>1, <1>2, <1>8, <2>4, <3>2 DEF Opposite, Size
    <3> QED
      BY <1>1, <1>2, <1>5, <1>6, <2>1, <2>2, <2>3, <3>1, <3>2, <3>3, <3>4 DEF Settled, WellKept
  <2>5. CASE closed = Size(pf.net)
    <3>1. after.cost = opened /\ entry = pf.cost
      BY <1>2, <1>4, <1>8, <2>1, <2>5 DEF CostAfter
    <3>2. after \in Book
      BY <1>1, <1>2, <1>3, <1>5, <2>1, <2>2, <2>3, <3>1
    <3>3. /\ pf.net > 0 => after.net <= 0 /\ signed < 0
          /\ pf.net < 0 => after.net >= 0 /\ signed > 0
      BY <1>1, <1>2, <1>4, <1>8, <2>5 DEF Opposite, Size
    <3>4. after.net = 0 => opened = 0
      <4>1. after.net = 0 => Size(signed) - closed = 0
        BY <1>1, <1>2, <2>5 DEF Size
      <4> QED
        BY <4>1
    <3> QED
      BY <1>1, <1>2, <1>5, <1>6, <2>2, <2>3, <3>1, <3>2, <3>3, <3>4 DEF Settled, WellKept
  <2> QED
    BY <1>4, <2>4, <2>5
<1> QED
  BY <1>7, <1>8

-----------------------------------------------------------------------------
(* Runtimes. *)

Signals == {"none", "long", "short"}
OrderRow == [type : {"market", "trailing_stop", "limit"}, side : {1, -1}, qty : Nat \ {0},
             level : Int, offset : Int]
Resting == [order : OrderRow, at : Nat]
FillRow == [type : {"market", "trailing_stop", "limit", "kill_liquidate"}, at : Nat,
            signed : Int \ {0}, price : Int, fee : Int, ts : Nat]
Runtimes == [strategy : Strategies, signal : Signals, pf : Book, orders : Seq(Resting),
             fills : Seq(FillRow), curve : Nat]
BarRow == [ts : Nat, open : Int, high : Int, low : Int, close : Int]

Balanced(rt) ==
  /\ WellKept(rt.pf) /\ rt.pf.net = Bought(rt.fills)
  /\ Settled(rt.pf) = StartingEquity - Spent(rt.fills)

\* A fill is on a bar of G, and of an order no younger than it.
OnTime(f, G) == /\ f.ts \in G /\ f.at <= f.ts
                /\ f.type \in {"market", "kill_liquidate"} => f.at < f.ts

\* A runtime whose book is its fills, all on bars of G, and whose orders are not younger
\* than t.
Sound(rt, G, t) ==
  /\ rt \in Runtimes /\ Balanced(rt)
  /\ \A i \in DOMAIN rt.orders : rt.orders[i].at <= t
  /\ \A i \in DOMAIN rt.fills : OnTime(rt.fills[i], G)

-----------------------------------------------------------------------------
(* Sums over fills. *)

CostOf(fills) == [i \in DOMAIN fills |-> fills[i].signed * fills[i].price + fills[i].fee]
QtyOf(fills) == [i \in DOMAIN fills |-> fills[i].signed]

\* What the fills cost is a sum.
LEMMA SpentIsSum ==
  ASSUME NEW fills \in Seq(FillRow)
  PROVE  Spent(fills) = SumOver(CostOf(fills), DOMAIN fills)
<1> DEFINE S == DOMAIN fills
           IsIter(h) == h = [s \in SUBSET S |->
                               IF s = {} THEN 0
                               ELSE fills[Pick(s)].signed * fills[Pick(s)].price
                                      + fills[Pick(s)].fee + h[s \ {Pick(s)}]]
           iter == CHOOSE h : IsIter(h)
<1>0. IsFiniteSet(S)
  <2>1. S = 1..Len(fills) /\ Len(fills) \in Nat
    OBVIOUS
  <2> QED BY <2>1, FS_Interval
<1>1. PICK g : Sums(g, CostOf(fills), S)
  BY <1>0, SumsExist
<1>2. \A h : IsIter(h) <=> Sums(h, CostOf(fills), S)
  <2>1. \A s \in SUBSET S : s # {} =>
          CostOf(fills)[Pick(s)] = fills[Pick(s)].signed * fills[Pick(s)].price
                                     + fills[Pick(s)].fee
    BY PickIn DEF CostOf
  <2> QED BY <2>1 DEF Sums
<1>3. Spent(fills) = iter[S]
  BY DEF Spent, MapThenSumSet, MapThenFoldSet, Pick
<1>4. IsIter(iter)
  <2> HIDE DEF IsIter
  <2> QED BY <1>1, <1>2
<1>5. Sums(iter, CostOf(fills), S)
  <2> HIDE DEF IsIter
  <2> QED BY <1>2, <1>4
<1> HIDE DEF iter
<1> QED BY <1>0, <1>3, <1>5, SumOverIs

\* So is what they bought.
LEMMA BoughtIsSum ==
  ASSUME NEW fills \in Seq(FillRow)
  PROVE  Bought(fills) = SumOver(QtyOf(fills), DOMAIN fills)
<1> DEFINE S == DOMAIN fills
           IsIter(h) == h = [s \in SUBSET S |->
                               IF s = {} THEN 0
                               ELSE fills[Pick(s)].signed + h[s \ {Pick(s)}]]
           iter == CHOOSE h : IsIter(h)
<1>0. IsFiniteSet(S)
  <2>1. S = 1..Len(fills) /\ Len(fills) \in Nat
    OBVIOUS
  <2> QED BY <2>1, FS_Interval
<1>1. PICK g : Sums(g, QtyOf(fills), S)
  BY <1>0, SumsExist
<1>2. \A h : IsIter(h) <=> Sums(h, QtyOf(fills), S)
  <2>1. \A s \in SUBSET S : s # {} => QtyOf(fills)[Pick(s)] = fills[Pick(s)].signed
    BY PickIn DEF QtyOf
  <2> QED BY <2>1 DEF Sums
<1>3. Bought(fills) = iter[S]
  BY DEF Bought, MapThenSumSet, MapThenFoldSet, Pick
<1>4. IsIter(iter)
  <2> HIDE DEF IsIter
  <2> QED BY <1>1, <1>2
<1>5. Sums(iter, QtyOf(fills), S)
  <2> HIDE DEF IsIter
  <2> QED BY <1>2, <1>4
<1> HIDE DEF iter
<1> QED BY <1>0, <1>3, <1>5, SumOverIs

\* A sum over a list that is one longer.
LEMMA SumOfOneMore ==
  ASSUME NEW n \in Nat, NEW f \in [1..n -> Int], NEW h \in [1..n + 1 -> Int],
         \A i \in 1..n : h[i] = f[i]
  PROVE  /\ SumOver(f, 1..n) \in Int
         /\ SumOver(h, 1..n + 1) = SumOver(f, 1..n) + h[n + 1]
<1>1. IsFiniteSet(1..n) /\ 1..n \in SUBSET (1..n) /\ 1..n \in SUBSET (1..n + 1)
  BY FS_Interval
<1>2. 1..n + 1 = (1..n) \cup {n + 1} /\ n + 1 \in (1..n + 1) \ (1..n)
  OBVIOUS
<1>3. SumOver(f, 1..n) \in Int
  BY <1>1, SumOverRemove
<1>4. SumOver(h, 1..n) = SumOver(f, 1..n)
  BY <1>1, SumOverSame
<1>5. SumOver(h, (1..n) \cup {n + 1}) = h[n + 1] + SumOver(h, 1..n)
  BY <1>1, <1>2, SumOverAdd
<1>6. h[n + 1] \in Int
  BY <1>2
<1>7. \A a, b \in Int : a + b = b + a
  OBVIOUS
<1>8. SumOver(h, 1..n + 1) = h[n + 1] + SumOver(f, 1..n)
  BY <1>2, <1>4, <1>5
<1> QED BY <1>3, <1>6, <1>7, <1>8

\* One more fill is one more term of each.
LEMMA FillsAdd ==
  ASSUME NEW fills \in Seq(FillRow), NEW f \in FillRow
  PROVE  /\ Append(fills, f) \in Seq(FillRow)
         /\ Bought(fills) \in Int /\ Spent(fills) \in Int
         /\ Bought(Append(fills, f)) = Bought(fills) + f.signed
         /\ Spent(Append(fills, f)) = Spent(fills) + (f.signed * f.price + f.fee)
<1> DEFINE n == Len(fills)
           more == Append(fills, f)
<1>1. /\ n \in Nat /\ DOMAIN fills = 1..n /\ more \in Seq(FillRow) /\ DOMAIN more = 1..n + 1
      /\ more[n + 1] = f /\ \A i \in 1..n : more[i] = fills[i] /\ fills[i] \in FillRow
  OBVIOUS
<1> HIDE DEF n, more
<1>2. ASSUME NEW g \in FillRow
      PROVE  g.signed \in Int /\ g.signed * g.price + g.fee \in Int
  BY DEF FillRow
<1>3. /\ QtyOf(fills) \in [1..n -> Int] /\ QtyOf(more) \in [1..n + 1 -> Int]
      /\ CostOf(fills) \in [1..n -> Int] /\ CostOf(more) \in [1..n + 1 -> Int]
  <2>1. \A i \in 1..n + 1 : more[i] \in FillRow
    BY <1>1
  <2> QED BY <1>1, <1>2, <2>1 DEF QtyOf, CostOf
<1>4. /\ QtyOf(more)[n + 1] = f.signed /\ CostOf(more)[n + 1] = f.signed * f.price + f.fee
      /\ \A i \in 1..n : QtyOf(more)[i] = QtyOf(fills)[i] /\ CostOf(more)[i] = CostOf(fills)[i]
  <2>1. n + 1 \in 1..n + 1 /\ \A i \in 1..n : i \in 1..n + 1
    BY <1>1
  <2> QED BY <1>1, <2>1 DEF QtyOf, CostOf
<1>5. /\ Bought(fills) = SumOver(QtyOf(fills), 1..n)
      /\ Bought(more) = SumOver(QtyOf(more), 1..n + 1)
      /\ Spent(fills) = SumOver(CostOf(fills), 1..n)
      /\ Spent(more) = SumOver(CostOf(more), 1..n + 1)
  BY <1>1, BoughtIsSum, SpentIsSum
<1>6. /\ SumOver(QtyOf(fills), 1..n) \in Int
      /\ SumOver(QtyOf(more), 1..n + 1) = SumOver(QtyOf(fills), 1..n) + QtyOf(more)[n + 1]
  BY <1>1, <1>3, <1>4, SumOfOneMore
<1>7. /\ SumOver(CostOf(fills), 1..n) \in Int
      /\ SumOver(CostOf(more), 1..n + 1) = SumOver(CostOf(fills), 1..n) + CostOf(more)[n + 1]
  BY <1>1, <1>3, <1>4, SumOfOneMore
<1> QED BY <1>1, <1>4, <1>5, <1>6, <1>7 DEF more

\* No fills, no sums.
LEMMA NoFills == Bought(<<>>) = 0 /\ Spent(<<>>) = 0
<1>1. <<>> \in Seq(FillRow) /\ DOMAIN <<>> = {}
  OBVIOUS
<1> QED BY <1>1, BoughtIsSum, SpentIsSum, SumOverEmpty

-----------------------------------------------------------------------------
(* One fill. *)

\* The book after fill f.
Booked(rt, f) == [rt EXCEPT !.pf = ApplyFill(@, f.signed, f.price, f.fee),
                            !.fills = Append(@, f)]

\* A fill on a bar of G keeps the book the sum of its fills.
LEMMA FillIs ==
  ASSUME NEW G \in SUBSET Nat, NEW t \in Nat, NEW rt, Sound(rt, G, t),
         NEW f \in FillRow, OnTime(f, G)
  PROVE  /\ Sound(Booked(rt, f), G, t)
         /\ Booked(rt, f).pf.killed = rt.pf.killed
         /\ Booked(rt, f).pf.net = rt.pf.net + f.signed
         /\ Booked(rt, f).curve = rt.curve
<1> DEFINE signed == f.signed
           price == f.price
           fee == f.fee
           pf == ApplyFill(rt.pf, signed, price, fee)
           fills == Append(rt.fills, f)
           new == Booked(rt, f)
<1>1. signed \in Int \ {0} /\ price \in Int /\ fee \in Int
  BY DEF FillRow
<1>2. new = [rt EXCEPT !.pf = pf, !.fills = fills]
  BY DEF Booked
<1>6. /\ Bought(fills) = Bought(rt.fills) + signed
      /\ Spent(fills) = Spent(rt.fills) + (signed * price + fee)
  BY FillsAdd DEF Sound, Runtimes
<1> HIDE DEF signed, price, fee, new
<1>3. rt \in Runtimes /\ WellKept(rt.pf) /\ rt.fills \in Seq(FillRow)
  BY DEF Sound, Balanced, Runtimes
<1>4. /\ WellKept(pf) /\ pf.net = rt.pf.net + signed
      /\ Settled(pf) = Settled(rt.pf) - signed * price - fee
  <2> DEFINE q == rt.pf
  <2>1. WellKept(q)
    BY <1>3
  <2> HIDE DEF q
  <2>2. /\ WellKept(ApplyFill(q, signed, price, fee))
        /\ ApplyFill(q, signed, price, fee).net = q.net + signed
        /\ Settled(ApplyFill(q, signed, price, fee)) = Settled(q) - signed * price - fee
    BY <1>1, <2>1, FillAccounting
  <2> QED BY <2>2 DEF q
<1>5. pf.killed = rt.pf.killed
  BY DEF ApplyFill
<1>7. /\ fills \in Seq(FillRow) /\ Bought(rt.fills) \in Int /\ Spent(rt.fills) \in Int
  BY <1>3, FillsAdd
<1>8. \A i \in DOMAIN fills : OnTime(fills[i], G)
  <2>1. \A i \in DOMAIN fills : (i \in DOMAIN rt.fills /\ fills[i] = rt.fills[i]) \/ fills[i] = f
    BY <1>3
  <2> QED BY <2>1 DEF Sound
<1> HIDE DEF pf, fills
<1>9. /\ new.pf = pf /\ new.fills = fills /\ new.orders = rt.orders /\ new.curve = rt.curve
      /\ new \in Runtimes
  BY <1>3, <1>2, <1>4, <1>7 DEF Runtimes, WellKept
<1>10. Settled(pf) = StartingEquity - Spent(fills)
  <2>1. Settled(rt.pf) = StartingEquity - Spent(rt.fills)
    BY DEF Sound, Balanced
  <2>2. StartingEquity \in Int /\ signed * price \in Int
    BY <1>1, StartingEquityAssumption
  <2>3. \A e, s, c, g \in Int : (e - s) - c - g = e - (s + (c + g))
    OBVIOUS
  <2> QED BY <1>1, <1>4, <1>7, <1>6, <2>1, <2>2, <2>3
<1>11. pf.net = Bought(fills)
  BY <1>4, <1>6 DEF Sound, Balanced
<1>12. Balanced(new)
  BY <1>4, <1>9, <1>10, <1>11 DEF Balanced
<1>13. Sound(new, G, t)
  BY <1>8, <1>9, <1>12 DEF Sound
<1> QED BY <1>4, <1>5, <1>9, <1>13 DEF new, signed

-----------------------------------------------------------------------------
(* Orders. *)

\* A trailing stop keeps all but its level.
LEMMA TrailedIs ==
  ASSUME NEW o \in OrderRow, NEW close \in Int
  PROVE  /\ Trailed(o, close) \in OrderRow
         /\ Trailed(o, close).type = o.type /\ Trailed(o, close).side = o.side
         /\ Trailed(o, close).qty = o.qty
<1> DEFINE level == close + o.side * o.offset
<1>1. level \in Int
  BY DEF OrderRow
<1> HIDE DEF level
<1>2. [o EXCEPT !.level = level] \in OrderRow
  BY <1>1 DEF OrderRow
<1>3. /\ [o EXCEPT !.level = level].type = o.type
      /\ [o EXCEPT !.level = level].side = o.side
      /\ [o EXCEPT !.level = level].qty = o.qty
  BY DEF OrderRow
<1>4. Trailed(o, close) = [o EXCEPT !.level = level] \/ Trailed(o, close) = o
  BY DEF Trailed, level
<1> QED BY <1>2, <1>3, <1>4

\* Order r rests on.
Rested(rt, r) == [rt EXCEPT !.orders = Append(@, r)]

\* An order that rests changes neither book nor fills.
LEMMA RestsIs ==
  ASSUME NEW G \in SUBSET Nat, NEW t \in Nat, NEW rt, Sound(rt, G, t),
         NEW r \in Resting, r.at <= t
  PROVE  /\ Sound(Rested(rt, r), G, t)
         /\ Rested(rt, r).pf = rt.pf /\ Rested(rt, r).curve = rt.curve
<1> DEFINE orders == Append(rt.orders, r)
           new == Rested(rt, r)
<1>1. rt \in Runtimes /\ rt.orders \in Seq(Resting)
  BY DEF Sound, Runtimes
<1>2. orders \in Seq(Resting) /\ \A i \in DOMAIN orders : orders[i].at <= t
  <2>1. orders \in Seq(Resting)
        /\ \A i \in DOMAIN orders : (i \in DOMAIN rt.orders /\ orders[i] = rt.orders[i])
                                     \/ orders[i] = r
    BY <1>1
  <2> HIDE DEF orders
  <2> QED BY <2>1 DEF Sound
<1>3. new = [rt EXCEPT !.orders = orders]
  BY DEF Rested
<1> HIDE DEF orders, new
<1>4. /\ new \in Runtimes /\ new.pf = rt.pf /\ new.fills = rt.fills /\ new.curve = rt.curve
      /\ new.orders = orders
  BY <1>1, <1>2, <1>3 DEF Runtimes
<1>5. Sound(new, G, t)
  BY <1>2, <1>4 DEF Sound, Balanced
<1> QED BY <1>4, <1>5 DEF new

\* A bar and the next one, both of the bars G; t is the time of the first.
Moment(bar, next, G, t) ==
  /\ G \in SUBSET Nat /\ bar \in BarRow /\ next \in BarRow
  /\ bar.ts = t /\ t \in G /\ next.ts \in G /\ t < next.ts

\* An order is filled on its bar or on the next one, or rests on.
LEMMA ProcessIs ==
  ASSUME NEW G, NEW t, NEW rt, NEW bar, NEW next, Moment(bar, next, G, t), Sound(rt, G, t),
         NEW r \in Resting, r.at <= t
  PROVE  /\ Sound(Process(rt, r, bar, next), G, t)
         /\ Process(rt, r, bar, next).pf.killed = rt.pf.killed
         /\ Process(rt, r, bar, next).curve = rt.curve
<1> DEFINE f == Process(rt, r, bar, next)
           o == IF r.order.type = "trailing_stop" THEN Trailed(r.order, bar.close) ELSE r.order
           signed == o.side * o.qty
<1>0. /\ G \in SUBSET Nat /\ bar \in BarRow /\ next \in BarRow
      /\ bar.ts = t /\ t \in G /\ next.ts \in G /\ t < next.ts
  BY DEF Moment
<1>1. o \in OrderRow /\ r.at \in Nat
  BY <1>0, TrailedIs DEF Resting, BarRow
<1> HIDE DEF o
<1>2. signed \in Int \ {0} /\ o.side \in {1, -1} /\ o.level \in Int
  BY <1>1 DEF OrderRow
<1>3. /\ t \in Nat /\ next.ts \in Nat
      /\ bar.open \in Int /\ next.open \in Int
      /\ {TakerFee, MakerFee, Slip} \subseteq Nat
  BY <1>0, EngineAssumption DEF BarRow
<1>4. /\ MarketPrice(next, o.side) \in Int
      /\ StopPrice(o, bar) \in Int
  BY <1>2, <1>3 DEF MarketPrice, StopPrice
<1>9. G \in SUBSET Nat /\ t \in Nat
  BY <1>0, <1>3
<1> HIDE DEF signed
<1>5. CASE o.type = "market"
  <2> DEFINE e == [type |-> "market", at |-> r.at, signed |-> signed,
                   price |-> MarketPrice(next, o.side), fee |-> TakerFee * Size(signed),
                   ts |-> next.ts]
  <2>1. f = Booked(rt, e)
    BY <1>5 DEF Process, Filled, Booked, o, signed
  <2>2. e \in FillRow
    <3>1. TakerFee * Size(signed) \in Int
      BY <1>2, <1>3 DEF Size
    <3> QED BY <1>0, <1>1, <1>2, <1>3, <1>4, <3>1 DEF FillRow
  <2>3. OnTime(e, G)
    BY <1>0, <1>1, <1>3 DEF OnTime
  <2> HIDE DEF e
  <2>4. /\ Sound(Booked(rt, e), G, t) /\ Booked(rt, e).pf.killed = rt.pf.killed
        /\ Booked(rt, e).curve = rt.curve
    BY <1>9, <2>2, <2>3, FillIs
  <2> QED BY <2>1, <2>4
<1>6. CASE o.type = "limit" /\ LimitHit(o, bar)
  <2> DEFINE e == [type |-> "limit", at |-> r.at, signed |-> signed, price |-> o.level,
                   fee |-> MakerFee * Size(signed), ts |-> bar.ts]
  <2>1. f = Booked(rt, e)
    BY <1>6 DEF Process, Filled, Booked, o, signed
  <2>2. e \in FillRow
    <3>1. MakerFee * Size(signed) \in Int
      BY <1>2, <1>3 DEF Size
    <3> QED BY <1>0, <1>1, <1>2, <1>3, <1>4, <3>1 DEF FillRow
  <2>3. OnTime(e, G)
    BY <1>0, <1>1, <1>3 DEF OnTime
  <2> HIDE DEF e
  <2>4. /\ Sound(Booked(rt, e), G, t) /\ Booked(rt, e).pf.killed = rt.pf.killed
        /\ Booked(rt, e).curve = rt.curve
    BY <1>9, <2>2, <2>3, FillIs
  <2> QED BY <2>1, <2>4
<1>7. CASE o.type = "trailing_stop" /\ StopReached(o, bar)
  <2> DEFINE e == [type |-> "trailing_stop", at |-> r.at, signed |-> signed,
                   price |-> StopPrice(o, bar), fee |-> TakerFee * Size(signed), ts |-> bar.ts]
  <2>1. f = Booked(rt, e)
    BY <1>7 DEF Process, Filled, Booked, o, signed
  <2>2. e \in FillRow
    <3>1. TakerFee * Size(signed) \in Int
      BY <1>2, <1>3 DEF Size
    <3> QED BY <1>0, <1>1, <1>2, <1>3, <1>4, <3>1 DEF FillRow
  <2>3. OnTime(e, G)
    BY <1>0, <1>1, <1>3 DEF OnTime
  <2> HIDE DEF e
  <2>4. /\ Sound(Booked(rt, e), G, t) /\ Booked(rt, e).pf.killed = rt.pf.killed
        /\ Booked(rt, e).curve = rt.curve
    BY <1>9, <2>2, <2>3, FillIs
  <2> QED BY <2>1, <2>4
<1>8. CASE /\ o.type # "market" /\ ~ (o.type = "limit" /\ LimitHit(o, bar))
           /\ ~ (o.type = "trailing_stop" /\ StopReached(o, bar))
  <2> DEFINE kept == [order |-> o, at |-> r.at]
  <2>1. kept \in Resting /\ kept.at = r.at
    BY <1>1 DEF Resting
  <2>2. f = Rested(rt, kept)
    BY <1>8 DEF Process, Rested, o
  <2> HIDE DEF kept
  <2>3. /\ Sound(Rested(rt, kept), G, t) /\ Rested(rt, kept).pf = rt.pf
        /\ Rested(rt, kept).curve = rt.curve
    BY <1>9, <2>1, RestsIs
  <2> QED BY <2>2, <2>3
<1> QED BY <1>5, <1>6, <1>7, <1>8

-----------------------------------------------------------------------------
AllProcessed(rt, bar, next, orders) ==
  FoldLeft(LAMBDA acc, r : Process(acc, r, bar, next), rt, orders)

\* What the fold makes of each set of them.
Pending(g, rt, bar, next, orders) ==
  g = [s \in SUBSET (DOMAIN orders) |->
         IF s = {} THEN rt
         ELSE Process(g[s \ {Max(s)}], orders[Max(s)], bar, next)]

\* All orders rest or are filled on a bar that is not the last one.
LEMMA PendingIs ==
  ASSUME NEW G, NEW t, NEW rt, NEW bar, NEW next, Moment(bar, next, G, t), Sound(rt, G, t),
         NEW orders \in Seq(Resting), \A i \in DOMAIN orders : orders[i].at <= t,
         NEW new, new = AllProcessed(rt, bar, next, orders)
  PROVE  Sound(new, G, t) /\ new.pf.killed = rt.pf.killed /\ new.curve = rt.curve
<1> DEFINE n == Len(orders)
           A == {x \in Runtimes : /\ Sound(x, G, t) /\ x.pf.killed = rt.pf.killed
                                  /\ x.curve = rt.curve}
           step == [p \in A \X (1..n) |-> Process(p[1], orders[p[2]], bar, next)]
           h == CHOOSE h : Pending(h, rt, bar, next, orders)
<1>1. n \in Nat /\ DOMAIN orders = 1..n /\ rt \in A /\ \A i \in 1..n : orders[i] \in Resting
  BY DEF Sound
<1>2. \A acc \in A, i \in 1..n : Process(acc, orders[i], bar, next) \in A
  <2> SUFFICES ASSUME NEW acc \in A, NEW i \in 1..n
               PROVE  Process(acc, orders[i], bar, next) \in A
    OBVIOUS
  <2>1. Sound(acc, G, t) /\ acc.pf.killed = rt.pf.killed /\ acc.curve = rt.curve
    OBVIOUS
  <2>2. orders[i] \in Resting /\ orders[i].at <= t
    BY <1>1
  <2> DEFINE f == Process(acc, orders[i], bar, next)
  <2>3. Sound(f, G, t) /\ f.pf.killed = rt.pf.killed /\ f.curve = rt.curve
    BY <2>1, <2>2, ProcessIs
  <2> HIDE DEF f
  <2>4. f \in A
    BY <2>3 DEF Sound
  <2> QED BY <2>4 DEF f
<1> HIDE DEF n, A
<1>3. step \in [A \X (1..n) -> A]
  BY <1>2
<1>4. \A acc \in A, i \in 1..n : step[<<acc, i>>] = Process(acc, orders[i], bar, next)
  OBVIOUS
<1> HIDE DEF step
<1>5. PICK g \in [SUBSET (1..n) -> A] : Folds(g, n, rt, step)
  BY <1>1, <1>3, FoldExists
<1>6. ASSUME NEW s \in SUBSET (1..n), s # {}
      PROVE  Max(s) \in 1..n /\ g[s \ {Max(s)}] \in A
  <2>1. s \in SUBSET (0..n)
    BY <1>1
  <2>2. Max(s) \in s
    BY <1>1, <1>6, <2>1, MaxIs
  <2> QED BY <2>2
<1>7. ASSUME NEW s \in SUBSET (1..n)
      PROVE  g[s] = IF s = {} THEN rt
                    ELSE Process(g[s \ {Max(s)}], orders[Max(s)], bar, next)
  BY <1>4, <1>5, <1>6 DEF Folds
<1>8. Pending(h, rt, bar, next, orders)
  <2>1. g = [s \in SUBSET (1..n) |-> g[s]]
    OBVIOUS
  <2>2. Pending(g, rt, bar, next, orders)
    BY <1>1, <1>7, <2>1 DEF Pending
  <2> QED BY <2>2
<1>9. new = h[1..n]
  BY <1>1 DEF AllProcessed, FoldLeft, MapThenFoldSet, Pending
<1> HIDE DEF h
<1>10. h[1..0] \in A
  <2>1. 1..0 = {} /\ {} \in SUBSET (1..n)
    OBVIOUS
  <2> QED BY <1>1, <1>8, <2>1 DEF Pending
<1>11. ASSUME NEW k \in 1..n, h[1..(k - 1)] \in A PROVE h[1..k] \in A
  <2>1. k \in Nat \ {0} /\ 1..k \in SUBSET (1..n) /\ 1..k # {}
    <3>1. k \in Nat \ {0} /\ k \in 1..k /\ \A i \in 1..k : i \in 1..n
      BY <1>1
    <3> QED BY <3>1
  <2>2. Max(1..k) = k /\ (1..k) \ {k} = 1..(k - 1)
    BY <2>1, LastIs
  <2>3. h[1..k] = Process(h[1..(k - 1)], orders[k], bar, next)
    BY <1>1, <1>8, <2>1, <2>2 DEF Pending
  <2> QED BY <1>2, <1>11, <2>3
<1>12. h[1..n] \in A
  BY <1>1, <1>10, <1>11, FoldStays
<1> QED BY <1>9, <1>12 DEF A

-----------------------------------------------------------------------------
(* Decisions. *)

\* Steps that leave the book and the fills alone.
LEMMA SoundStays ==
  ASSUME NEW G, NEW t, NEW u, NEW rt, Sound(rt, G, t), NEW new \in Runtimes,
         new.pf = rt.pf, new.fills = rt.fills,
         \A i \in DOMAIN new.orders : new.orders[i].at <= u
  PROVE  Sound(new, G, u)
BY DEF Sound, Balanced

\* What the strategies place.
LEMMA FollowIs ==
  ASSUME NEW side \in {1, -1}, NEW net \in Int
  PROVE  Follow(side, net) \in Seq(OrderRow)
<1>1. OrderQty \in Nat \ {0} /\ TrailOffset \in Nat
  BY EngineAssumption
<1>2. ASSUME net * side < 0
      PROVE  Market(side, Size(net)) \in OrderRow
  BY <1>2 DEF Market, OrderRow, NoLevel, Size
<1>3. /\ Market(side, OrderQty) \in OrderRow
      /\ TrailingStop(-side, OrderQty, TrailOffset) \in OrderRow
  <2>1. -side \in {1, -1}
    OBVIOUS
  <2> QED BY <1>1, <2>1 DEF Market, TrailingStop, OrderRow, NoLevel
<1>4. (IF net * side < 0 THEN <<Market(side, Size(net))>> ELSE <<>>) \in Seq(OrderRow)
  BY <1>2
<1>5. (IF net * side <= 0
       THEN <<Market(side, OrderQty), TrailingStop(-side, OrderQty, TrailOffset)>>
       ELSE <<>>) \in Seq(OrderRow)
  BY <1>3
<1>6. \A s, q \in Seq(OrderRow) : s \o q \in Seq(OrderRow)
  OBVIOUS
<1> QED BY <1>4, <1>5, <1>6 DEF Follow

\* A decision places orders and remembers a signal.
LEMMA DecideIs ==
  ASSUME NEW rt \in Runtimes, NEW bar \in BarRow
  PROVE  /\ Decide(rt, bar).place \in Seq(OrderRow)
         /\ Decide(rt, bar).signal \in Signals
<1>1. rt.pf.net \in Int /\ rt.signal \in Signals /\ bar.close \in Int
  BY DEF Runtimes, Book, BarRow
<1>2. CASE rt.strategy = "trend_ema_cross"
  <2>1. Decide(rt, bar) = TrendEmaCross(rt, bar)
    BY <1>2 DEF Decide
  <2>2. Follow(1, rt.pf.net) \in Seq(OrderRow) /\ Follow(-1, rt.pf.net) \in Seq(OrderRow)
    BY <1>1, FollowIs
  <2> QED BY <1>1, <2>1, <2>2 DEF TrendEmaCross, Signals
<1>3. CASE rt.strategy # "trend_ema_cross"
  <2>1. Decide(rt, bar) = PureMarketMaker(rt, bar)
    BY <1>3 DEF Decide
  <2>2. OrderQty \in Nat \ {0} /\ Spread \in Nat
    BY EngineAssumption
  <2>3. /\ Limit(1, OrderQty, bar.close - Spread) \in OrderRow
        /\ Limit(-1, OrderQty, bar.close + Spread) \in OrderRow
    BY <1>1, <2>2 DEF Limit, OrderRow
  <2>4. (IF rt.pf.net < MaxInventory
         THEN <<Limit(1, OrderQty, bar.close - Spread)>> ELSE <<>>) \in Seq(OrderRow)
    BY <2>3
  <2>5. (IF rt.pf.net > -MaxInventory
         THEN <<Limit(-1, OrderQty, bar.close + Spread)>> ELSE <<>>) \in Seq(OrderRow)
    BY <2>3
  <2>6. \A s, q \in Seq(OrderRow) : s \o q \in Seq(OrderRow)
    OBVIOUS
  <2>7. PureMarketMaker(rt, bar).place \in Seq(OrderRow)
    BY <2>4, <2>5, <2>6 DEF PureMarketMaker
  <2>8. PureMarketMaker(rt, bar).signal = rt.signal
    BY DEF PureMarketMaker
  <2> QED BY <1>1, <2>1, <2>7, <2>8
<1> QED BY <1>2, <1>3

\* An order is taken in or dropped.
LEMMA IntakeIs ==
  ASSUME NEW G \in SUBSET Nat, NEW t \in Nat, NEW rt, Sound(rt, G, t),
         NEW bar \in BarRow, bar.ts = t, NEW o \in OrderRow
  PROVE  /\ Sound(Intake(rt, o, bar), G, t)
         /\ Intake(rt, o, bar).pf = rt.pf /\ Intake(rt, o, bar).curve = rt.curve
<1> DEFINE r == [order |-> o, at |-> bar.ts]
<1>1. r \in Resting /\ r.at <= t
  BY DEF Resting
<1>2. Intake(rt, o, bar) = Rested(rt, r) \/ Intake(rt, o, bar) = rt
  BY DEF Intake, Rested
<1> HIDE DEF r
<1>3. Sound(Rested(rt, r), G, t) /\ Rested(rt, r).pf = rt.pf /\ Rested(rt, r).curve = rt.curve
  BY <1>1, RestsIs
<1> QED BY <1>2, <1>3

AllTaken(rt, bar, orders) == FoldLeft(LAMBDA acc, o : Intake(acc, o, bar), rt, orders)

\* What the fold makes of each set of them.
Taking(g, rt, bar, orders) ==
  g = [s \in SUBSET (DOMAIN orders) |->
         IF s = {} THEN rt ELSE Intake(g[s \ {Max(s)}], orders[Max(s)], bar)]

\* So are all that a decision places.
LEMMA TakingIs ==
  ASSUME NEW G \in SUBSET Nat, NEW t \in Nat, NEW rt, Sound(rt, G, t),
         NEW bar \in BarRow, bar.ts = t, NEW orders \in Seq(OrderRow)
  PROVE  /\ Sound(AllTaken(rt, bar, orders), G, t)
         /\ AllTaken(rt, bar, orders).pf = rt.pf /\ AllTaken(rt, bar, orders).curve = rt.curve
<1> DEFINE new == AllTaken(rt, bar, orders)
           n == Len(orders)
           A == {x \in Runtimes : Sound(x, G, t) /\ x.pf = rt.pf /\ x.curve = rt.curve}
           step == [p \in A \X (1..n) |-> Intake(p[1], orders[p[2]], bar)]
           h == CHOOSE h : Taking(h, rt, bar, orders)
<1>1. n \in Nat /\ DOMAIN orders = 1..n /\ rt \in A /\ \A i \in 1..n : orders[i] \in OrderRow
  BY DEF Sound
<1>2. \A acc \in A, i \in 1..n : Intake(acc, orders[i], bar) \in A
  <2> SUFFICES ASSUME NEW acc \in A, NEW i \in 1..n
               PROVE  Intake(acc, orders[i], bar) \in A
    OBVIOUS
  <2>1. Sound(acc, G, t) /\ acc.pf = rt.pf /\ acc.curve = rt.curve
    OBVIOUS
  <2>2. orders[i] \in OrderRow
    BY <1>1
  <2> DEFINE f == Intake(acc, orders[i], bar)
  <2>3. Sound(f, G, t) /\ f.pf = acc.pf /\ f.curve = acc.curve
    BY <2>1, <2>2, IntakeIs
  <2> HIDE DEF f
  <2>4. f \in A
    BY <2>1, <2>3 DEF Sound
  <2> QED BY <2>4 DEF f
<1> HIDE DEF n, A
<1>3. step \in [A \X (1..n) -> A]
  BY <1>2
<1>4. \A acc \in A, i \in 1..n : step[<<acc, i>>] = Intake(acc, orders[i], bar)
  OBVIOUS
<1> HIDE DEF step
<1>5. PICK g \in [SUBSET (1..n) -> A] : Folds(g, n, rt, step)
  BY <1>1, <1>3, FoldExists
<1>6. ASSUME NEW s \in SUBSET (1..n), s # {}
      PROVE  Max(s) \in 1..n /\ g[s \ {Max(s)}] \in A
  <2>1. s \in SUBSET (0..n)
    BY <1>1
  <2>2. Max(s) \in s
    BY <1>1, <1>6, <2>1, MaxIs
  <2> QED BY <2>2
<1>7. ASSUME NEW s \in SUBSET (1..n)
      PROVE  g[s] = IF s = {} THEN rt ELSE Intake(g[s \ {Max(s)}], orders[Max(s)], bar)
  BY <1>4, <1>5, <1>6 DEF Folds
<1>8. Taking(h, rt, bar, orders)
  <2>1. g = [s \in SUBSET (1..n) |-> g[s]]
    OBVIOUS
  <2>2. Taking(g, rt, bar, orders)
    BY <1>1, <1>7, <2>1 DEF Taking
  <2> QED BY <2>2
<1>9. new = h[1..n]
  BY <1>1 DEF AllTaken, FoldLeft, MapThenFoldSet, Taking
<1> HIDE DEF h, new
<1>10. h[1..0] \in A
  <2>1. 1..0 = {} /\ {} \in SUBSET (1..n)
    OBVIOUS
  <2> QED BY <1>1, <1>8, <2>1 DEF Taking
<1>11. ASSUME NEW k \in 1..n, h[1..(k - 1)] \in A PROVE h[1..k] \in A
  <2>1. k \in Nat \ {0} /\ 1..k \in SUBSET (1..n) /\ 1..k # {}
    <3>1. k \in Nat \ {0} /\ k \in 1..k /\ \A i \in 1..k : i \in 1..n
      BY <1>1
    <3> QED BY <3>1
  <2>2. Max(1..k) = k /\ (1..k) \ {k} = 1..(k - 1)
    BY <2>1, LastIs
  <2>3. h[1..k] = Intake(h[1..(k - 1)], orders[k], bar)
    BY <1>1, <1>8, <2>1, <2>2 DEF Taking
  <2> QED BY <1>2, <1>11, <2>3
<1>12. h[1..n] \in A
  BY <1>1, <1>10, <1>11, FoldStays
<1>13. Sound(new, G, t) /\ new.pf = rt.pf /\ new.curve = rt.curve
  BY <1>9, <1>12 DEF A
<1> QED BY <1>13 DEF new

\* A decision leaves the book alone.
LEMMA DecidedIs ==
  ASSUME NEW G \in SUBSET Nat, NEW t \in Nat, NEW u \in Nat, u <= t, NEW rt, Sound(rt, G, u),
         NEW bar \in BarRow, bar.ts = t
  PROVE  /\ Sound(Decided(rt, bar), G, t)
         /\ Decided(rt, bar).pf = rt.pf /\ Decided(rt, bar).curve = rt.curve
<1> DEFINE d == Decide(rt, bar)
           orders == IF d.cancelAll THEN <<>> ELSE rt.orders
           from == [rt EXCEPT !.signal = d.signal, !.orders = orders]
<1>1. d.place \in Seq(OrderRow) /\ d.signal \in Signals
  BY DecideIs DEF Sound
<1>2. Decided(rt, bar) = AllTaken(from, bar, d.place)
  BY DEF Decided, AllTaken
<1> HIDE DEF d
<1>3. rt \in Runtimes /\ rt.orders \in Seq(Resting)
  BY DEF Sound, Runtimes
<1>4. orders \in Seq(Resting) /\ \A i \in DOMAIN orders : orders[i].at <= t
  <2>1. \A i \in DOMAIN rt.orders : rt.orders[i].at <= u /\ rt.orders[i].at \in Nat
    <3>1. \A r \in Resting : r.at \in Nat
      BY DEF Resting
    <3>2. \A i \in DOMAIN rt.orders : rt.orders[i] \in Resting
      BY <1>3
    <3>3. \A i \in DOMAIN rt.orders : rt.orders[i].at <= u
      BY DEF Sound
    <3> QED BY <3>1, <3>2, <3>3
  <2>2. \A i \in DOMAIN rt.orders : rt.orders[i].at <= t
    BY <2>1
  <2> QED BY <1>3, <2>2
<1> HIDE DEF orders
<1>5. /\ from \in Runtimes /\ from.pf = rt.pf /\ from.fills = rt.fills /\ from.curve = rt.curve
      /\ from.orders = orders
  BY <1>1, <1>3, <1>4 DEF Runtimes
<1> HIDE DEF from
<1>6. Sound(from, G, t)
  BY <1>4, <1>5, SoundStays
<1>7. /\ Sound(AllTaken(from, bar, d.place), G, t)
      /\ AllTaken(from, bar, d.place).pf = from.pf
      /\ AllTaken(from, bar, d.place).curve = from.curve
  BY <1>1, <1>6, TakingIs
<1> QED BY <1>2, <1>5, <1>7

-----------------------------------------------------------------------------
(* One bar. *)

\* The marks of a bar move neither the position nor what is settled, and kill for good.
LEMMA UpdatedIs ==
  ASSUME NEW pf, WellKept(pf), NEW day \in Int, NEW mark \in Int
  PROVE  LET new == UpdateEquityMarks(pf, day, mark)
         IN  /\ WellKept(new) /\ new.net = pf.net /\ Settled(new) = Settled(pf)
             /\ (pf.killed => new.killed)
<1> DEFINE today == RolledOver(pf, day)
           eq == Equity(today, mark)
           hwm == IF eq > today.hwm THEN eq ELSE today.hwm
           killed == \/ today.killed
                     \/ LossAbove(today.dayStart, eq, MaxDailyLossPct)
                     \/ LossAbove(hwm, eq, MaxDrawdownPct)
           new == UpdateEquityMarks(pf, day, mark)
<1>1. pf \in Book /\ (pf.net = 0 => pf.cost = 0)
  BY DEF WellKept
<1>2. /\ today \in Book /\ today.cash = pf.cash /\ today.net = pf.net /\ today.cost = pf.cost
      /\ today.killed = pf.killed
  BY <1>1 DEF RolledOver, Book
<1>3. new = [today EXCEPT !.hwm = hwm, !.killed = killed]
  BY DEF UpdateEquityMarks
<1> HIDE DEF today
<1>4. eq \in Int
  BY <1>2 DEF Equity, Unrealized, Book
<1> HIDE DEF eq
<1>5. hwm \in Int
  BY <1>2, <1>4 DEF Book
<1> HIDE DEF hwm
<1>6. killed \in BOOLEAN /\ (today.killed => killed)
  BY <1>2 DEF Book
<1> HIDE DEF killed, new
<1>7. /\ new \in Book /\ new.cash = today.cash /\ new.net = today.net /\ new.cost = today.cost
      /\ new.killed = killed
  BY <1>2, <1>3, <1>5, <1>6 DEF Book
<1>8. WellKept(new) /\ Settled(new) = Settled(pf)
  BY <1>1, <1>2, <1>7 DEF WellKept, Settled
<1> QED BY <1>2, <1>6, <1>7, <1>8 DEF new

\* A bar adds one point to the curve.
LEMMA MarkedIs ==
  ASSUME NEW G \in SUBSET Nat, NEW t \in Nat, NEW rt, Sound(rt, G, t),
         NEW bar \in BarRow
  PROVE  /\ Sound(Marked(rt, bar), G, t) /\ Marked(rt, bar).curve = rt.curve + 1
         /\ Marked(rt, bar).pf.net = rt.pf.net
         /\ rt.pf.killed => Marked(rt, bar).pf.killed
<1> DEFINE day == bar.ts \div BarsPerDay
           pf == UpdateEquityMarks(rt.pf, day, bar.close)
           new == Marked(rt, bar)
<1>1. day \in Int /\ bar.close \in Int
  <2>1. bar.ts \in Int /\ BarsPerDay \in Nat \ {0}
    BY EngineAssumption DEF BarRow
  <2>2. \A x \in Int, y \in Nat \ {0} : x \div y \in Int
    OBVIOUS
  <2> QED BY <2>1, <2>2 DEF BarRow
<1> HIDE DEF day
<1>2. rt \in Runtimes /\ WellKept(rt.pf) /\ rt.curve + 1 \in Nat
  BY DEF Sound, Balanced, Runtimes
<1>3. /\ WellKept(pf) /\ pf.net = rt.pf.net /\ Settled(pf) = Settled(rt.pf)
      /\ (rt.pf.killed => pf.killed)
  BY <1>1, <1>2, UpdatedIs
<1>4. new = [rt EXCEPT !.pf = pf, !.curve = rt.curve + 1]
  BY DEF Marked, day
<1> HIDE DEF pf, new
<1>5. /\ new \in Runtimes /\ new.pf = pf /\ new.fills = rt.fills /\ new.orders = rt.orders
      /\ new.curve = rt.curve + 1
  BY <1>2, <1>3, <1>4 DEF Runtimes, WellKept
<1>6. Sound(new, G, t)
  BY <1>3, <1>5 DEF Sound, Balanced
<1> QED BY <1>3, <1>5, <1>6 DEF new

-----------------------------------------------------------------------------
Ascending(bars) == \A i, j \in DOMAIN bars : i < j => bars[i].ts < bars[j].ts

\* Bars in their order, all of G.
Tape(bars, G) ==
  /\ G \in SUBSET Nat /\ bars \in Seq(BarRow) /\ Ascending(bars)
  /\ \A i \in DOMAIN bars : bars[i].ts \in G

\* A bar of a tape that is not the last one has a next one.
LEMMA MomentOf ==
  ASSUME NEW bars, NEW G, Tape(bars, G), NEW i \in DOMAIN bars
  PROVE  /\ bars[i] \in BarRow /\ bars[i].ts \in G /\ G \in SUBSET Nat
         /\ DOMAIN bars = 1..Len(bars) /\ Len(bars) \in Nat
         /\ ~IsLast(bars, i) =>
              i + 1 \in DOMAIN bars /\ Moment(bars[i], bars[i + 1], G, bars[i].ts)
<1>1. /\ bars \in Seq(BarRow) /\ G \in SUBSET Nat /\ bars[i].ts \in G
      /\ bars[i] \in BarRow /\ DOMAIN bars = 1..Len(bars) /\ Len(bars) \in Nat
  BY DEF Tape
<1>2. ASSUME ~IsLast(bars, i)
      PROVE  i + 1 \in DOMAIN bars /\ Moment(bars[i], bars[i + 1], G, bars[i].ts)
  <2>1. i + 1 \in DOMAIN bars
    BY <1>1, <1>2 DEF IsLast
  <2>2. bars[i + 1] \in BarRow /\ bars[i + 1].ts \in G
    BY <1>1, <2>1 DEF Tape
  <2>3. bars[i].ts < bars[i + 1].ts
    <3>1. i < i + 1
      BY <1>1
    <3> QED BY <2>1, <3>1 DEF Tape, Ascending
  <2> QED BY <1>1, <2>1, <2>2, <2>3 DEF Moment
<1> QED BY <1>1, <1>2

\* On the last bar nothing is processed, on any other one all orders are.
LEMMA ProcessPendingIs ==
  ASSUME NEW bars, NEW G, Tape(bars, G), NEW i \in DOMAIN bars, NEW rt,
         Sound(rt, G, bars[i].ts)
  PROVE  /\ Sound(ProcessPending(rt, bars, i), G, bars[i].ts)
         /\ ProcessPending(rt, bars, i).pf.killed = rt.pf.killed
         /\ ProcessPending(rt, bars, i).curve = rt.curve
         /\ IsLast(bars, i) => ProcessPending(rt, bars, i) = rt
<1>1. CASE IsLast(bars, i)
  BY <1>1 DEF ProcessPending
<1>2. CASE ~IsLast(bars, i)
  <2> DEFINE t == bars[i].ts
             from == [rt EXCEPT !.orders = <<>>]
             new == AllProcessed(from, bars[i], bars[i + 1], rt.orders)
  <2>1. rt \in Runtimes /\ rt.orders \in Seq(Resting)
    BY DEF Sound, Runtimes
  <2>2. /\ from \in Runtimes /\ from.pf = rt.pf /\ from.fills = rt.fills
        /\ from.curve = rt.curve /\ from.orders = <<>>
    <3>1. <<>> \in Seq(Resting)
      OBVIOUS
    <3>2. \A none \in Seq(Resting) : [rt EXCEPT !.orders = none] \in Runtimes
      BY <2>1 DEF Runtimes
    <3> QED BY <2>1, <3>1, <3>2 DEF Runtimes
  <2>3. ProcessPending(rt, bars, i) = new
    BY <1>2 DEF ProcessPending, AllProcessed
  <2> HIDE DEF from
  <2>4. Sound(from, G, t)
    <3>1. \A k \in DOMAIN from.orders : from.orders[k].at <= t
      BY <2>2
    <3> QED BY <2>2, <3>1, SoundStays
  <2>5. Moment(bars[i], bars[i + 1], G, t)
    BY <1>2, MomentOf
  <2>6. \A k \in DOMAIN rt.orders : rt.orders[k].at <= t
    BY DEF Sound
  <2> HIDE DEF t
  <2>7. Sound(new, G, t) /\ new.pf.killed = from.pf.killed /\ new.curve = from.curve
    BY <2>1, <2>4, <2>5, <2>6, PendingIs
  <2> QED BY <1>2, <2>2, <2>3, <2>7 DEF t
<1> QED BY <1>1, <1>2

\* A killed book is closed on the next bar, when there is one.
LEMMA LiquidatedIs ==
  ASSUME NEW bars, NEW G, Tape(bars, G), NEW i \in DOMAIN bars, NEW rt,
         Sound(rt, G, bars[i].ts)
  PROVE  /\ Sound(Liquidated(rt, bars, i), G, bars[i].ts)
         /\ Liquidated(rt, bars, i).pf.killed = rt.pf.killed
         /\ Liquidated(rt, bars, i).curve = rt.curve
         /\ ~IsLast(bars, i) \/ rt.pf.net = 0 => Liquidated(rt, bars, i).pf.net = 0
<1>1. CASE rt.pf.net = 0 \/ IsLast(bars, i)
  BY <1>1 DEF Liquidated
<1>2. CASE rt.pf.net # 0 /\ ~IsLast(bars, i)
  <2> DEFINE t == bars[i].ts
             side == IF rt.pf.net > 0 THEN -1 ELSE 1
             price == MarketPrice(bars[i + 1], side)
             fee == TakerFee * Size(-rt.pf.net)
             e == [type |-> "kill_liquidate", at |-> t, signed |-> -rt.pf.net,
                   price |-> price, fee |-> fee, ts |-> bars[i + 1].ts]
  <2>1. rt.pf.net \in Int \ {0}
    BY <1>2 DEF Sound, Balanced, WellKept, Book
  <2>2. Moment(bars[i], bars[i + 1], G, t)
    BY <1>2, MomentOf
  <2>3. Liquidated(rt, bars, i) = Booked(rt, e)
    BY <1>2 DEF Liquidated, Filled, Booked
  <2>4. fee \in Int
    <3>1. TakerFee \in Nat /\ Size(-rt.pf.net) \in Nat
      BY <2>1, EngineAssumption DEF Size
    <3> QED BY <3>1
  <2>5. price \in Int
    <3>1. Slip \in Nat /\ bars[i + 1].open \in Int /\ side \in Int
      BY <2>2, EngineAssumption DEF Moment, BarRow
    <3> QED BY <3>1 DEF MarketPrice
  <2> HIDE DEF fee, price
  <2>6. e \in FillRow /\ OnTime(e, G) /\ e.signed = -rt.pf.net
    BY <2>1, <2>2, <2>4, <2>5 DEF FillRow, OnTime, Moment, BarRow
  <2>7. G \in SUBSET Nat /\ t \in Nat
    BY <2>2 DEF Moment
  <2> HIDE DEF t, e
  <2>8. /\ Sound(Booked(rt, e), G, t) /\ Booked(rt, e).pf.killed = rt.pf.killed
        /\ Booked(rt, e).curve = rt.curve /\ Booked(rt, e).pf.net = rt.pf.net + e.signed
    <3>1. Sound(rt, G, t)
      BY DEF t
    <3> QED BY <2>6, <2>7, <3>1, FillIs
  <2>9. Booked(rt, e).pf.net = 0
    BY <2>1, <2>6, <2>8
  <2> QED BY <2>3, <2>8, <2>9 DEF t
<1> QED BY <1>1, <1>2

\* One bar: a book that is killed and flat stays so.
LEMMA OnBarIs ==
  ASSUME NEW bars, NEW G, Tape(bars, G), NEW i \in DOMAIN bars, NEW u \in Nat,
         u <= bars[i].ts, NEW rt, Sound(rt, G, u)
  PROVE  /\ Sound(OnBar(rt, bars, i), G, bars[i].ts)
         /\ OnBar(rt, bars, i).curve = rt.curve + 1
         /\ rt.pf.killed /\ rt.pf.net = 0 =>
              OnBar(rt, bars, i).pf.killed /\ OnBar(rt, bars, i).pf.net = 0
<1> DEFINE t == bars[i].ts
           decided == Decided(rt, bars[i])
           processed == ProcessPending(decided, bars, i)
           marked == Marked(processed, bars[i])
           new == OnBar(rt, bars, i)
<1>1. bars[i] \in BarRow /\ t \in Nat /\ G \in SUBSET Nat
  BY MomentOf
<1>2. Sound(decided, G, t) /\ decided.pf = rt.pf /\ decided.curve = rt.curve
  BY <1>1, DecidedIs
<1>3. new = IF marked.pf.killed THEN Liquidated(marked, bars, i) ELSE marked
  BY DEF OnBar
<1> HIDE DEF decided
<1>4. /\ Sound(processed, G, t) /\ processed.pf.killed = decided.pf.killed
      /\ processed.curve = decided.curve /\ (IsLast(bars, i) => processed = decided)
  BY <1>2, ProcessPendingIs
<1> HIDE DEF processed
<1>5. /\ Sound(marked, G, t) /\ marked.curve = processed.curve + 1
      /\ marked.pf.net = processed.pf.net /\ (processed.pf.killed => marked.pf.killed)
  BY <1>1, <1>4, MarkedIs
<1> HIDE DEF marked
<1>6. /\ Sound(Liquidated(marked, bars, i), G, t)
      /\ Liquidated(marked, bars, i).pf.killed = marked.pf.killed
      /\ Liquidated(marked, bars, i).curve = marked.curve
      /\ ~IsLast(bars, i) \/ marked.pf.net = 0 => Liquidated(marked, bars, i).pf.net = 0
  BY <1>5, LiquidatedIs
<1> HIDE DEF new
<1>7. Sound(new, G, t) /\ new.curve = rt.curve + 1
  BY <1>2, <1>3, <1>4, <1>5, <1>6
<1>8. ASSUME rt.pf.killed, rt.pf.net = 0
      PROVE  new.pf.killed /\ new.pf.net = 0
  BY <1>2, <1>3, <1>4, <1>5, <1>6, <1>8
<1> QED BY <1>7, <1>8 DEF new, t

-----------------------------------------------------------------------------
(* A batch of bars. *)

\* One bar of a batch, unless the batch ended.
Stepped(acc, bars, i) ==
  IF acc.halted THEN acc
  ELSE [rt |-> OnBar(acc.rt, bars, i), halted |-> OnBar(acc.rt, bars, i).pf.killed]

Begun(rt) == [rt |-> rt, halted |-> FALSE]

\* What the batch makes of each set of its bars.
Running(g, rt, bars) ==
  g = [s \in SUBSET (DOMAIN bars) |->
         IF s = {} THEN Begun(rt) ELSE Stepped(g[s \ {Max(s)}], bars, Max(s))]

\* Run is the last value of what the fold makes.
LEMMA RunIsFold ==
  ASSUME NEW rt, NEW bars, DOMAIN bars = 1..Len(bars), Len(bars) \in Nat,
         \E h : Running(h, rt, bars)
  PROVE  \E h : Running(h, rt, bars) /\ Run(rt, bars) = h[DOMAIN bars].rt
<1> DEFINE idx == [i \in DOMAIN bars |-> i]
           IsIter(h) == h = [s \in SUBSET (DOMAIN idx) |->
                               IF s = {} THEN Begun(rt)
                               ELSE Stepped(h[s \ {Max(s)}], bars, idx[Max(s)])]
           iter == CHOOSE h : IsIter(h)
<1>1. DOMAIN idx = DOMAIN bars
  OBVIOUS
<1>2. \A s \in SUBSET (DOMAIN bars) : s # {} => idx[Max(s)] = Max(s)
  <2>1. \A s \in SUBSET (1..Len(bars)) : s # {} => Max(s) \in s
    BY HighestIs
  <2>2. \A i \in DOMAIN bars : idx[i] = i
    OBVIOUS
  <2> HIDE DEF idx
  <2>3. ASSUME NEW s \in SUBSET (DOMAIN bars), s # {}
        PROVE  idx[Max(s)] = Max(s)
    <3>1. Max(s) \in s
      BY <2>1, <2>3
    <3> QED BY <2>2, <3>1
  <2> QED BY <2>3
<1>3. Run(rt, bars) = iter[DOMAIN idx].rt
  BY DEF Run, FoldLeftDomain, FoldLeft, MapThenFoldSet, Begun, Stepped
<1> HIDE DEF idx
<1>4. \A h : IsIter(h) <=> Running(h, rt, bars)
  BY <1>1, <1>2 DEF Running
<1>5. IsIter(iter)
  <2> HIDE DEF IsIter
  <2> QED BY <1>4
<1>6. Running(iter, rt, bars)
  <2> HIDE DEF IsIter
  <2> QED BY <1>4, <1>5
<1> HIDE DEF iter
<1> QED BY <1>1, <1>3, <1>6

-----------------------------------------------------------------------------
KilledFlat(rt) == rt.pf.killed /\ rt.pf.net = 0

\* Where a batch is after bar k: Clock(bars, u) has the time of each of its bars.
Clock(bars, u) == [k \in 0..Len(bars) |-> IF k = 0 THEN u ELSE bars[k].ts]
Reached(rt, bars, G, u) ==
  [k \in 0..Len(bars) |->
     {acc \in [rt : Runtimes, halted : BOOLEAN] :
        /\ Sound(acc.rt, G, Clock(bars, u)[k]) /\ acc.rt.curve <= rt.curve + k
        /\ KilledFlat(rt) => KilledFlat(acc.rt)}]

\* The times go up.
LEMMA ClockIs ==
  ASSUME NEW bars, NEW G, Tape(bars, G), NEW u \in Nat, \A i \in DOMAIN bars : u <= bars[i].ts
  PROVE  \A k \in 0..Len(bars) :
           /\ Clock(bars, u)[k] \in Nat
           /\ k # 0 => k \in DOMAIN bars /\ Clock(bars, u)[k] = bars[k].ts
           /\ \A j \in 0..k : Clock(bars, u)[j] <= Clock(bars, u)[k]
<1> DEFINE n == Len(bars)
           T == Clock(bars, u)
<1>1. /\ n \in Nat /\ DOMAIN bars = 1..n /\ \A k \in 1..n : bars[k].ts \in Nat
      /\ \A i, j \in 1..n : i < j => bars[i].ts < bars[j].ts
  <2>1. bars \in Seq(BarRow) /\ n \in Nat /\ DOMAIN bars = 1..n
    BY DEF Tape
  <2>2. \A k \in 1..n : bars[k].ts \in Nat
    <3>1. \A k \in 1..n : bars[k] \in BarRow
      BY <2>1
    <3> QED BY <3>1 DEF BarRow
  <2> QED BY <2>1, <2>2 DEF Tape, Ascending
<1> HIDE DEF n
<1>2. T = [k \in 0..n |-> IF k = 0 THEN u ELSE bars[k].ts]
  BY DEF Clock, n
<1> HIDE DEF T
<1>3. ASSUME NEW k \in 0..n
      PROVE  T[k] \in Nat /\ (k # 0 => k \in 1..n /\ T[k] = bars[k].ts)
  <2>1. k # 0 => k \in 1..n
    BY <1>1
  <2>2. T[k] = IF k = 0 THEN u ELSE bars[k].ts
    BY <1>2
  <2> QED BY <1>1, <2>1, <2>2
<1>4. T[0] = u
  <2>1. 0 \in 0..n
    BY <1>1
  <2> QED BY <1>2, <2>1
<1>5. ASSUME NEW k \in 0..n, NEW j \in 0..k
      PROVE  T[j] <= T[k]
  <2>1. j \in 0..n /\ T[j] \in Nat /\ T[k] \in Nat
    BY <1>1, <1>3
  <2>2. CASE j = k
    BY <2>1, <2>2
  <2>3. CASE j # k /\ j = 0
    <3>1. k # 0 /\ k \in DOMAIN bars /\ T[k] = bars[k].ts
      BY <1>1, <1>3, <2>3
    <3> QED BY <1>4, <2>3, <3>1
  <2>4. CASE j # k /\ j # 0
    <3>1. j < k /\ k # 0
      BY <2>1, <2>4
    <3>2. j \in 1..n /\ k \in 1..n /\ T[j] = bars[j].ts /\ T[k] = bars[k].ts
      BY <1>3, <2>1, <2>4, <3>1
    <3>3. bars[j].ts < bars[k].ts
      BY <1>1, <3>1, <3>2
    <3> QED BY <2>1, <3>2, <3>3
  <2> QED BY <2>2, <2>3, <2>4
<1> QED BY <1>1, <1>3, <1>5 DEF T, n

\* It stays sound as bars are added and time goes on.
LEMMA SoundGrows ==
  ASSUME NEW G, NEW H, G \subseteq H, NEW t \in Nat, NEW u \in Nat, t <= u,
         NEW rt, Sound(rt, G, t)
  PROVE  Sound(rt, H, u)
<1>1. rt \in Runtimes /\ Balanced(rt) /\ rt.orders \in Seq(Resting)
  BY DEF Sound, Runtimes
<1>2. \A i \in DOMAIN rt.orders : rt.orders[i].at <= u
  <2>1. \A r \in Resting : r.at \in Nat
    BY DEF Resting
  <2>2. \A i \in DOMAIN rt.orders : rt.orders[i] \in Resting
    BY <1>1
  <2>3. \A i \in DOMAIN rt.orders : rt.orders[i].at <= t
    BY DEF Sound
  <2> QED BY <2>1, <2>2, <2>3
<1>3. \A i \in DOMAIN rt.fills : OnTime(rt.fills[i], H)
  BY DEF Sound, OnTime
<1> QED BY <1>1, <1>2, <1>3 DEF Sound

\* A bar leads from any place before it to its own.
LEMMA SteppedIs ==
  ASSUME NEW bars, NEW G, Tape(bars, G), NEW u \in Nat, \A i \in DOMAIN bars : u <= bars[i].ts,
         NEW rt, Sound(rt, G, u), NEW k \in 1..Len(bars), NEW j \in 0..(k - 1),
         NEW acc \in Reached(rt, bars, G, u)[j]
  PROVE  Stepped(acc, bars, k) \in Reached(rt, bars, G, u)[k]
<1> DEFINE T == Clock(bars, u)
           new == Stepped(acc, bars, k)
           done == OnBar(acc.rt, bars, k)
<1>1. /\ k \in Nat /\ k \in 0..Len(bars) /\ j \in 0..Len(bars) /\ j \in 0..k /\ k # 0 /\ j \in Nat
      /\ j + 1 <= k /\ k \in DOMAIN bars /\ Len(bars) \in Nat
  BY DEF Tape
<1>2. /\ T[k] \in Nat /\ T[j] \in Nat /\ T[k] = bars[k].ts /\ T[j] <= T[k]
  BY <1>1, ClockIs
<1> HIDE DEF T
<1>3. /\ acc \in [rt : Runtimes, halted : BOOLEAN]
      /\ Sound(acc.rt, G, T[j]) /\ acc.rt.curve <= rt.curve + j
      /\ KilledFlat(rt) => KilledFlat(acc.rt)
  BY <1>1 DEF Reached, T
<1>4. rt.curve \in Nat /\ acc.rt \in Runtimes /\ acc.rt.curve \in Nat
  BY <1>3 DEF Sound, Runtimes
<1>5. SUFFICES /\ new \in [rt : Runtimes, halted : BOOLEAN]
               /\ Sound(new.rt, G, T[k]) /\ new.rt.curve <= rt.curve + k
               /\ KilledFlat(rt) => KilledFlat(new.rt)
  BY <1>1 DEF Reached, T
<1>6. CASE acc.halted
  <2>1. new = acc
    BY <1>6 DEF Stepped
  <2>2. Sound(acc.rt, G, T[k])
    BY <1>2, <1>3, SoundGrows
  <2>3. acc.rt.curve <= rt.curve + k
    BY <1>1, <1>3, <1>4
  <2> QED BY <1>3, <2>1, <2>2, <2>3
<1>7. CASE ~acc.halted
  <2>1. new.rt = done /\ new = [rt |-> done, halted |-> done.pf.killed]
    BY <1>7 DEF Stepped
  <2>2. /\ Sound(done, G, bars[k].ts) /\ done.curve = acc.rt.curve + 1
        /\ acc.rt.pf.killed /\ acc.rt.pf.net = 0 => done.pf.killed /\ done.pf.net = 0
    BY <1>1, <1>2, <1>3, OnBarIs
  <2> HIDE DEF done
  <2>3. done \in Runtimes /\ done.pf.killed \in BOOLEAN
    BY <2>2 DEF Sound, Balanced, WellKept, Book
  <2>4. new \in [rt : Runtimes, halted : BOOLEAN]
    BY <2>1, <2>3
  <2>5. done.curve <= rt.curve + k
    BY <1>1, <1>3, <1>4, <2>2
  <2>6. KilledFlat(rt) => KilledFlat(done)
    BY <1>3, <2>2 DEF KilledFlat
  <2> HIDE DEF new
  <2> QED BY <1>2, <2>1, <2>2, <2>4, <2>5, <2>6
<1> QED BY <1>6, <1>7

\* After a batch the runtime is sound at its last bar, has at most one more point per bar,
\* and is flat if it was killed and flat.
LEMMA RunIs ==
  ASSUME NEW bars, NEW G, Tape(bars, G), NEW u \in Nat, \A i \in DOMAIN bars : u <= bars[i].ts,
         NEW rt, Sound(rt, G, u)
  PROVE  /\ Sound(Run(rt, bars), G, Clock(bars, u)[Len(bars)])
         /\ Run(rt, bars).curve <= rt.curve + Len(bars)
         /\ KilledFlat(rt) => KilledFlat(Run(rt, bars))
<1> DEFINE n == Len(bars)
           A == Reached(rt, bars, G, u)
           all == UNION {A[k] : k \in 0..n}
           step == [p \in all \X (1..n) |-> Stepped(p[1], bars, p[2])]
<1>1. n \in Nat /\ DOMAIN bars = 1..n
  BY DEF Tape
<1>2. Begun(rt) \in A[0]
  <2>1. Clock(bars, u)[0] = u /\ 0 \in 0..Len(bars)
    BY <1>1 DEF Clock
  <2>2. rt \in Runtimes /\ rt.curve \in Nat
    BY DEF Sound, Runtimes
  <2>3. rt.curve <= rt.curve + 0
    BY <2>2
  <2>4. /\ Begun(rt) \in [rt : Runtimes, halted : BOOLEAN] /\ Begun(rt).rt = rt
    BY <2>2 DEF Begun
  <2> QED BY <2>1, <2>3, <2>4 DEF Reached
<1>3. \A k \in 1..n : \A j \in 0..(k - 1) : \A x \in A[j] : Stepped(x, bars, k) \in A[k]
  BY SteppedIs
<1> HIDE DEF A
<1>4. ASSUME NEW k \in 1..n, NEW j \in 0..(k - 1), NEW x \in A[j]
      PROVE  step[<<x, k>>] \in A[k] /\ step[<<x, k>>] = Stepped(x, bars, k)
  <2>1. j \in 0..n
    BY <1>1
  <2>2. x \in all
    BY <2>1
  <2> HIDE DEF all
  <2>3. <<x, k>> \in all \X (1..n) /\ <<x, k>>[1] = x /\ <<x, k>>[2] = k
    BY <2>2
  <2>4. step[<<x, k>>] = Stepped(x, bars, k)
    BY <2>3
  <2> HIDE DEF step
  <2> QED BY <1>3, <2>4
<1> HIDE DEF step, all
<1>5. PICK g : /\ Folds(g, n, Begun(rt), step)
               /\ \A s \in SUBSET (1..n) : g[s] \in A[Highest(s)]
  <2>1. \A k \in 1..n : \A j \in 0..(k - 1) : \A x \in A[j] : step[<<x, k>>] \in A[k]
    BY <1>4
  <2> HIDE DEF n
  <2> QED BY <1>1, <1>2, <2>1, FoldExistsAlong
<1>6. ASSUME NEW s \in SUBSET (1..n), s # {}
      PROVE  g[s] = Stepped(g[s \ {Max(s)}], bars, Max(s))
  <2>1. Max(s) \in 1..n /\ s \in SUBSET (1..Max(s)) /\ s \ {Max(s)} \in SUBSET (1..(Max(s) - 1))
    <3>1. s \in SUBSET (0..n)
      BY <1>1
    <3>2. Max(s) \in s /\ \A m \in s : Max(s) >= m
      BY <1>1, <1>6, <3>1, MaxIs
    <3>3. \A m \in s : m \in 1..n
      OBVIOUS
    <3>4. \A a \in 1..n, m \in 1..n : a >= m => m \in 1..a /\ (m # a => m \in 1..(a - 1))
      OBVIOUS
    <3> QED BY <3>2, <3>3, <3>4
  <2>2. Highest(s \ {Max(s)}) \in 0..(Max(s) - 1)
    <3>1. Max(s) - 1 \in Nat
      BY <2>1
    <3> QED BY <2>1, <3>1, HighestIs
  <2>3. s \ {Max(s)} \in SUBSET (1..n)
    OBVIOUS
  <2>4. g[s \ {Max(s)}] \in A[Highest(s \ {Max(s)})]
    BY <1>5, <2>3
  <2>5. g[s] = step[<<g[s \ {Max(s)}], Max(s)>>]
    BY <1>5, <1>6 DEF Folds
  <2> QED BY <1>4, <2>1, <2>2, <2>4, <2>5
<1>7. \E h : Running(h, rt, bars)
  <2> DEFINE h == [s \in SUBSET (1..n) |-> g[s]]
  <2>1. g[{}] = Begun(rt)
    BY <1>5 DEF Folds
  <2>2. \A s \in SUBSET (1..n) : h[s] = g[s] /\ s \ {Max(s)} \in SUBSET (1..n)
    OBVIOUS
  <2>3. h = [s \in SUBSET (1..n) |->
               IF s = {} THEN Begun(rt) ELSE Stepped(h[s \ {Max(s)}], bars, Max(s))]
    BY <1>6, <2>1, <2>2
  <2> HIDE DEF h
  <2>4. Running(h, rt, bars)
    BY <1>1, <2>3 DEF Running
  <2> QED BY <2>4
<1>8. PICK h : Running(h, rt, bars) /\ Run(rt, bars) = h[DOMAIN bars].rt
  BY <1>1, <1>7, RunIsFold
<1>9. h[1..0] \in A[0]
  <2>1. 1..0 = {} /\ {} \in SUBSET (1..n)
    OBVIOUS
  <2>2. h[{}] = Begun(rt)
    BY <1>1, <1>8, <2>1 DEF Running
  <2> QED BY <1>2, <2>1, <2>2
<1>10. ASSUME NEW k \in 1..n, h[1..(k - 1)] \in A[k - 1] PROVE h[1..k] \in A[k]
  <2>1. k \in Nat \ {0} /\ 1..k \in SUBSET (1..n) /\ 1..k # {} /\ k - 1 \in 0..(k - 1)
    <3>1. k \in Nat \ {0} /\ k \in 1..k /\ \A i \in 1..k : i \in 1..n
      BY <1>1
    <3> QED BY <3>1
  <2>2. Max(1..k) = k /\ (1..k) \ {k} = 1..(k - 1)
    BY <2>1, LastIs
  <2>3. h[1..k] = Stepped(h[1..(k - 1)], bars, k)
    BY <1>1, <1>8, <2>1, <2>2 DEF Running
  <2> QED BY <1>3, <1>10, <2>1, <2>3
<1>11. h[1..n] \in A[n]
  <2> HIDE DEF n
  <2> QED BY <1>1, <1>9, <1>10, FoldReaches
<1>12. n \in 0..Len(bars)
  BY <1>1
<1> QED BY <1>1, <1>8, <1>11, <1>12 DEF A, Reached

-----------------------------------------------------------------------------
(* The bars of a time. *)

\* The bars kept of the first k, in their order.
Sifted(bars, times, k) ==
  {kept \in Seq(BarRow) :
     /\ Ascending(kept)
     /\ \A m \in DOMAIN kept : \E j \in 1..k : kept[m] = bars[j] /\ bars[j].ts \in times}

Sift(kept, b, times) == IF b.ts \in times THEN Append(kept, b) ELSE kept

\* What the fold keeps of each set of bars.
Sifting(g, bars, times) ==
  g = [s \in SUBSET (DOMAIN bars) |->
         IF s = {} THEN <<>> ELSE Sift(g[s \ {Max(s)}], bars[Max(s)], times)]

\* A bar is kept after those before it, or dropped.
LEMMA SiftIs ==
  ASSUME NEW bars \in Seq(BarRow), Ascending(bars), NEW times, NEW k \in DOMAIN bars,
         NEW kept \in Sifted(bars, times, k - 1)
  PROVE  Sift(kept, bars[k], times) \in Sifted(bars, times, k)
<1> DEFINE b == bars[k]
           more == Append(kept, b)
<1>1. /\ k \in 1..Len(bars) /\ Len(bars) \in Nat /\ DOMAIN bars = 1..Len(bars)
      /\ b \in BarRow /\ kept \in Seq(BarRow) /\ Ascending(kept)
  BY DEF Sifted
<1>2. \A m \in DOMAIN kept : \E j \in 1..(k - 1) : kept[m] = bars[j] /\ bars[j].ts \in times
  BY DEF Sifted
<1>3. \A j \in 1..(k - 1) : j \in 1..k /\ j < k /\ j \in DOMAIN bars
  BY <1>1
<1>4. CASE b.ts \in times
  <2>1. /\ more \in Seq(BarRow) /\ Len(kept) \in Nat /\ DOMAIN kept = 1..Len(kept)
        /\ DOMAIN more = 1..(Len(kept) + 1) /\ more[Len(kept) + 1] = b
        /\ \A m \in 1..Len(kept) : more[m] = kept[m]
    BY <1>1
  <2> HIDE DEF more
  <2>2. \A m \in DOMAIN kept : kept[m].ts < b.ts
    <3> SUFFICES ASSUME NEW m \in DOMAIN kept PROVE kept[m].ts < b.ts
      OBVIOUS
    <3>1. PICK j \in 1..(k - 1) : kept[m] = bars[j]
      BY <1>2
    <3> QED BY <1>1, <1>3, <3>1 DEF Ascending
  <2>3. Ascending(more)
    <3> SUFFICES ASSUME NEW m \in DOMAIN more, NEW n \in DOMAIN more, m < n
                 PROVE  more[m].ts < more[n].ts
      BY DEF Ascending
    <3>1. m \in 1..Len(kept)
      BY <2>1
    <3>2. CASE n \in 1..Len(kept)
      BY <1>1, <2>1, <3>1, <3>2 DEF Ascending
    <3>3. CASE n = Len(kept) + 1
      BY <2>1, <2>2, <3>1, <3>3
    <3> QED BY <2>1, <3>2, <3>3
  <2>4. ASSUME NEW m \in DOMAIN more
        PROVE  \E j \in 1..k : more[m] = bars[j] /\ bars[j].ts \in times
    <3>1. CASE m \in 1..Len(kept)
      BY <1>2, <1>3, <2>1, <3>1
    <3>2. CASE m = Len(kept) + 1
      <4>1. k \in 1..k
        BY <1>1
      <4> QED BY <1>4, <2>1, <3>2, <4>1
    <3> QED BY <2>1, <3>1, <3>2
  <2>5. Sift(kept, b, times) = more
    BY <1>4 DEF Sift, more
  <2> QED BY <2>1, <2>3, <2>4, <2>5 DEF Sifted
<1>5. CASE b.ts \notin times
  <2>1. Sift(kept, b, times) = kept
    BY <1>5 DEF Sift
  <2>2. \A m \in DOMAIN kept : \E j \in 1..k : kept[m] = bars[j] /\ bars[j].ts \in times
    BY <1>2, <1>3
  <2> QED BY <1>1, <2>1, <2>2 DEF Sifted
<1> QED BY <1>4, <1>5

\* The bars of a time are in their order, each one of those there were.
LEMMA DuringIs ==
  ASSUME NEW bars \in Seq(BarRow), Ascending(bars), NEW times
  PROVE  During(bars, times) \in Sifted(bars, times, Len(bars))
<1> DEFINE n == Len(bars)
           step == [p \in Seq(BarRow) \X (1..n) |-> Sift(p[1], bars[p[2]], times)]
           A == [k \in 0..n |-> Sifted(bars, times, k)]
           h == CHOOSE h : Sifting(h, bars, times)
<1>1. n \in Nat /\ DOMAIN bars = 1..n /\ \A i \in 1..n : bars[i] \in BarRow
  OBVIOUS
<1> HIDE DEF n
<1>2. \A kept \in Seq(BarRow), i \in 1..n : Sift(kept, bars[i], times) \in Seq(BarRow)
  BY <1>1 DEF Sift
<1>3. step \in [Seq(BarRow) \X (1..n) -> Seq(BarRow)]
  BY <1>2
<1>4. \A kept \in Seq(BarRow), i \in 1..n : step[<<kept, i>>] = Sift(kept, bars[i], times)
  OBVIOUS
<1> HIDE DEF step
<1>5. PICK g \in [SUBSET (1..n) -> Seq(BarRow)] : Folds(g, n, <<>>, step)
  <2>1. <<>> \in Seq(BarRow)
    OBVIOUS
  <2> QED BY <1>1, <1>3, <2>1, FoldExists
<1>6. ASSUME NEW s \in SUBSET (1..n), s # {}
      PROVE  Max(s) \in 1..n /\ g[s \ {Max(s)}] \in Seq(BarRow)
  <2>1. Max(s) \in s
    BY <1>1, <1>6, HighestIs
  <2> QED BY <2>1
<1>7. ASSUME NEW s \in SUBSET (1..n)
      PROVE  g[s] = IF s = {} THEN <<>> ELSE Sift(g[s \ {Max(s)}], bars[Max(s)], times)
  BY <1>4, <1>5, <1>6 DEF Folds
<1>8. Sifting(h, bars, times)
  <2>1. g = [s \in SUBSET (1..n) |-> g[s]]
    OBVIOUS
  <2>2. Sifting(g, bars, times)
    BY <1>1, <1>7, <2>1 DEF Sifting
  <2> QED BY <2>2
<1>9. During(bars, times) = h[1..n]
  BY <1>1 DEF During, FoldLeft, MapThenFoldSet, Sifting, Sift
<1> HIDE DEF h
<1>10. h[1..0] \in A[0]
  <2>1. 1..0 = {} /\ {} \in SUBSET (1..n) /\ 0 \in 0..n
    BY <1>1
  <2>2. h[{}] = <<>>
    BY <1>1, <1>8, <2>1 DEF Sifting
  <2>3. <<>> \in Sifted(bars, times, 0)
    <3>1. <<>> \in Seq(BarRow) /\ DOMAIN <<>> = {}
      OBVIOUS
    <3> QED BY <3>1 DEF Sifted, Ascending
  <2> QED BY <2>1, <2>2, <2>3
<1>11. ASSUME NEW k \in 1..n, h[1..(k - 1)] \in A[k - 1] PROVE h[1..k] \in A[k]
  <2>1. /\ k \in Nat \ {0} /\ 1..k \in SUBSET (1..n) /\ 1..k # {} /\ k \in 0..n
        /\ k - 1 \in 0..n
    <3>1. k \in Nat \ {0} /\ k \in 1..k /\ \A i \in 1..k : i \in 1..n
      BY <1>1
    <3>2. k \in 0..n /\ k - 1 \in 0..n
      BY <1>1
    <3> QED BY <3>1, <3>2
  <2>2. Max(1..k) = k /\ (1..k) \ {k} = 1..(k - 1)
    BY <2>1, LastIs
  <2>3. h[1..k] = Sift(h[1..(k - 1)], bars[k], times)
    BY <1>1, <1>8, <2>1, <2>2 DEF Sifting
  <2>4. h[1..(k - 1)] \in Sifted(bars, times, k - 1) /\ A[k] = Sifted(bars, times, k)
    BY <1>11, <2>1
  <2>5. k \in DOMAIN bars
    BY <1>1
  <2> HIDE DEF A
  <2>6. Sift(h[1..(k - 1)], bars[k], times) \in Sifted(bars, times, k)
    BY <2>4, <2>5, SiftIs
  <2> QED BY <2>3, <2>4, <2>6
<1>12. h[1..n] \in A[n]
  <2> HIDE DEF A
  <2> QED BY <1>1, <1>10, <1>11, FoldReaches
<1>13. n \in 0..n
  BY <1>1
<1> QED BY <1>9, <1>12, <1>13 DEF n

-----------------------------------------------------------------------------
(* The series. *)

Series == Seq(Shapes \cup {Missing})
Present(c) == {i \in DOMAIN c : c[i] # Missing}
Given(c, start, last) == {i \in (start + 1)..last : c[i] # Missing}

\* Bars of a time are bars of the tape.
LEMMA DuringTape ==
  ASSUME NEW bars, NEW G, Tape(bars, G), NEW times
  PROVE  /\ Tape(During(bars, times), G)
         /\ \A i \in DOMAIN During(bars, times) : During(bars, times)[i].ts \in times
<1> DEFINE new == During(bars, times)
<1>1. new \in Sifted(bars, times, Len(bars)) /\ DOMAIN bars = 1..Len(bars)
  BY DuringIs DEF Tape
<1> HIDE DEF new
<1>2. /\ new \in Seq(BarRow) /\ Ascending(new)
      /\ \A m \in DOMAIN new : \E j \in DOMAIN bars : new[m] = bars[j] /\ bars[j].ts \in times
  BY <1>1 DEF Sifted
<1>3. \A m \in DOMAIN new : new[m].ts \in G /\ new[m].ts \in times
  BY <1>2 DEF Tape
<1>4. Tape(new, G)
  BY <1>2, <1>3 DEF Tape
<1> QED BY <1>3, <1>4 DEF new

\* The bars fetched are those present.
LEMMA FetchedIs ==
  ASSUME candles \in Series
  PROVE  Tape(Fetched, Present(candles)) /\ Present(candles) \in SUBSET (1..Len(candles))
<1> DEFINE all == [i \in DOMAIN candles |-> Bar(i)]
<1>1. DOMAIN candles = 1..Len(candles) /\ Len(candles) \in Nat
  BY DEF Series
<1>2. \A i \in DOMAIN candles : Bar(i) \in BarRow /\ Bar(i).ts = i
  <2>1. \A x \in Shapes \cup {Missing} :
          x.open \in Int /\ x.high \in Int /\ x.low \in Int /\ x.close \in Int
    BY CandlesAssumption DEF Missing
  <2>2. \A i \in DOMAIN candles : candles[i] \in Shapes \cup {Missing}
    BY DEF Series
  <2> QED BY <1>1, <2>1, <2>2 DEF Bar, BarRow
<1>3. /\ all \in Seq(BarRow) /\ DOMAIN all = DOMAIN candles
      /\ \A i \in DOMAIN all : all[i].ts = i
  <2>1. all \in [1..Len(candles) -> BarRow]
    BY <1>1, <1>2
  <2>2. all \in Seq(BarRow)
    BY <1>1, <2>1
  <2> QED BY <1>2, <2>2
<1> HIDE DEF all
<1>4. Tape(all, DOMAIN candles)
  BY <1>1, <1>3 DEF Tape, Ascending
<1>5. /\ Tape(Fetched, DOMAIN candles)
      /\ \A i \in DOMAIN Fetched : Fetched[i].ts \in Present(candles)
  <2>1. Fetched = During(all, Present(candles))
    BY DEF Fetched, all, Present
  <2> QED BY <1>4, <2>1, DuringTape
<1>6. Present(candles) \in SUBSET (1..Len(candles))
  BY <1>1 DEF Present
<1> QED BY <1>5, <1>6 DEF Tape

\* A tape has at most as many bars as there are.
LEMMA TapeCount ==
  ASSUME NEW bars, NEW G, Tape(bars, G), IsFiniteSet(G)
  PROVE  Len(bars) <= Cardinality(G)
<1> DEFINE n == Len(bars)
           f == [i \in 1..n |-> bars[i].ts]
<1>1. n \in Nat /\ DOMAIN bars = 1..n
  BY DEF Tape
<1>2. f \in [1..n -> G]
  BY <1>1 DEF Tape
<1>3. \A i, j \in 1..n : i # j => f[i] # f[j]
  <2>1. \A i, j \in 1..n : i < j => bars[i].ts < bars[j].ts
    BY <1>1 DEF Tape, Ascending
  <2>2. \A i \in 1..n : bars[i].ts \in Nat
    BY <1>1 DEF Tape
  <2> HIDE DEF n
  <2>3. \A i, j \in 1..n : i < j \/ j < i \/ i = j
    BY <1>1
  <2> QED BY <2>1, <2>2, <2>3
<1>4. f \in Injection(1..n, G)
  BY <1>2, <1>3 DEF Injection, IsInjective
<1>5. Cardinality(1..n) = n
  <2>1. Cardinality(1..n) = IF 1 > n THEN 0 ELSE n - 1 + 1
    BY <1>1, FS_Interval
  <2> HIDE DEF n
  <2> QED BY <1>1, <2>1
<1> HIDE DEF f, n
<1>6. Cardinality(1..n) <= Cardinality(G)
  BY <1>4, FS_Injection
<1> QED BY <1>5, <1>6 DEF n

-----------------------------------------------------------------------------
(* Books. *)

\* Candles are added and filled in, none goes away.
Grows(c, d) ==
  c \in Series /\ d \in Series /\ Len(c) <= Len(d) /\ Present(c) \subseteq Present(d)

Mems == [rt : Runtimes, start : Nat, last : Nat]

\* A book in memory, on the candles c since its start.
BookGood(mem, c) ==
  /\ mem \in Mems /\ mem.start <= mem.last /\ mem.last <= Len(c)
  /\ Sound(mem.rt, Given(c, mem.start, mem.last), mem.last)
  /\ mem.rt.curve <= Cardinality(Given(c, mem.start, mem.last))

\* The bars of a book are finitely many of those present.
LEMMA GivenIs ==
  ASSUME NEW c \in Series, NEW start \in Nat, NEW last \in Nat
  PROVE  /\ Given(c, start, last) \in SUBSET Nat /\ IsFiniteSet(Given(c, start, last))
         /\ Cardinality(Given(c, start, last)) \in Nat
         /\ last <= Len(c) =>
              Given(c, start, last) = {i \in Present(c) : start < i /\ i <= last}
<1>1. IsFiniteSet((start + 1)..last) /\ Given(c, start, last) \in SUBSET ((start + 1)..last)
  BY FS_Interval DEF Given
<1>2. \A i \in (start + 1)..last : i \in Nat
  OBVIOUS
<1>3. IsFiniteSet(Given(c, start, last)) /\ Cardinality(Given(c, start, last)) \in Nat
  BY <1>1, FS_Subset, FS_CardinalityType
<1>4. ASSUME last <= Len(c)
      PROVE  Given(c, start, last) = {i \in Present(c) : start < i /\ i <= last}
  <2>1. DOMAIN c = 1..Len(c) /\ Len(c) \in Nat
    BY DEF Series
  <2>2. \A i : i \in (start + 1)..last <=> i \in 1..Len(c) /\ start < i /\ i <= last
    BY <1>4, <2>1
  <2> QED BY <2>1, <2>2 DEF Given, Present
<1> QED BY <1>1, <1>2, <1>3, <1>4

\* A book stays good as candles are added.
LEMMA BookGrows ==
  ASSUME NEW c, NEW d, Grows(c, d), NEW mem, BookGood(mem, c)
  PROVE  BookGood(mem, d)
<1> DEFINE G == Given(c, mem.start, mem.last)
           H == Given(d, mem.start, mem.last)
<1>1. c \in Series /\ d \in Series /\ mem.start \in Nat /\ mem.last \in Nat /\ mem \in Mems
  BY DEF Grows, BookGood, Mems
<1>2. mem.last <= Len(d) /\ mem.last <= Len(c)
  <2>1. Len(c) \in Nat /\ Len(d) \in Nat /\ Len(c) <= Len(d) /\ mem.last <= Len(c)
    BY <1>1 DEF Grows, BookGood, Series
  <2> QED BY <1>1, <2>1
<1>3. G \subseteq H
  <2>1. /\ G = {i \in Present(c) : mem.start < i /\ i <= mem.last}
        /\ H = {i \in Present(d) : mem.start < i /\ i <= mem.last}
    BY <1>1, <1>2, GivenIs
  <2>2. Present(c) \subseteq Present(d)
    BY DEF Grows
  <2> QED BY <2>1, <2>2
<1>4. Cardinality(G) <= Cardinality(H) /\ Cardinality(G) \in Nat /\ Cardinality(H) \in Nat
  BY <1>1, <1>3, GivenIs, FS_Subset
<1>5. mem.rt.curve <= Cardinality(G) /\ mem.rt.curve \in Nat
  BY DEF BookGood, Mems, Runtimes
<1>6. Sound(mem.rt, H, mem.last)
  <2>1. Sound(mem.rt, G, mem.last)
    BY DEF BookGood
  <2> HIDE DEF G, H
  <2> QED BY <1>1, <1>3, <2>1, SoundGrows
<1>7. mem.rt.curve <= Cardinality(H)
  BY <1>4, <1>5
<1>8. mem.start <= mem.last
  BY DEF BookGood
<1> HIDE DEF G
<1> QED BY <1>1, <1>2, <1>6, <1>7, <1>8 DEF BookGood

\* A book goes on to bars later than its last one.
LEMMA AdvanceIs ==
  ASSUME NEW c \in Series, NEW mem, BookGood(mem, c), NEW bars, Tape(bars, Present(c)),
         \A i \in DOMAIN bars : bars[i].ts \in Nat \ (0..mem.last)
  PROVE  /\ BookGood(Advance(mem, bars), c)
         /\ Advance(mem, bars).start = mem.start
         /\ KilledFlat(mem.rt) => KilledFlat(Advance(mem, bars).rt)
<1> DEFINE n == Len(bars)
           last == bars[n].ts
           rt == Run(mem.rt, bars)
           G == Given(c, mem.start, mem.last)
           H == Given(c, mem.start, last)
           new == Advance(mem, bars)
<1>1. /\ bars \in Seq(BarRow) /\ n \in Nat /\ DOMAIN bars = 1..n /\ Ascending(bars)
      /\ \A i \in 1..n : bars[i].ts \in Present(c)
  BY DEF Tape
<1>2. mem \in Mems /\ mem.start \in Nat /\ mem.last \in Nat /\ mem.start <= mem.last
  BY DEF BookGood, Mems
<1>3. CASE bars = <<>>
  BY <1>3 DEF Advance
<1>4. CASE bars # <<>>
  <2>1. n \in DOMAIN bars /\ Last(bars) = bars[n]
    BY <1>1, <1>4 DEF Last
  <2>2. new = [rt |-> rt, start |-> mem.start, last |-> last]
    BY <1>4, <2>1 DEF Advance
  <2>3. Len(c) \in Nat /\ Present(c) \in SUBSET (1..Len(c))
    BY DEF Series, Present
  <2>4. \A i \in 1..n : bars[i].ts \in Nat /\ mem.last < bars[i].ts /\ bars[i].ts <= Len(c)
    <3> SUFFICES ASSUME NEW i \in 1..n
                 PROVE  bars[i].ts \in Nat /\ mem.last < bars[i].ts /\ bars[i].ts <= Len(c)
      OBVIOUS
    <3>1. bars[i].ts \in 1..Len(c) /\ bars[i].ts \in Nat \ (0..mem.last)
      BY <1>1, <2>3
    <3> QED BY <1>2, <2>3, <3>1
  <2>5. last \in Nat /\ mem.last < last /\ last <= Len(c) /\ mem.start < last
    BY <1>1, <1>2, <2>1, <2>4
  <2>6. \A i \in 1..n : bars[i].ts <= last
    <3> SUFFICES ASSUME NEW i \in 1..n PROVE bars[i].ts <= last
      OBVIOUS
    <3>1. i = n \/ i < n
      <4>1. \A m \in Nat : \A x \in 1..m : x = m \/ x < m
        OBVIOUS
      <4> QED BY <1>1, <4>1
    <3>2. i < n => bars[i].ts < bars[n].ts
      BY <1>1, <2>1 DEF Ascending
    <3> QED BY <2>1, <2>4, <3>1, <3>2
  <2> HIDE DEF last, n
  <2>7. /\ H = {i \in Present(c) : mem.start < i /\ i <= last}
        /\ G = {i \in Present(c) : mem.start < i /\ i <= mem.last}
        /\ H \in SUBSET Nat /\ IsFiniteSet(H) /\ IsFiniteSet(G)
    <3>1. mem.last <= Len(c)
      BY DEF BookGood
    <3> QED BY <1>2, <2>5, <3>1, GivenIs
  <2> HIDE DEF G, H
  <2>8. G \subseteq H
    BY <1>2, <2>3, <2>5, <2>7
  <2>9. /\ \A i \in 1..n : bars[i].ts \in H \ G
    <3> SUFFICES ASSUME NEW i \in 1..n PROVE bars[i].ts \in H \ G
      OBVIOUS
    <3>1. /\ bars[i].ts \in Nat /\ mem.last < bars[i].ts /\ bars[i].ts <= last
          /\ bars[i].ts \in Present(c)
      BY <1>1, <2>4, <2>6
    <3>2. mem.start < bars[i].ts /\ ~ (bars[i].ts <= mem.last)
      BY <1>2, <3>1
    <3> QED BY <2>7, <3>1, <3>2
  <2>10. Tape(bars, H) /\ Tape(bars, H \ G)
    BY <1>1, <2>7, <2>9 DEF Tape
  <2>11. /\ Sound(rt, H, last) /\ rt.curve <= mem.rt.curve + n
         /\ KilledFlat(mem.rt) => KilledFlat(rt)
    <3>1. Sound(mem.rt, H, mem.last)
      <4>1. Sound(mem.rt, G, mem.last)
        BY DEF BookGood, G
      <4>2. mem.last <= mem.last
        BY <1>2
      <4> QED BY <1>2, <2>8, <4>1, <4>2, SoundGrows
    <3>2. \A i \in DOMAIN bars : mem.last <= bars[i].ts
      BY <1>1, <1>2, <2>4
    <3>3. Clock(bars, mem.last)[Len(bars)] = last
      <4>1. Len(bars) \in 0..Len(bars) /\ Len(bars) # 0
        BY <1>1, <2>1 DEF n
      <4> QED BY <4>1 DEF Clock, last, n
    <3>4. /\ Sound(rt, H, Clock(bars, mem.last)[Len(bars)])
          /\ rt.curve <= mem.rt.curve + Len(bars)
          /\ KilledFlat(mem.rt) => KilledFlat(rt)
      BY <1>2, <2>10, <3>1, <3>2, RunIs
    <3> QED BY <3>3, <3>4 DEF n
  <2> HIDE DEF rt
  <2>12. rt.curve <= Cardinality(H)
    <3>1. n <= Cardinality(H \ G)
      <4>1. IsFiniteSet(H \ G)
        BY <2>7, FS_Difference
      <4> QED BY <2>10, <4>1, TapeCount DEF n
    <3>2. Cardinality(H \ G) = Cardinality(H) - Cardinality(G)
      <4>1. Cardinality(H \ G) = Cardinality(H) - Cardinality(H \cap G) /\ H \cap G = G
        BY <2>7, <2>8, FS_Difference
      <4> QED BY <4>1
    <3>3. mem.rt.curve <= Cardinality(G) /\ mem.rt.curve \in Nat
      BY DEF BookGood, Mems, Runtimes, G
    <3>4. rt.curve \in Nat
      BY <2>11 DEF Sound, Runtimes
    <3>5. Cardinality(G) \in Nat /\ Cardinality(H) \in Nat
      BY <2>7, FS_CardinalityType
    <3> QED BY <1>1, <2>11, <3>1, <3>2, <3>3, <3>4, <3>5
  <2>13. rt \in Runtimes
    BY <2>11 DEF Sound
  <2>14. new \in Mems /\ new.rt = rt /\ new.start = mem.start /\ new.last = last
    BY <1>2, <2>2, <2>5, <2>13 DEF Mems
  <2> HIDE DEF new
  <2>15. mem.start <= last
    BY <1>2, <2>5
  <2>16. BookGood(new, c)
    BY <2>5, <2>11, <2>12, <2>14, <2>15 DEF BookGood, H
  <2> QED BY <2>11, <2>14, <2>16 DEF new
<1> QED BY <1>3, <1>4

-----------------------------------------------------------------------------
(* A book that is new. *)

\* It has no fills and nothing to pay.
LEMMA NewRuntimeIs ==
  ASSUME NEW strategy \in Strategies, NEW signal \in Signals, NEW G, NEW t
  PROVE  /\ Sound(NewRuntime(strategy, signal), G, t)
         /\ NewRuntime(strategy, signal).curve = 0
<1> DEFINE new == NewRuntime(strategy, signal)
<1>1. NewPortfolio \in Book /\ NewPortfolio.net = 0 /\ NewPortfolio.cost = 0
      /\ NewPortfolio.cash = StartingEquity /\ StartingEquity \in Int
  BY StartingEquityAssumption DEF NewPortfolio, Book, NoDay
<1>2. /\ new.pf = NewPortfolio /\ new.orders = <<>> /\ new.fills = <<>> /\ new.curve = 0
  BY DEF NewRuntime
<1>3. new \in Runtimes
  <2>1. <<>> \in Seq(Resting) /\ <<>> \in Seq(FillRow) /\ 0 \in Nat
    OBVIOUS
  <2> QED BY <1>1, <2>1 DEF NewRuntime, Runtimes
<1> HIDE DEF new
<1>4. Settled(NewPortfolio) = StartingEquity
  BY <1>1 DEF Settled
<1>5. Balanced(new)
  <2>1. Bought(new.fills) = 0 /\ Spent(new.fills) = 0
    BY <1>2, NoFills
  <2>2. StartingEquity - 0 = StartingEquity
    BY <1>1
  <2> QED BY <1>1, <1>2, <1>4, <2>1, <2>2 DEF Balanced, WellKept
<1>6. DOMAIN new.orders = {} /\ DOMAIN new.fills = {}
  BY <1>2
<1>7. Sound(new, G, t)
  BY <1>3, <1>5, <1>6 DEF Sound
<1> QED BY <1>2, <1>7 DEF new

\* Priming it leaves a signal and nothing else.
LEMMA PrimedIs ==
  ASSUME NEW strategy \in Strategies, NEW bars, NEW H, Tape(bars, H), NEW G, NEW t
  PROVE  Sound(Primed(strategy, bars), G, t) /\ Primed(strategy, bars).curve = 0
<1>1. "none" \in Signals
  BY DEF Signals
<1>2. Run(NewRuntime(strategy, "none"), bars).signal \in Signals
  <2>1. Sound(NewRuntime(strategy, "none"), H, 0)
    BY <1>1, NewRuntimeIs
  <2>2. \A i \in DOMAIN bars : 0 <= bars[i].ts
    <3>1. \A i \in DOMAIN bars : bars[i].ts \in Nat
      BY DEF Tape
    <3> QED BY <3>1
  <2>3. 0 \in Nat
    OBVIOUS
  <2>4. Sound(Run(NewRuntime(strategy, "none"), bars), H, Clock(bars, 0)[Len(bars)])
    BY <2>1, <2>2, <2>3, RunIs
  <2> QED BY <2>4 DEF Sound, Runtimes
<1> QED BY <1>1, <1>2, NewRuntimeIs DEF Primed

\* So a book that starts is good.
LEMMA FreshIs ==
  ASSUME NEW c \in Series, NEW strategy \in Strategies, NEW bars, Tape(bars, Present(c)),
         NEW start \in Nat, start <= Len(c)
  PROVE  BookGood([rt |-> Primed(strategy, bars), start |-> start, last |-> start], c)
<1> DEFINE rt == Primed(strategy, bars)
           mem == [rt |-> rt, start |-> start, last |-> start]
<1>1. Sound(rt, Given(c, start, start), start) /\ rt.curve = 0
  BY PrimedIs
<1> HIDE DEF rt
<1>2. rt \in Runtimes
  BY <1>1 DEF Sound
<1>3. mem \in Mems /\ mem.rt = rt /\ mem.start = start /\ mem.last = start
  BY <1>2 DEF Mems
<1> HIDE DEF mem
<1>4. start <= start /\ 0 <= Cardinality(Given(c, start, start))
  BY GivenIs
<1>5. BookGood(mem, c)
  BY <1>1, <1>3, <1>4 DEF BookGood
<1> QED BY <1>5 DEF mem, rt

-----------------------------------------------------------------------------
(* The invariant. *)

Statuses == {"none", "running", "stopped", "recovery_blocked"}
Saves == [last : Nat, net : Int, cash : Int, fills : Nat, bars : Nat, killed : BOOLEAN]
Rows == [status : Statuses, strategy : Strategies, start : Nat, saved : Saves]
Holding == {"baseline", "save", "resume", "feed", "persist"}
Pcs == {"idle", "build", "block", "install"} \cup Holding
JobRow == [pc : Pcs, bars : Seq(BarRow), history : Seq(BarRow), start : Nat,
           recovering : BOOLEAN, book : Nat]

\* What a coroutine holds, where c are the candles and n the books.
JobGood(x, c, n) ==
  /\ Tape(x.bars, Present(c)) /\ Tape(x.history, Present(c)) /\ x.start <= Len(c)
  /\ x.pc \in Holding => x.book \in 1..n

RowGood == row \in Rows /\ row.start <= Len(candles)
BooksGood ==
  /\ books \in Seq(Mems) /\ \A k \in DOMAIN books : BookGood(books[k], candles)
  /\ current \in 0..Len(books)
JobsGood ==
  job \in [Jobs -> JobRow] /\ \A j \in Jobs : JobGood(job[j], candles, Len(books))

PaperInv == candles \in Series /\ RowGood /\ BooksGood /\ JobsGood

\* A step keeps flat the books that were killed.
FlatKept ==
  \A k \in DOMAIN books \cap DOMAIN books' : KilledFlat(books[k].rt) => KilledFlat(books'[k].rt)

\* No bars are a tape of any candles.
LEMMA EmptyTape ==
  ASSUME NEW c \in Series
  PROVE  Tape(<<>>, Present(c)) /\ <<>> \in Seq(BarRow)
<1>1. <<>> \in Seq(BarRow) /\ DOMAIN <<>> = {}
  OBVIOUS
<1>2. Present(c) \in SUBSET Nat
  BY DEF Present, Series
<1> QED BY <1>1, <1>2 DEF Tape, Ascending

\* An idle coroutine is good.
LEMMA IdleIs ==
  ASSUME NEW c \in Series, NEW n \in Nat
  PROVE  Idle \in JobRow /\ JobGood(Idle, c, n)
<1>1. Tape(<<>>, Present(c)) /\ <<>> \in Seq(BarRow) /\ Len(c) \in Nat
  BY EmptyTape DEF Series
<1> QED BY <1>1 DEF Idle, JobRow, Pcs, JobGood, NoStart, NoBook, Holding

\* Candles that grow leave the row, the books and the coroutines as good as they were.
LEMMA GrowthKeeps ==
  ASSUME PaperInv, Grows(candles, candles'), UNCHANGED <<row, books, current, job>>
  PROVE  PaperInv' /\ FlatKept
<1>1. /\ candles' \in Series /\ Len(candles) \in Nat /\ Len(candles') \in Nat
      /\ Len(candles) <= Len(candles')
  BY DEF Grows, Series
<1>2. RowGood'
  <2>1. row \in Rows /\ row.start \in Nat /\ row.start <= Len(candles)
    BY DEF PaperInv, RowGood, Rows
  <2> QED BY <1>1, <2>1 DEF RowGood
<1>3. BooksGood'
  <2>1. \A k \in DOMAIN books : BookGood(books[k], candles')
    BY BookGrows DEF PaperInv, BooksGood
  <2> QED BY <2>1 DEF PaperInv, BooksGood
<1>4. JobsGood'
  <2>1. job \in [Jobs -> JobRow] /\ \A j \in Jobs : JobGood(job[j], candles, Len(books))
    BY DEF PaperInv, JobsGood
  <2>2. ASSUME NEW j \in Jobs PROVE JobGood(job[j], candles', Len(books))
    <3>1. JobGood(job[j], candles, Len(books)) /\ job[j].start \in Nat
      BY <2>1 DEF JobRow
    <3>2. Present(candles) \subseteq Present(candles') /\ Present(candles') \in SUBSET Nat
      BY <1>1 DEF Grows, Present, Series
    <3>3. \A bars : Tape(bars, Present(candles)) => Tape(bars, Present(candles'))
      BY <3>2 DEF Tape
    <3>4. job[j].start <= Len(candles')
      BY <1>1, <3>1 DEF JobGood
    <3> QED BY <3>1, <3>3, <3>4 DEF JobGood
  <2> QED BY <2>1, <2>2 DEF JobsGood
<1>5. FlatKept
  BY DEF FlatKept
<1> QED BY <1>1, <1>2, <1>3, <1>4, <1>5 DEF PaperInv

\* The ingestor only adds candles and fills them in.
LEMMA SeriesStep ==
  ASSUME PaperInv, NextCandle \/ Revise \/ Backfill
  PROVE  PaperInv' /\ FlatKept
<1>0. /\ candles \in Series /\ DOMAIN candles = 1..Len(candles) /\ Len(candles) \in Nat
      /\ \A c \in Shapes : c # Missing
  BY CandlesAssumption DEF PaperInv, Series
<1>1. ASSUME NEW i \in DOMAIN candles, NEW c \in Shapes, candles' = [candles EXCEPT ![i] = c]
      PROVE  Grows(candles, candles')
  <2>1. candles' \in Series /\ DOMAIN candles' = DOMAIN candles /\ Len(candles') = Len(candles)
    BY <1>0, <1>1 DEF Series
  <2>2. \A k \in DOMAIN candles : candles'[k] = candles[k] \/ candles'[k] = c
    BY <1>1
  <2> QED BY <1>0, <2>1, <2>2 DEF Grows, Present
<1>2. CASE NextCandle
  <2>1. PICK c \in Shapes \cup {Missing} : candles' = Append(candles, c)
    BY <1>2 DEF NextCandle
  <2>2. /\ candles' \in Series /\ Len(candles') = Len(candles) + 1
        /\ \A i \in DOMAIN candles : i \in DOMAIN candles' /\ candles'[i] = candles[i]
    BY <1>0, <2>1 DEF Series
  <2>3. Grows(candles, candles')
    BY <1>0, <2>2 DEF Grows, Present
  <2> QED BY <1>2, <2>3, GrowthKeeps DEF NextCandle
<1>3. CASE Revise
  <2>1. PICK c \in Shapes : candles' = [candles EXCEPT ![Len(candles)] = c]
    BY <1>3 DEF Revise
  <2>2. CASE candles = <<>>
    <3>1. candles' = candles
      BY <2>1, <2>2
    <3>2. Grows(candles, candles')
      BY <1>0, <3>1 DEF Grows
    <3> QED BY <1>3, <3>2, GrowthKeeps DEF Revise
  <2>3. CASE candles # <<>>
    <3>1. Len(candles) \in DOMAIN candles
      BY <1>0, <2>3
    <3> QED BY <1>1, <1>3, <2>1, <3>1, GrowthKeeps DEF Revise
  <2> QED BY <2>2, <2>3
<1>4. CASE Backfill
  <2>1. PICK i \in DOMAIN candles, c \in Shapes :
          /\ candles' = [candles EXCEPT ![i] = c]
          /\ UNCHANGED <<row, books, current, job, creates, crashes, errors>>
    BY <1>4 DEF Backfill
  <2> QED BY <1>1, <2>1, GrowthKeeps
<1> QED BY <1>2, <1>3, <1>4

\* A step of coroutine j that leaves the candles alone.
LEMMA JobsKeep ==
  ASSUME PaperInv, candles' = candles, NEW n \in Nat, n = Len(books'), Len(books) <= n,
         NEW j \in Jobs, job' \in [Jobs -> JobRow], \A k \in Jobs \ {j} : job'[k] = job[k],
         JobGood(job'[j], candles, n)
  PROVE  JobsGood'
<1>1. ASSUME NEW k \in Jobs PROVE JobGood(job'[k], candles, n)
  <2>1. CASE k = j
    BY <2>1
  <2>2. CASE k # j
    <3>1. job'[k] = job[k] /\ JobGood(job[k], candles, Len(books)) /\ Len(books) \in Nat
      BY <2>2 DEF PaperInv, JobsGood, BooksGood
    <3>2. \A b \in 1..Len(books) : b \in 1..n
      BY <3>1
    <3> QED BY <3>1, <3>2 DEF JobGood
  <2> QED BY <2>1, <2>2
<1> QED BY <1>1 DEF JobsGood

\* One that goes to another step, with a book if that step needs it.
LEMMA GotoKeeps ==
  ASSUME PaperInv, candles' = candles, Len(books') = Len(books), NEW j \in Jobs,
         NEW pc \in Pcs, pc \in Holding => job[j].pc \in Holding, Goto(j, pc)
  PROVE  JobsGood'
<1>1. /\ job \in [Jobs -> JobRow] /\ JobGood(job[j], candles, Len(books)) /\ Len(books) \in Nat
      /\ job[j] \in JobRow
  BY DEF PaperInv, JobsGood, BooksGood
<1> DEFINE new == [job[j] EXCEPT !.pc = pc]
<1>2. job' = [job EXCEPT ![j] = new]
  BY DEF Goto
<1>3. /\ new \in JobRow /\ new.pc = pc /\ new.bars = job[j].bars /\ new.history = job[j].history
      /\ new.start = job[j].start /\ new.book = job[j].book
  BY <1>1 DEF JobRow, Pcs
<1> HIDE DEF new
<1>4. JobGood(new, candles, Len(books))
  BY <1>1, <1>3 DEF JobGood
<1>5. job' \in [Jobs -> JobRow] /\ job'[j] = new /\ \A k \in Jobs \ {j} : job'[k] = job[k]
  BY <1>1, <1>2, <1>3
<1>6. JobGood(job'[j], candles, Len(books')) /\ Len(books') \in Nat /\ Len(books) <= Len(books')
  BY <1>1, <1>4, <1>5
<1> QED BY <1>5, <1>6, JobsKeep

\* One that ends.
LEMMA EndKeeps ==
  ASSUME PaperInv, candles' = candles, Len(books') = Len(books), NEW j \in Jobs, End(j)
  PROVE  JobsGood'
<1>1. job \in [Jobs -> JobRow] /\ Len(books) \in Nat /\ candles \in Series
  BY DEF PaperInv, JobsGood, BooksGood
<1>2. Idle \in JobRow /\ JobGood(Idle, candles, Len(books))
  BY <1>1, IdleIs
<1>3. job' \in [Jobs -> JobRow] /\ job'[j] = Idle /\ \A k \in Jobs \ {j} : job'[k] = job[k]
  BY <1>1, <1>2 DEF End
<1>4. JobGood(job'[j], candles, Len(books')) /\ Len(books') \in Nat /\ Len(books) <= Len(books')
  BY <1>1, <1>2, <1>3
<1> QED BY <1>3, <1>4, JobsKeep

\* Bars are fed to a book.
LEMMA FeedKeeps ==
  ASSUME PaperInv, candles' = candles, current' = current, NEW k \in DOMAIN books, NEW bars,
         Tape(bars, Present(candles)), FeedNew(k, bars)
  PROVE  BooksGood' /\ FlatKept /\ Len(books') = Len(books)
<1> DEFINE mem == books[k]
           more == After(bars, mem.last)
           new == Advance(mem, more)
<1>1. /\ candles \in Series /\ books \in Seq(Mems) /\ BookGood(mem, candles)
      /\ \A i \in DOMAIN books : BookGood(books[i], candles)
      /\ current \in 0..Len(books)
  BY DEF PaperInv, BooksGood
<1>2. books' = [books EXCEPT ![k] = new]
  BY DEF FeedNew
<1>3. Tape(more, Present(candles)) /\ \A i \in DOMAIN more : more[i].ts \in Nat \ (0..mem.last)
  BY DuringTape DEF After
<1> HIDE DEF more
<1>4. BookGood(new, candles) /\ (KilledFlat(mem.rt) => KilledFlat(new.rt))
  BY <1>1, <1>3, AdvanceIs
<1> HIDE DEF new
<1>5. new \in Mems
  BY <1>4 DEF BookGood
<1>6. /\ books' \in Seq(Mems) /\ DOMAIN books' = DOMAIN books /\ Len(books') = Len(books)
      /\ books'[k] = new /\ \A i \in DOMAIN books : i # k => books'[i] = books[i]
  BY <1>1, <1>2, <1>5
<1>7. BooksGood'
  BY <1>1, <1>4, <1>6 DEF BooksGood
<1>8. FlatKept
  BY <1>4, <1>6 DEF FlatKept
<1> QED BY <1>6, <1>7, <1>8

\* Nothing is done to the books.
LEMMA BooksKeep ==
  ASSUME PaperInv, candles' = candles, current' = current, books' = books
  PROVE  BooksGood' /\ FlatKept /\ Len(books') = Len(books)
BY DEF PaperInv, BooksGood, FlatKept

\* Nor to the row.
LEMMA RowKeeps ==
  ASSUME PaperInv, candles' = candles, row' = row
  PROVE  RowGood'
BY DEF PaperInv, RowGood

\* The row goes to another status.
LEMMA StatusKeeps ==
  ASSUME PaperInv, candles' = candles, NEW s \in Statuses, row' = [row EXCEPT !.status = s]
  PROVE  RowGood'
BY DEF PaperInv, RowGood, Rows

\* What is saved of a book.
LEMMA SaveKeeps ==
  ASSUME PaperInv, candles' = candles, NEW k \in DOMAIN books,
         row' = [row EXCEPT !.saved = Saved(books[k])]
  PROVE  RowGood'
<1>1. BookGood(books[k], candles)
  BY DEF PaperInv, BooksGood
<1>2. Saved(books[k]) \in Saves
  <2> DEFINE mem == books[k]
  <2>1. /\ mem \in Mems /\ mem.last \in Nat /\ mem.rt \in Runtimes /\ mem.rt.curve \in Nat
        /\ Len(mem.rt.fills) \in Nat
    BY <1>1 DEF BookGood, Mems, Runtimes
  <2>2. mem.rt.pf \in Book
    BY <2>1 DEF Runtimes
  <2>3. mem.rt.pf.net \in Int /\ mem.rt.pf.cash \in Int /\ mem.rt.pf.killed \in BOOLEAN
    BY <2>2 DEF Book
  <2> HIDE DEF mem
  <2>4. Saved(mem) \in Saves
    BY <2>1, <2>3 DEF Saved, Saves
  <2> QED BY <2>4 DEF mem
<1> QED BY <1>2 DEF PaperInv, RowGood, Rows

-----------------------------------------------------------------------------
(* The steps. *)

\* The loop feeds the book in use, or sets out to build one.
LEMMA JobTickStep == ASSUME PaperInv, Tick PROVE PaperInv' /\ FlatKept
<1> DEFINE x == job["loop"]
           y == job'["loop"]
<1>1. /\ UNCHANGED <<candles, row, current>> /\ TickGoes /\ "loop" \in Jobs
      /\ IF current = NoBook THEN UNCHANGED books ELSE FeedNew(current, Fetched)
  BY DEF Tick, Jobs
<1>2. /\ candles \in Series /\ job \in [Jobs -> JobRow] /\ books \in Seq(Mems)
      /\ current \in 0..Len(books) /\ Len(books) \in Nat /\ DOMAIN books = 1..Len(books)
      /\ JobGood(x, candles, Len(books)) /\ x \in JobRow
  BY <1>1 DEF PaperInv, JobsGood, BooksGood
<1>3. Tape(Fetched, Present(candles))
  BY <1>2, FetchedIs
<1>4. BooksGood' /\ FlatKept /\ Len(books') = Len(books)
  <2>1. CASE current = NoBook
    BY <1>1, <2>1, BooksKeep
  <2>2. CASE current # NoBook
    <3>1. current \in DOMAIN books
      BY <1>2, <2>2 DEF NoBook
    <3> QED BY <1>1, <1>3, <2>2, <3>1, FeedKeeps
  <2> QED BY <2>1, <2>2
<1> DEFINE bars == IF current = NoBook THEN Fetched ELSE <<>>
           pc == IF current = NoBook THEN "build" ELSE "persist"
<1>5. Tape(bars, Present(candles)) /\ bars \in Seq(BarRow)
  BY <1>2, <1>3, EmptyTape DEF Tape
<1>6. pc \in Pcs /\ (pc \in Holding => current \in 1..Len(books)) /\ current \in Nat
  BY <1>2 DEF Pcs, Holding, NoBook
<1>7. job' = [job EXCEPT !["loop"] = [x EXCEPT !.bars = bars, !.pc = pc, !.book = current]]
  BY <1>1, <1>2 DEF TickGoes
<1> HIDE DEF bars, pc
<1> DEFINE new == [x EXCEPT !.bars = bars, !.pc = pc, !.book = current]
<1>8. /\ new \in JobRow /\ new.bars = bars /\ new.pc = pc /\ new.book = current
      /\ new.history = x.history /\ new.start = x.start
  BY <1>2, <1>5, <1>6 DEF JobRow, Pcs
<1> HIDE DEF new
<1>9. JobGood(new, candles, Len(books'))
  BY <1>2, <1>4, <1>5, <1>6, <1>8 DEF JobGood
<1>10. job' \in [Jobs -> JobRow] /\ y = new /\ \A k \in Jobs \ {"loop"} : job'[k] = job[k]
  BY <1>1, <1>2, <1>7, <1>8 DEF new
<1>11. JobsGood'
  <2>1. /\ Len(books') \in Nat /\ Len(books) <= Len(books')
        /\ JobGood(job'["loop"], candles, Len(books'))
    BY <1>2, <1>4, <1>9, <1>10
  <2> QED BY <1>1, <1>10, <2>1, JobsKeep
<1> QED BY <1>1, <1>2, <1>4, <1>11, RowKeeps DEF PaperInv

\* It feeds the book it built.
LEMMA FeedStep == ASSUME PaperInv, Feed PROVE PaperInv' /\ FlatKept
<1> DEFINE x == job["loop"]
<1>1. /\ x.pc = "feed" /\ Goto("loop", "persist") /\ FeedNew(x.book, x.bars)
      /\ UNCHANGED <<candles, row, current>> /\ "loop" \in Jobs
  BY DEF Feed, FeedGoes, Jobs
<1>2. x.book \in DOMAIN books /\ Tape(x.bars, Present(candles))
  BY <1>1 DEF PaperInv, JobsGood, JobGood, BooksGood, Holding
<1>3. BooksGood' /\ FlatKept /\ Len(books') = Len(books)
  BY <1>1, <1>2, FeedKeeps
<1>4. JobsGood'
  <2>1. "persist" \in Pcs /\ x.pc \in Holding
    BY <1>1 DEF Pcs, Holding
  <2> QED BY <1>1, <1>3, <2>1, GotoKeeps
<1> QED BY <1>1, <1>3, <1>4, RowKeeps DEF PaperInv

\* It saves the one it fed.
LEMMA PersistStep == ASSUME PaperInv, Persist PROVE PaperInv' /\ FlatKept
<1> DEFINE x == job["loop"]
<1>1. /\ x.pc = "persist" /\ row' = [row EXCEPT !.saved = Saved(books[x.book])] /\ End("loop")
      /\ UNCHANGED <<candles, books, current>> /\ "loop" \in Jobs
  BY DEF Persist, Jobs
<1>2. x.book \in DOMAIN books
  BY <1>1 DEF PaperInv, JobsGood, JobGood, BooksGood, Holding
<1>3. RowGood'
  BY <1>1, <1>2, SaveKeeps
<1> QED BY <1>1, <1>3, BooksKeep, EndKeeps DEF PaperInv

\* A build reads the row and the bars,
LEMMA BuildReadStep ==
  ASSUME PaperInv, NEW j \in Jobs, BuildRead(j) PROVE PaperInv' /\ FlatKept
<1> DEFINE x == job[j]
           recovering == row.start # NoStart
           start == StartBar(Fetched)
           blocked == recovering /\ MaxConsecutiveGap(After(Fetched, start)) > MaxGap
           pc == IF blocked THEN "block" ELSE "install"
           new == [x EXCEPT !.history = Fetched, !.start = start, !.recovering = recovering,
                            !.pc = pc]
<1>1. /\ x.pc = "build" /\ UNCHANGED <<candles, row, books, current>>
      /\ IF Len(Fetched) < 2 THEN End(j)
         ELSE job' = [job EXCEPT ![j].history = Fetched, ![j].start = start,
                                 ![j].recovering = recovering, ![j].pc = pc]
  BY DEF BuildRead
<1>2. BooksGood' /\ FlatKept /\ RowGood' /\ candles \in Series
  BY <1>1, BooksKeep, RowKeeps DEF PaperInv
<1>3. CASE Len(Fetched) < 2
  BY <1>1, <1>2, <1>3, EndKeeps DEF PaperInv
<1>4. CASE ~ (Len(Fetched) < 2)
  <2>1. /\ job \in [Jobs -> JobRow] /\ x \in JobRow /\ JobGood(x, candles, Len(books))
        /\ Len(books) \in Nat
    BY DEF PaperInv, JobsGood, BooksGood
  <2>2. Tape(Fetched, Present(candles)) /\ Present(candles) \in SUBSET (1..Len(candles))
    BY <1>2, FetchedIs
  <2>3. Fetched \in Seq(BarRow)
    BY <2>2 DEF Tape
  <2>4. start \in Nat /\ start <= Len(candles)
    <3>1. row.start \in Nat /\ row.start <= Len(candles)
      BY DEF PaperInv, RowGood, Rows
    <3>2. Len(Fetched) \in DOMAIN Fetched
      BY <1>4, <2>3
    <3>3. Last(Fetched).ts \in Present(candles)
      BY <2>2, <3>2 DEF Tape, Last
    <3>4. Last(Fetched).ts \in Nat /\ Last(Fetched).ts <= Len(candles)
      BY <2>2, <3>3
    <3> QED BY <3>1, <3>4 DEF StartBar
  <2>5. recovering \in BOOLEAN /\ pc \in Pcs /\ pc \notin Holding
    BY DEF Pcs, Holding
  <2>6. job' = [job EXCEPT ![j] = new]
    BY <1>1, <1>4, <2>1
  <2> HIDE DEF start, recovering, pc
  <2>7. /\ new \in JobRow /\ new.history = Fetched /\ new.start = start /\ new.pc = pc
        /\ new.bars = x.bars
    BY <2>1, <2>3, <2>4, <2>5 DEF JobRow, Pcs
  <2> HIDE DEF new
  <2>8. JobGood(new, candles, Len(books))
    BY <2>1, <2>2, <2>4, <2>5, <2>7 DEF JobGood
  <2>9. job' \in [Jobs -> JobRow] /\ job'[j] = new /\ \A k \in Jobs \ {j} : job'[k] = job[k]
    BY <2>1, <2>6, <2>7
  <2>10. JobsGood'
    <3>1. /\ books' = books /\ candles' = candles /\ Len(books') = Len(books)
          /\ Len(books) <= Len(books') /\ Len(books') \in Nat
          /\ JobGood(job'[j], candles, Len(books'))
      BY <1>1, <2>1, <2>8, <2>9
    <3> QED BY <2>9, <3>1, JobsKeep
  <2> QED BY <1>1, <1>2, <2>10 DEF PaperInv
<1> QED BY <1>3, <1>4

\* installs a book given the bars since its start,
LEMMA InstallStep ==
  ASSUME PaperInv, NEW j \in Jobs, Install(j) PROVE PaperInv' /\ FlatKept
<1> DEFINE x == job[j]
           n == Len(books) + 1
           fresh == [rt |-> Primed(row.strategy, UpTo(x.history, x.start)),
                     start |-> x.start, last |-> x.start]
           mem == Advance(fresh, After(x.history, x.start))
           new == [x EXCEPT !.book = n, !.history = <<>>, !.pc = "baseline"]
<1>1. /\ InstallGoes(j) /\ books' = Append(books, mem) /\ current' = n
      /\ UNCHANGED <<candles, row>>
  BY DEF Install
<1>2. /\ candles \in Series /\ job \in [Jobs -> JobRow] /\ x \in JobRow
      /\ JobGood(x, candles, Len(books)) /\ books \in Seq(Mems) /\ Len(books) \in Nat
      /\ row.strategy \in Strategies /\ \A i \in DOMAIN books : BookGood(books[i], candles)
  BY DEF PaperInv, JobsGood, BooksGood, RowGood, Rows
<1>3. x.start \in Nat /\ x.start <= Len(candles) /\ Tape(x.history, Present(candles))
  BY <1>2 DEF JobRow, JobGood
<1>4. BookGood(fresh, candles) /\ fresh.last = x.start
  <2>1. Tape(UpTo(x.history, x.start), Present(candles))
    BY <1>3, DuringTape DEF UpTo
  <2> QED BY <1>2, <1>3, <2>1, FreshIs
<1> HIDE DEF fresh
<1>5. BookGood(mem, candles)
  <2>1. /\ Tape(After(x.history, x.start), Present(candles))
        /\ \A i \in DOMAIN After(x.history, x.start) :
             After(x.history, x.start)[i].ts \in Nat \ (0..fresh.last)
    BY <1>3, <1>4, DuringTape DEF After
  <2> QED BY <1>2, <1>4, <2>1, AdvanceIs
<1> HIDE DEF mem
<1>6. mem \in Mems
  BY <1>5 DEF BookGood
<1>7. /\ books' \in Seq(Mems) /\ Len(books') = n /\ n \in Nat /\ DOMAIN books' = 1..n
      /\ DOMAIN books = 1..Len(books) /\ books'[n] = mem
      /\ \A i \in DOMAIN books : books'[i] = books[i]
  BY <1>1, <1>2, <1>6
<1>8. BooksGood' /\ FlatKept
  <2>1. \A i \in 1..n : i \in DOMAIN books \/ i = n
    BY <1>2, <1>7
  <2>2. \A i \in DOMAIN books' : BookGood(books'[i], candles)
    BY <1>2, <1>5, <1>7, <2>1
  <2>3. current' \in 0..Len(books')
    BY <1>1, <1>7
  <2>4. BooksGood'
    BY <1>1, <1>7, <2>2, <2>3 DEF BooksGood
  <2>5. FlatKept
    BY <1>7 DEF FlatKept
  <2> QED BY <2>4, <2>5
<1>9. job' = [job EXCEPT ![j] = new]
  BY <1>1, <1>2 DEF InstallGoes
<1>10. n \in Nat /\ n \in 1..n /\ Tape(<<>>, Present(candles)) /\ <<>> \in Seq(BarRow)
  BY <1>2, EmptyTape
<1> HIDE DEF n
<1>11. /\ new \in JobRow /\ new.book = n /\ new.history = <<>> /\ new.pc = "baseline"
       /\ new.bars = x.bars /\ new.start = x.start
  BY <1>2, <1>10 DEF JobRow, Pcs, Holding
<1> HIDE DEF new
<1>12. JobGood(new, candles, n)
  BY <1>2, <1>10, <1>11 DEF JobGood
<1>13. job' \in [Jobs -> JobRow] /\ job'[j] = new /\ \A k \in Jobs \ {j} : job'[k] = job[k]
  BY <1>2, <1>9, <1>11
<1>14. JobsGood'
  <2>1. Len(books) <= n /\ n = Len(books') /\ candles' = candles /\ JobGood(job'[j], candles, n)
    BY <1>1, <1>2, <1>7, <1>12, <1>13 DEF n
  <2> QED BY <1>10, <1>13, <2>1, JobsKeep
<1> QED BY <1>1, <1>2, <1>8, <1>14, RowKeeps DEF PaperInv

\* and writes what it started from.
LEMMA BuildStep ==
  ASSUME PaperInv, NEW j \in Jobs, Build(j) PROVE PaperInv' /\ FlatKept
<1> DEFINE x == job[j]
<1>0. x.pc \in Holding => x.book \in DOMAIN books
  BY DEF PaperInv, JobsGood, JobGood, BooksGood
<1>1. CASE Block(j)
  <2>1. "recovery_blocked" \in Statuses
    BY DEF Statuses
  <2> QED BY <1>1, <2>1, StatusKeeps, BooksKeep, EndKeeps DEF Block, PaperInv
<1>2. CASE Baseline(j)
  <2>1. /\ x.pc = "baseline" /\ row' = [row EXCEPT !.start = x.start] /\ Goto(j, "save")
        /\ UNCHANGED <<candles, books, current>>
    BY <1>2 DEF Baseline
  <2>2. x.start \in Nat /\ x.start <= Len(candles)
    BY DEF PaperInv, JobsGood, JobGood, JobRow
  <2>3. RowGood'
    BY <2>1, <2>2 DEF PaperInv, RowGood, Rows
  <2>4. JobsGood'
    <3>1. "save" \in Pcs /\ x.pc \in Holding
      BY <2>1 DEF Pcs, Holding
    <3> QED BY <2>1, <3>1, GotoKeeps
  <2> QED BY <2>1, <2>3, <2>4, BooksKeep DEF PaperInv
<1>3. ASSUME x.pc \in {"save", "resume"}, Return(j), UNCHANGED <<candles, books, current>>
      PROVE  JobsGood'
  <2>1. CASE j = "loop"
    <3>1. "feed" \in Pcs /\ x.pc \in Holding
      BY <1>3 DEF Pcs, Holding
    <3> QED BY <1>3, <2>1, <3>1, GotoKeeps DEF Return
  <2>2. CASE j # "loop"
    BY <1>3, <2>2, EndKeeps DEF Return
  <2> QED BY <2>1, <2>2
<1>4. CASE SaveBuilt(j)
  <2>1. /\ x.pc = "save" /\ row' = [row EXCEPT !.saved = Saved(books[x.book])]
        /\ IF x.recovering THEN Goto(j, "resume") ELSE Return(j)
        /\ UNCHANGED <<candles, books, current>>
    BY <1>4 DEF SaveBuilt
  <2>2. RowGood'
    <3>1. x.book \in DOMAIN books
      BY <1>0, <2>1 DEF Holding
    <3> QED BY <2>1, <3>1, SaveKeeps
  <2>3. JobsGood'
    <3>1. "resume" \in Pcs /\ x.pc \in Holding
      BY <2>1 DEF Pcs, Holding
    <3>2. CASE x.recovering
      BY <2>1, <3>1, <3>2, GotoKeeps
    <3>3. CASE ~x.recovering
      BY <1>3, <2>1, <3>3
    <3> QED BY <3>2, <3>3
  <2> QED BY <2>1, <2>2, <2>3, BooksKeep DEF PaperInv
<1>5. CASE Resume(j)
  <2>1. /\ x.pc = "resume" /\ row' = [row EXCEPT !.status = "running"] /\ Return(j)
        /\ UNCHANGED <<candles, books, current>>
    BY <1>5 DEF Resume
  <2>2. RowGood'
    <3>1. "running" \in Statuses
      BY DEF Statuses
    <3> QED BY <2>1, <3>1, StatusKeeps
  <2> QED BY <1>3, <2>1, <2>2, BooksKeep DEF PaperInv
<1> QED BY <1>1, <1>2, <1>4, <1>5, BuildReadStep, InstallStep DEF Build

\* Requests, failures and restarts.
LEMMA OtherStep ==
  ASSUME PaperInv, Create \/ StopSession \/ (\E j \in Jobs : Fail(j)) \/ Crash
  PROVE  PaperInv' /\ FlatKept
<1>1. CASE Create
  <2>1. /\ job["request"].pc = "idle" /\ row' = [row EXCEPT !.status = "running"]
        /\ Goto("request", "build") /\ UNCHANGED <<candles, books, current>>
        /\ "request" \in Jobs
    BY <1>1 DEF Create, Jobs
  <2>2. "running" \in Statuses /\ "build" \in Pcs /\ "build" \notin Holding
    BY DEF Statuses, Pcs, Holding
  <2>3. JobsGood'
    BY <2>1, <2>2, GotoKeeps
  <2> QED BY <2>1, <2>2, <2>3, StatusKeeps, BooksKeep DEF PaperInv
<1>2. CASE StopSession
  <2>1. "stopped" \in Statuses
    BY DEF Statuses
  <2>2. RowGood'
    BY <1>2, <2>1, StatusKeeps DEF StopSession
  <2>3. JobsGood'
    BY <1>2 DEF StopSession, PaperInv, JobsGood
  <2> QED BY <1>2, <2>2, <2>3, BooksKeep DEF StopSession, PaperInv
<1>3. CASE \E j \in Jobs : Fail(j)
  <2>1. PICK j \in Jobs : End(j) /\ UNCHANGED <<candles, row, books, current>>
    BY <1>3 DEF Fail
  <2> QED BY <2>1, RowKeeps, BooksKeep, EndKeeps DEF PaperInv
<1>4. CASE Crash
  <2>1. /\ books' = <<>> /\ current' = NoBook /\ job' = [j \in Jobs |-> Idle]
        /\ UNCHANGED <<candles, row>>
    BY <1>4 DEF Crash
  <2>2. BooksGood' /\ FlatKept
    <3>1. <<>> \in Seq(Mems) /\ DOMAIN <<>> = {} /\ 0 \in 0..Len(<<>>)
      OBVIOUS
    <3> QED BY <2>1, <3>1 DEF BooksGood, FlatKept, NoBook
  <2>3. JobsGood'
    <3>1. candles \in Series /\ Len(<<>>) \in Nat
      BY DEF PaperInv
    <3>2. Idle \in JobRow /\ JobGood(Idle, candles, Len(<<>>))
      BY <3>1, IdleIs
    <3> QED BY <2>1, <3>2 DEF JobsGood
  <2> QED BY <2>1, <2>2, <2>3, RowKeeps DEF PaperInv
<1> QED BY <1>1, <1>2, <1>3, <1>4

-----------------------------------------------------------------------------
\* It holds at first.
LEMMA PaperInit == Init => PaperInv
<1> SUFFICES ASSUME Init PROVE PaperInv
  OBVIOUS
<1>1. candles \in Series /\ candles = Warmup /\ Len(candles) \in Nat
  BY CandlesAssumption DEF Init, Series
<1>2. RowGood
  <2>1. PICK s \in Strategies :
          row = [status |-> "none", strategy |-> s, start |-> NoStart, saved |-> Unsaved]
    BY DEF Init
  <2>2. Unsaved \in Saves /\ NoStart \in Nat /\ "none" \in Statuses /\ NoStart <= Len(candles)
    BY <1>1 DEF Unsaved, Saves, NoStart, Statuses
  <2> QED BY <2>1, <2>2 DEF RowGood, Rows
<1>3. BooksGood
  <2>1. <<>> \in Seq(Mems) /\ DOMAIN <<>> = {} /\ 0 \in 0..Len(<<>>)
    OBVIOUS
  <2> QED BY <2>1 DEF Init, BooksGood, NoBook
<1>4. JobsGood
  <2>1. Len(<<>>) \in Nat
    OBVIOUS
  <2>2. Idle \in JobRow /\ JobGood(Idle, candles, Len(<<>>))
    BY <1>1, <2>1, IdleIs
  <2> QED BY <2>2 DEF Init, JobsGood
<1> QED BY <1>1, <1>2, <1>3, <1>4 DEF PaperInv

\* Every step keeps it.
LEMMA PaperNext == PaperInv /\ [Next]_vars => PaperInv' /\ FlatKept
<1> SUFFICES ASSUME PaperInv, [Next]_vars PROVE PaperInv' /\ FlatKept
  OBVIOUS
<1>1. CASE NextCandle \/ Revise \/ Backfill
  BY <1>1, SeriesStep
<1>2. CASE Loop
  <2>1. "loop" \in Jobs
    BY DEF Jobs
  <2> QED BY <1>2, <2>1, JobTickStep, FeedStep, PersistStep, BuildStep DEF Loop
<1>3. CASE Build("request")
  <2>1. "request" \in Jobs
    BY DEF Jobs
  <2> QED BY <1>3, <2>1, BuildStep
<1>4. CASE Create \/ StopSession \/ (\E j \in Jobs : Fail(j)) \/ Crash
  BY <1>4, OtherStep
<1>5. CASE UNCHANGED vars
  <2>1. UNCHANGED <<candles, row, books, current, job>>
    BY <1>5 DEF vars
  <2>2. JobsGood'
    BY <2>1 DEF PaperInv, JobsGood
  <2> QED BY <2>1, <2>2, RowKeeps, BooksKeep DEF PaperInv
<1> QED BY <1>1, <1>2, <1>3, <1>4, <1>5 DEF Next

\* live_paper.py: in every state the books are the sums of their fills, on candles that are
\* there, and the coroutines hold books and bars of this worker.
THEOREM PaperInvariant == Spec => []PaperInv
<1>1. PaperInv /\ [Next]_vars => PaperInv'
  BY PaperNext
<1> QED BY <1>1, PaperInit, PTL DEF Spec

\* portfolio.py:86-121, for any strategies' orders, candles, restarts and interleavings: the
\* position of each book is the sum of its fills, the cash what they cost.
THEOREM BooksAlwaysBalance == Spec => []BooksBalance
<1>1. PaperInv => BooksBalance
  BY DEF PaperInv, BooksGood, BookGood, Sound, Balanced, BooksBalance
<1> QED BY <1>1, PaperInvariant, PTL

\* live_paper.py:542-556, paper_runtime.py: a book is given each bar after its start at most
\* once, and its orders fill on bars given, market orders later than they were placed.
THEOREM BarsAreFedOnce == Spec => []FedOnce
<1>1. PaperInv => FedOnce
  BY DEF PaperInv, BooksGood, BookGood, Sound, OnTime, Given, FedOnce
<1> QED BY <1>1, PaperInvariant, PTL

\* portfolio.py:152-154, paper_runtime.py:520-528: a killed book that is flat stays flat,
\* whatever rested when it was killed.
THEOREM KilledBooksStayFlat == Spec => KilledStaysFlat
<1>1. FlatKept => \A k \in DOMAIN books \cap DOMAIN books' :
                    books[k].rt.pf.killed /\ books[k].rt.pf.net = 0 => books'[k].rt.pf.net = 0
  BY DEF FlatKept, KilledFlat
<1>2. PaperInv /\ [Next]_vars =>
        [\A k \in DOMAIN books \cap DOMAIN books' :
           books[k].rt.pf.killed /\ books[k].rt.pf.net = 0 => books'[k].rt.pf.net = 0]_vars
  BY <1>1, PaperNext
<1> QED BY <1>2, PaperInvariant, PTL DEF Spec, KilledStaysFlat

-----------------------------------------------------------------------------
(* The basket engine: what a run over one more column repeats.             *)
(* Sequences that go on.                                                   *)

\* t goes on where s ends.
Continues(s, t) == Len(s) <= Len(t) /\ \A i \in 1..Len(s) : t[i] = s[i]

\* A sequence that goes on where another ends has it as a prefix.
LEMMA PrefixIs ==
  ASSUME NEW S, NEW s \in Seq(S), NEW t \in Seq(S), Continues(s, t)
  PROVE  IsPrefix(s, t)
<1>1. Len(s) \in Nat /\ Len(t) \in Nat /\ Len(s) <= Len(t)
  BY DEF Continues
<1>2. /\ SubSeq(s, 1, Len(s)) = [i \in 1..Len(s) |-> s[i]]
      /\ SubSeq(t, 1, Len(s)) = [i \in 1..Len(s) |-> t[i]]
  BY <1>1
<1>3. \A i \in 1..Len(s) : s[i] = t[i]
  BY DEF Continues
<1>4. SubSeq(s, 1, Len(s)) = SubSeq(t, 1, Len(s))
  BY <1>2, <1>3
<1> QED BY <1>1, <1>4 DEF IsPrefix

\* Going on is transitive.
LEMMA ContinuesOn ==
  ASSUME NEW S, NEW s \in Seq(S), NEW t \in Seq(S), NEW u \in Seq(S),
         Continues(s, t), Continues(t, u)
  PROVE  Continues(s, u)
<1>1. {Len(s), Len(t), Len(u)} \subseteq Nat /\ Len(s) <= Len(t) /\ Len(t) <= Len(u)
  BY DEF Continues
<1>2. \A i \in 1..Len(s) : i \in 1..Len(t)
  BY <1>1
<1> QED BY <1>1, <1>2 DEF Continues

\* A sequence goes on into itself and into itself with one more element.
LEMMA ContinuesOne ==
  ASSUME NEW S, NEW s \in Seq(S), NEW x \in S
  PROVE  Append(s, x) \in Seq(S) /\ Continues(s, s) /\ Continues(s, Append(s, x))
  BY DEF Continues

-----------------------------------------------------------------------------
(* The candles of a tape.                                                  *)

Candle == [open : Int, close : Int]
Column == [ts : Nat, bar : [DOMAIN Legs -> LegBars \cup {NoBar}]]
Tapes == Seq(Column)

\* A candle of a leg, and the lack of one, have an open and a close.
LEMMA CandleIs == LegBars \cup {NoBar} \subseteq Candle
  BY LegBarsAssumption DEF Candle, NoBar

\* The columns up to i that have a candle of the leg.
Of(T, l, i) == {j \in 1..i : T[j].bar[l] # NoBar}

\* The column of a leg's last candle has one, and is 0 if none of the columns does.
LEMMA ColumnIs ==
  ASSUME NEW T, NEW l, NEW i \in Int
  PROVE  /\ ColumnOf(T, l, i) \in Of(T, l, i) \cup {0}
         /\ ColumnOf(T, l, i) = 0 <=> Of(T, l, i) = {}
<1> DEFINE N == IF i < 0 THEN 0 ELSE i
           S == Of(T, l, i) \cup {0}
<1>1. N \in Nat /\ S \in SUBSET (0..N) /\ S # {}
  BY DEF Of
<1>2. ColumnOf(T, l, i) = Max(S)
  BY DEF ColumnOf, Of
<1>3. \A j \in Of(T, l, i) : j \in Nat /\ j >= 1
  BY DEF Of
<1> HIDE DEF S, N
<1>4. Max(S) \in S /\ \A m \in S : Max(S) >= m
  BY <1>1, MaxIs
<1>5. ASSUME Max(S) = 0, NEW j \in Of(T, l, i) PROVE FALSE
  <2>1. j \in S
    BY <1>5 DEF S
  <2> QED BY <1>3, <1>4, <1>5, <2>1
<1>6. Of(T, l, i) = {} => Max(S) = 0
  BY <1>4 DEF S
<1> QED BY <1>2, <1>4, <1>5, <1>6 DEF S

\* The candle of a column is one of the tape, and there is one from the leg's first on.
LEMMA BarIs ==
  ASSUME NEW T \in Tapes, NEW l \in DOMAIN Legs, NEW i \in Int, i <= Len(T)
  PROVE  /\ BarAt(T, l, i) \in Candle
         /\ BarAt(T, l, i) = NoBar <=> Of(T, l, i) = {}
         /\ BarAt(T, l, i) # NoBar => ColumnOf(T, l, i) \in 1..i
<1> DEFINE c == ColumnOf(T, l, i)
<1>1. c \in Of(T, l, i) \cup {0} /\ (c = 0 <=> Of(T, l, i) = {})
  BY ColumnIs
<1>2. Len(T) \in Nat /\ DOMAIN T = 1..Len(T)
  BY DEF Tapes
<1>3. BarAt(T, l, i) = IF c = 0 THEN NoBar ELSE T[c].bar[l]
  BY DEF BarAt
<1> HIDE DEF c
<1>4. NoBar \in Candle
  BY CandleIs
<1>5. CASE c = 0
  BY <1>1, <1>3, <1>4, <1>5
<1>6. CASE c # 0
  <2>1. c \in 1..i /\ T[c].bar[l] # NoBar /\ c \in 1..Len(T)
    BY <1>1, <1>2, <1>6 DEF Of
  <2>2. T[c] \in Column
    BY <1>2, <2>1 DEF Tapes
  <2>3. T[c].bar[l] \in Candle
    BY <2>2, CandleIs DEF Column
  <2> QED BY <1>1, <1>3, <1>6, <2>1, <2>3 DEF c
<1> QED BY <1>5, <1>6

\* A leg that has a candle at a column has one at every later column.
LEMMA BarStays ==
  ASSUME NEW T \in Tapes, NEW l \in DOMAIN Legs, NEW i \in Int, NEW j \in Int, i <= j,
         j <= Len(T), BarAt(T, l, i) # NoBar
  PROVE  BarAt(T, l, j) # NoBar
<1>1. Len(T) \in Nat /\ i <= Len(T)
  BY DEF Tapes
<1>2. Of(T, l, i) \subseteq Of(T, l, j)
  BY DEF Of
<1> QED BY <1>1, <1>2, BarIs

\* The marks of a column are numbers.
LEMMA MarksAre ==
  ASSUME NEW T \in Tapes, NEW i \in Int, i <= Len(T)
  PROVE  MarksAt(T, i) \in [DOMAIN Legs -> Int]
<1>1. \A l \in DOMAIN Legs : BarAt(T, l, i).close \in Int
  BY BarIs DEF Candle
<1> QED BY <1>1 DEF MarksAt

\* A fill price is a number.
LEMMA PriceIs ==
  ASSUME NEW T \in Tapes, NEW l \in DOMAIN Legs, NEW i \in Int, i <= Len(T), NEW side \in Int
  PROVE  FillPrice(T, l, i, side) \in Int
<1>1. BarAt(T, l, i).open \in Int
  BY BarIs DEF Candle
<1>2. LegSlip \in Int /\ OffHoursSlip \in Int
  BY BasketAssumption
<1>3. \A ts : SlipOf(l, ts) \in Int
  BY <1>2 DEF SlipOf
<1>4. \A a, b, c \in Int : a + b * c \in Int
  OBVIOUS
<1> QED BY <1>1, <1>3, <1>4 DEF FillPrice

\* F is T without its last column.
Shorter(F, T) ==
  /\ F \in Tapes /\ T \in Tapes /\ Len(T) = Len(F) + 1
  /\ \A j \in 1..Len(F) : F[j] = T[j]

\* Where both have a column they have the same candles and prices.
LEMMA SameColumns ==
  ASSUME NEW F, NEW T, Shorter(F, T), NEW i \in Int, i <= Len(F), NEW l
  PROVE  /\ ColumnOf(F, l, i) = ColumnOf(T, l, i) /\ BarAt(F, l, i) = BarAt(T, l, i)
         /\ BarAt(F, l, i) # NoBar =>
              \A side : FillPrice(F, l, i, side) = FillPrice(T, l, i, side)
<1>1. Len(F) \in Nat /\ \A j \in 1..i : F[j] = T[j]
  BY DEF Shorter, Tapes
<1>2. Of(F, l, i) = Of(T, l, i)
  BY <1>1 DEF Of
<1>3. ColumnOf(F, l, i) = ColumnOf(T, l, i)
  BY <1>2 DEF ColumnOf, Of
<1>4. ColumnOf(F, l, i) # 0 => F[ColumnOf(F, l, i)] = T[ColumnOf(F, l, i)]
  BY <1>1, ColumnIs DEF Of
<1>5. BarAt(F, l, i) = BarAt(T, l, i)
  BY <1>3, <1>4 DEF BarAt
<1>6. BarAt(F, l, i) # NoBar => ColumnOf(F, l, i) # 0
  BY DEF BarAt
<1> QED BY <1>3, <1>4, <1>5, <1>6 DEF FillPrice

\* Where both have a column they have the same marks and target weights.
LEMMA SameWeights ==
  ASSUME NEW F, NEW T, Shorter(F, T), NEW i \in Int, i <= Len(F), NEW sch
  PROVE  MarksAt(F, i) = MarksAt(T, i) /\ Weights(sch, F, i) = Weights(sch, T, i)
<1>1. Len(F) \in Nat /\ Lookback \in Nat
  BY BasketAssumption DEF Shorter, Tapes
<1>2. i - Lookback \in Int /\ i - Lookback <= Len(F)
  BY <1>1
<1>3. \A l : /\ BarAt(F, l, i) = BarAt(T, l, i)
             /\ BarAt(F, l, i - Lookback) = BarAt(T, l, i - Lookback)
  BY <1>2, SameColumns
<1>4. MarksAt(F, i) = MarksAt(T, i) /\ MarksAt(F, i - Lookback) = MarksAt(T, i - Lookback)
  BY <1>3 DEF MarksAt
<1>5. Momentum(F, i) = Momentum(T, i)
  BY <1>4 DEF Momentum
<1> QED BY <1>4, <1>5 DEF Weights

LegCount == Len(Legs)

\* The legs are a finite sequence, with weights and leverages that are numbers.
LEMMA LegsAre ==
  /\ LegCount \in Nat /\ DOMAIN Legs = 1..LegCount
  /\ \A l \in DOMAIN Legs : Legs[l].weight \in Int /\ Legs[l].leverage \in Int
<1> DEFINE R == [equity : BOOLEAN, weight : Int, leverage : Int]
<1>1. Legs \in Seq(R)
  BY LegsAssumption
<1>2. \A x \in R : x.weight \in Int /\ x.leverage \in Int
  OBVIOUS
<1> HIDE DEF R
<1>3. Len(Legs) \in Nat /\ DOMAIN Legs = 1..Len(Legs) /\ \A l \in 1..Len(Legs) : Legs[l] \in R
  BY <1>1
<1> QED BY <1>2, <1>3 DEF LegCount

-----------------------------------------------------------------------------
(* The book of a basket.                                                   *)

LegPosition == [net : Int, cost : Int]
LegBook == [cash : Int, pos : [DOMAIN Legs -> LegPosition], day : Int, dayStart : Int, hwm : Int,
            killed : BOOLEAN]
LegFill == [leg : DOMAIN Legs, signed : Int, price : Int, at : Int]
Runs == [book : LegBook, curve : Seq(Int), fills : Seq(LegFill), rebalances : Nat]

\* Total is a sum over the legs.
LEMMA TotalIs ==
  ASSUME NEW f \in [DOMAIN Legs -> Int]
  PROVE  /\ Total(f) \in Int
         /\ (\A l \in DOMAIN Legs : f[l] >= 0) => Total(f) >= 0
<1>1. Len(Legs) \in Nat /\ DOMAIN Legs = 1..Len(Legs) /\ IsFiniteSet(1..Len(Legs))
  BY LegsAssumption, FS_Interval
<1>2. Total(f) = SumOver(f, DOMAIN Legs)
  BY DEF Total, FoldFunction, FoldFunctionOnSet, SumOver, MapThenSumSet
<1>3. SumOver(f, DOMAIN Legs) \in Int
  BY <1>1, SumOverRemove
<1>4. ASSUME \A l \in DOMAIN Legs : f[l] >= 0 PROVE SumOver(f, DOMAIN Legs) >= 0
  <2>1. SumOver(f, DOMAIN Legs) >= Cardinality(DOMAIN Legs) * 0
    BY <1>1, <1>4, SumOverAtLeast
  <2>2. Cardinality(DOMAIN Legs) \in Nat
    BY <1>1, FS_CardinalityType
  <2> QED BY <2>1, <2>2
<1> QED BY <1>2, <1>3, <1>4

\* Weights are fractions.
LEMMA WeightsAre ==
  ASSUME NEW sch, NEW T, NEW i, DOMAIN Legs # {}
  PROVE  /\ Weights(sch, T, i).den \in Nat \ {0}
         /\ \A l \in DOMAIN Legs : Weights(sch, T, i).num[l] \in Nat
<1>1. /\ DOMAIN Legs = 1..LegCount /\ LegCount \in Nat
      /\ \A l \in DOMAIN Legs : Legs[l].weight \in Int
  BY LegsAre
<1> DEFINE sizes == [l \in DOMAIN Legs |-> Size(Legs[l].weight)]
           total == Total(sizes)
           among == IF sch = "momentum" THEN Momentum(T, i) ELSE DOMAIN Legs
<1>2. sizes \in [DOMAIN Legs -> Int] /\ \A l \in DOMAIN Legs : sizes[l] >= 0
  BY <1>1 DEF Size
<1>3. total \in Int /\ total >= 0
  <2> HIDE DEF sizes
  <2> QED BY <1>2, TotalIs
<1>4. among \in SUBSET (DOMAIN Legs) /\ among # {}
  BY DEF Momentum
<1>5. Cardinality(among) \in Nat \ {0}
  <2>1. IsFiniteSet(among)
    <3> HIDE DEF among
    <3>1. IsFiniteSet(1..LegCount)
      BY <1>1, FS_Interval
    <3> QED BY <1>1, <1>4, <3>1, FS_Subset
  <2> QED BY <1>4, <2>1, FS_CardinalityType, FS_EmptySet
<1>6. CASE sch = "fixed"
  <2>1. Weights(sch, T, i) = [num |-> sizes, den |-> IF total = 0 THEN 1 ELSE total]
    BY <1>6 DEF Weights
  <2> HIDE DEF sizes, total
  <2> QED BY <1>2, <1>3, <2>1
<1>7. CASE sch # "fixed"
  <2>1. Weights(sch, T, i) = [num |-> [l \in DOMAIN Legs |-> IF l \in among THEN 1 ELSE 0],
                              den |-> Cardinality(among)]
    BY <1>7 DEF Weights
  <2> HIDE DEF among
  <2> QED BY <1>5, <2>1
<1> QED BY <1>6, <1>7

\* What a fill realizes and what it leaves of the entry cost are numbers.
LEMMA LegMoneyIs ==
  ASSUME NEW p \in LegPosition, NEW signed \in Int, NEW price \in Int
  PROVE  Realized(p, signed, price) \in Int /\ CostAfter(p, signed, price) \in Int
<1>1. p.net \in Int /\ p.cost \in Int
  BY DEF LegPosition
<1>2. CloseQty(p, signed) \in Int /\ Size(signed) \in Int
  BY <1>1 DEF CloseQty, Opposite, Size
<1>3. ASSUME Opposite(p, signed) PROVE EntryCost(p, signed) \in Int
  <2>1. Size(p.net) \in Nat \ {0}
    BY <1>1, <1>3 DEF Opposite, Size
  <2>2. \A a, b \in Int, d \in Nat \ {0} : (a * b) \div d \in Int
    <3>1. \A x \in Int, d \in Nat \ {0} : x \div d \in Int
      OBVIOUS
    <3>2. \A a, b \in Int : a * b \in Int
      OBVIOUS
    <3> QED BY <3>1, <3>2
  <2>3. (p.cost * CloseQty(p, signed)) \div Size(p.net) \in Int
    BY <1>1, <1>2, <2>1, <2>2
  <2> QED BY <1>1, <2>3 DEF EntryCost
<1>4. \A a, b, c \in Int : a * b - c \in Int /\ c - a * b \in Int /\ c + a * b \in Int
  OBVIOUS
<1>5. Realized(p, signed, price) \in Int
  BY <1>2, <1>3, <1>4 DEF Realized
<1>6. CostAfter(p, signed, price) \in Int
  <2>1. price * (Size(signed) - CloseQty(p, signed)) \in Int
    BY <1>2
  <2>2. Opposite(p, signed) => p.cost - EntryCost(p, signed) \in Int
    BY <1>1, <1>3
  <2> QED BY <1>1, <1>2, <1>4, <2>1, <2>2 DEF CostAfter
<1> QED BY <1>5, <1>6

\* r comes after r0 in the same column: fills are added, the rest of the record stays.
Further(r0, r) ==
  /\ r0 \in Runs /\ r \in Runs /\ Continues(r0.fills, r.fills)
  /\ r.curve = r0.curve /\ r.book.killed = r0.book.killed

\* A run comes after itself.
LEMMA FurtherSelf == ASSUME NEW r \in Runs PROVE Further(r, r)
  BY DEF Further, Continues, Runs

\* Coming after is transitive.
LEMMA FurtherOn ==
  ASSUME NEW r0, NEW r1, NEW r2, Further(r0, r1), Further(r1, r2)
  PROVE  Further(r0, r2)
<1>1. r0.fills \in Seq(LegFill) /\ r1.fills \in Seq(LegFill) /\ r2.fills \in Seq(LegFill)
  BY DEF Further, Runs
<1>2. Continues(r0.fills, r2.fills)
  BY <1>1, ContinuesOn DEF Further
<1> QED BY <1>2 DEF Further

\* A fill moves one leg.
LEMMA FillingIs ==
  ASSUME NEW run \in Runs, NEW l \in DOMAIN Legs, NEW signed \in Int, NEW price \in Int,
         NEW i \in Int
  PROVE  /\ Further(run, Filling(run, l, signed, price, i))
         /\ Filling(run, l, signed, price, i).book.pos[l].net = run.book.pos[l].net + signed
         /\ \A k \in DOMAIN Legs \ {l} :
              Filling(run, l, signed, price, i).book.pos[k] = run.book.pos[k]
<1> DEFINE p == run.book.pos[l]
           fee == (Size(signed) * price * LegFeeBps) \div 10000
           cash == run.book.cash + Realized(p, signed, price) - fee
           leg == [net |-> p.net + signed, cost |-> CostAfter(p, signed, price)]
           fill == [leg |-> l, signed |-> signed, price |-> price, at |-> i]
           r == Filling(run, l, signed, price, i)
<1>1. /\ run.book \in LegBook /\ run.fills \in Seq(LegFill) /\ run.curve \in Seq(Int)
      /\ run.rebalances \in Nat
  BY DEF Runs
<1>2. run.book.pos \in [DOMAIN Legs -> LegPosition] /\ run.book.cash \in Int
  BY <1>1 DEF LegBook
<1>3. p \in LegPosition /\ p.net \in Int
  BY <1>2 DEF LegPosition
<1>4. fee \in Int
  <2>1. Size(signed) \in Int /\ LegFeeBps \in Int
    BY BasketAssumption DEF Size
  <2>2. \A a, b, c \in Int : a * b * c \in Int
    OBVIOUS
  <2>3. Size(signed) * price * LegFeeBps \in Int
    BY <2>1, <2>2
  <2> QED BY <2>3
<1>5. cash \in Int
  BY <1>2, <1>3, <1>4, LegMoneyIs
<1>6. leg \in LegPosition
  BY <1>3, LegMoneyIs DEF LegPosition
<1>7. fill \in LegFill
  BY DEF LegFill
<1>8. r = [run EXCEPT !.book.cash = cash, !.book.pos[l] = leg, !.fills = Append(run.fills, fill)]
  BY DEF Filling
<1> HIDE DEF p, fee, cash, leg, fill, r
<1>9. r = [run EXCEPT
             !.book = [run.book EXCEPT !.cash = cash, !.pos = [run.book.pos EXCEPT ![l] = leg]],
             !.fills = Append(run.fills, fill)]
  BY <1>1, <1>2, <1>8 DEF Runs, LegBook
<1> DEFINE pos == [run.book.pos EXCEPT ![l] = leg]
           book == [run.book EXCEPT !.cash = cash, !.pos = pos]
           fills == Append(run.fills, fill)
<1>10. pos \in [DOMAIN Legs -> LegPosition] /\ pos[l] = leg
       /\ \A k \in DOMAIN Legs \ {l} : pos[k] = run.book.pos[k]
  BY <1>2, <1>6
<1>11. fills \in Seq(LegFill) /\ Continues(run.fills, fills)
  BY <1>1, <1>7, ContinuesOne
<1>12. book \in LegBook /\ book.pos = pos /\ book.killed = run.book.killed
  <2> HIDE DEF pos
  <2> QED BY <1>1, <1>5, <1>10 DEF LegBook
<1>13. r \in Runs /\ r.book = book /\ r.fills = fills /\ r.curve = run.curve
  <2>1. r = [run EXCEPT !.book = book, !.fills = fills]
    BY <1>9
  <2> HIDE DEF book, fills
  <2> QED BY <1>1, <1>11, <1>12, <2>1 DEF Runs
<1>14. Further(run, r)
  <2> HIDE DEF book, fills
  <2> QED BY <1>11, <1>12, <1>13 DEF Further
<1>15. r.book.pos[l].net = run.book.pos[l].net + signed
  <2>1. r.book.pos = pos
    <3> HIDE DEF book, fills, pos
    <3> QED BY <1>12, <1>13
  <2>2. leg.net = p.net + signed
    BY DEF leg
  <2> QED BY <1>10, <2>1, <2>2 DEF p
<1>16. \A k \in DOMAIN Legs \ {l} : r.book.pos[k] = run.book.pos[k]
  <2> HIDE DEF book, fills, pos
  <2> QED BY <1>10, <1>12, <1>13
<1> QED BY <1>14, <1>15, <1>16 DEF r

\* A leg that holds something has a candle.
Known(r, T, i) == \A l \in DOMAIN Legs : r.book.pos[l].net # 0 => BarAt(T, l, i) # NoBar
Advanced(r0, r, T, i) == Further(r0, r) /\ Known(r, T, i)

-----------------------------------------------------------------------------
(* Orders for the legs.                                                    *)

Setting(T, i, marks, w, budget) ==
  /\ T \in Tapes /\ i \in 1..(Len(T) - 1) /\ marks \in [DOMAIN Legs -> Int] /\ budget \in Int
  /\ DOMAIN Legs # {} =>
       w.den \in Nat \ {0} /\ \A l \in DOMAIN Legs : w.num[l] \in Int

\* An order is filled on a candle, or nothing happens.
LEMMA OrderedIs ==
  ASSUME NEW T, NEW i, NEW marks, NEW w, NEW budget, Setting(T, i, marks, w, budget),
         NEW r0, NEW r, Advanced(r0, r, T, i + 1), NEW l \in DOMAIN Legs
  PROVE  Advanced(r0, Ordered(r, T, l, i, marks, w, budget), T, i + 1)
<1> DEFINE delta == Delta(r, l, marks, w, budget)
           side == IF delta > 0 THEN 1 ELSE -1
           price == FillPrice(T, l, i + 1, side)
           signed == side * (Size(delta) \div price)
<1>1. /\ T \in Tapes /\ i + 1 \in Int /\ i + 1 <= Len(T) /\ r \in Runs
      /\ marks[l] \in Int /\ budget \in Int /\ w.den \in Nat \ {0} /\ w.num[l] \in Int
      /\ Legs[l].leverage \in Int
  <2>1. Len(T) \in Nat
    BY DEF Setting, Tapes
  <2> QED BY <2>1, LegsAre DEF Setting, Advanced, Further
<1>2. r.book.pos[l].net \in Int
  <2>1. r.book.pos \in [DOMAIN Legs -> LegPosition]
    BY <1>1 DEF Runs, LegBook
  <2> QED BY <2>1 DEF LegPosition
<1>3. delta \in Int
  <2>1. NotionalOf(r.book, l, marks) \in Int
    BY <1>1, <1>2 DEF NotionalOf, Exposure, Size
  <2>2. (budget * w.num[l] * Legs[l].leverage) \in Int
    <3>1. \A a, b, c \in Int : a * b * c \in Int
      OBVIOUS
    <3> QED BY <1>1, <3>1
  <2>3. (budget * w.num[l] * Legs[l].leverage) \div w.den \in Int
    BY <1>1, <2>2
  <2> QED BY <2>1, <2>3 DEF Delta
<1> HIDE DEF delta
<1>4. side \in {1, -1} /\ price \in Int
  <2>1. side \in {1, -1}
    OBVIOUS
  <2>2. side \in Int
    BY <2>1
  <2> HIDE DEF side
  <2> QED BY <1>1, <2>1, <2>2, PriceIs
<1> HIDE DEF side, price
<1>5. CASE Ordered(r, T, l, i, marks, w, budget) = r
  BY <1>5
<1>6. CASE /\ Ordered(r, T, l, i, marks, w, budget) = Filling(r, l, signed, price, i + 1)
           /\ BarAt(T, l, i + 1) # NoBar /\ price > 0
  <2>1. signed \in Int
    <3>1. Size(delta) \in Int /\ price \in Nat \ {0}
      BY <1>3, <1>4, <1>6 DEF Size
    <3>2. Size(delta) \div price \in Int
      BY <3>1
    <3> QED BY <1>4, <3>2
  <2> DEFINE next == Filling(r, l, signed, price, i + 1)
  <2>2. Further(r, next) /\ \A k \in DOMAIN Legs \ {l} : next.book.pos[k] = r.book.pos[k]
    <3> HIDE DEF signed
    <3> QED BY <1>1, <1>4, <2>1, FillingIs
  <2> HIDE DEF next
  <2>3. Further(r0, next)
    BY <2>2, FurtherOn DEF Advanced
  <2>4. Known(next, T, i + 1)
    BY <1>6, <2>2 DEF Known, Advanced
  <2> QED BY <1>6, <2>3, <2>4 DEF Advanced, next
<1>7. \/ Ordered(r, T, l, i, marks, w, budget) = r
      \/ /\ Ordered(r, T, l, i, marks, w, budget) = Filling(r, l, signed, price, i + 1)
         /\ BarAt(T, l, i + 1) # NoBar /\ price > 0
  <2>1. Ordered(r, T, l, i, marks, w, budget) =
          IF \/ delta = 0 \/ BarAt(T, l, i + 1) = NoBar
             \/ ~Venue(r, l, delta, T[i + 1].ts) \/ price <= 0
          THEN r ELSE Filling(r, l, signed, price, i + 1)
    BY DEF Ordered, delta, side, price
  <2>2. ~(price <= 0) => price > 0
    BY <1>4
  <2> HIDE DEF signed
  <2> QED BY <2>1, <2>2
<1> QED BY <1>5, <1>6, <1>7

\* The same order over a tape that is one column shorter.
LEMMA OrderedSame ==
  ASSUME NEW F, NEW T, Shorter(F, T), NEW i \in 1..(Len(F) - 1), NEW r, NEW l, NEW marks, NEW w,
         NEW budget
  PROVE  Ordered(r, F, l, i, marks, w, budget) = Ordered(r, T, l, i, marks, w, budget)
<1>1. Len(F) \in Nat /\ i + 1 \in 1..Len(F) /\ i + 1 \in Int /\ i + 1 <= Len(F)
  BY DEF Shorter, Tapes
<1>2. /\ BarAt(F, l, i + 1) = BarAt(T, l, i + 1) /\ F[i + 1].ts = T[i + 1].ts
      /\ BarAt(F, l, i + 1) # NoBar =>
           \A side : FillPrice(F, l, i + 1, side) = FillPrice(T, l, i + 1, side)
  BY <1>1, SameColumns DEF Shorter
<1>3. CASE BarAt(F, l, i + 1) = NoBar
  BY <1>2, <1>3 DEF Ordered
<1>4. CASE BarAt(F, l, i + 1) # NoBar
  BY <1>2, <1>4 DEF Ordered
<1> QED BY <1>3, <1>4

AllOrdered(base, T, i, marks, w, budget) ==
  FoldLeftDomain(LAMBDA acc, l : Ordered(acc, T, l, i, marks, w, budget), base, Legs)
Ordering(g, base, T, i, marks, w, budget) ==
  g = [s \in SUBSET (1..LegCount) |->
         IF s = {} THEN base ELSE Ordered(g[s \ {Max(s)}], T, Max(s), i, marks, w, budget)]

\* The orders for the legs are the last entry of a table, if there is a table.
LEMMA OrderingIsFold ==
  ASSUME NEW base, NEW T, NEW i, NEW marks, NEW w, NEW budget,
         \E h : Ordering(h, base, T, i, marks, w, budget)
  PROVE  \E h : /\ Ordering(h, base, T, i, marks, w, budget)
                /\ AllOrdered(base, T, i, marks, w, budget) = h[1..LegCount]
<1> DEFINE idx == [k \in DOMAIN Legs |-> k]
           IsIter(h) == h = [s \in SUBSET (DOMAIN idx) |->
                               IF s = {} THEN base
                               ELSE Ordered(h[s \ {Max(s)}], T, idx[Max(s)], i, marks, w, budget)]
           iter == CHOOSE h : IsIter(h)
<1>1. DOMAIN idx = 1..LegCount /\ idx = [k \in 1..LegCount |-> k]
  BY LegsAre
<1>2. \A s \in SUBSET (1..LegCount) : s # {} => idx[Max(s)] = Max(s)
  <2> HIDE DEF idx
  <2> QED BY <1>1, LegsAre, IndexIs
<1>3. AllOrdered(base, T, i, marks, w, budget) = iter[DOMAIN idx]
  BY DEF AllOrdered, FoldLeftDomain, FoldLeft, MapThenFoldSet
<1> HIDE DEF idx
<1>4. \A h : IsIter(h) <=> Ordering(h, base, T, i, marks, w, budget)
  BY <1>1, <1>2 DEF Ordering
<1>5. IsIter(iter)
  <2> HIDE DEF IsIter
  <2> QED BY <1>4
<1>6. Ordering(iter, base, T, i, marks, w, budget)
  <2> HIDE DEF IsIter
  <2> QED BY <1>4, <1>5
<1> HIDE DEF iter
<1> QED BY <1>1, <1>3, <1>6

\* What the fold of the orders goes through.
OrderChain(v, base, T, i, marks, w, budget) ==
  /\ v[0] = base
  /\ \A k \in 1..LegCount : v[k] = Ordered(v[k - 1], T, k, i, marks, w, budget)

\* The orders for the legs are given leg after leg, and only add fills.
LEMMA OrdersAre ==
  ASSUME NEW T, NEW i, NEW marks, NEW w, NEW budget, Setting(T, i, marks, w, budget),
         NEW base, base \in Runs, Known(base, T, i + 1)
  PROVE  /\ \E v : /\ OrderChain(v, base, T, i, marks, w, budget)
                   /\ AllOrdered(base, T, i, marks, w, budget) = v[LegCount]
         /\ Advanced(base, AllOrdered(base, T, i, marks, w, budget), T, i + 1)
<1> DEFINE N == LegCount
           all == {r \in Runs : Advanced(base, r, T, i + 1)}
           A == [k \in 0..N |-> all]
           step == [p \in all \X (1..N) |-> Ordered(p[1], T, p[2], i, marks, w, budget)]
<1>1. N \in Nat /\ DOMAIN Legs = 1..N
  BY LegsAre
<1>2. base \in all
  BY FurtherSelf DEF Advanced
<1>3. ASSUME NEW x \in all, NEW k \in 1..N
      PROVE  Ordered(x, T, k, i, marks, w, budget) \in all
  <2>1. Advanced(base, Ordered(x, T, k, i, marks, w, budget), T, i + 1)
    BY <1>1, OrderedIs
  <2> QED BY <2>1 DEF Advanced, Further
<1> HIDE DEF all
<1>4. \A k \in 0..N : A[k] = all
  OBVIOUS
<1>5. ASSUME NEW k \in 1..N, NEW j \in 0..(k - 1), NEW x \in A[j]
      PROVE  /\ x \in all /\ step[<<x, k>>] = Ordered(x, T, k, i, marks, w, budget)
             /\ step[<<x, k>>] \in A[k]
  <2>1. x \in all /\ k \in 0..N
    BY <1>1, <1>4
  <2>2. <<x, k>> \in all \X (1..N) /\ <<x, k>>[1] = x /\ <<x, k>>[2] = k
    BY <2>1
  <2>3. step[<<x, k>>] = Ordered(x, T, k, i, marks, w, budget)
    BY <2>2
  <2> HIDE DEF step, A
  <2> QED BY <1>3, <1>4, <2>1, <2>3
<1> HIDE DEF step, A, N
<1>6. PICK h : /\ h = [s \in SUBSET (1..N) |->
                         IF s = {} THEN base ELSE step[<<h[s \ {Max(s)}], Max(s)>>]]
               /\ \A s \in SUBSET (1..N) : s # {} => StepsWithin(N, A, h, s)
  <2>1. base \in A[0]
    BY <1>1, <1>2, <1>4
  <2>2. \A k \in 1..N : \A j \in 0..(k - 1) : \A x \in A[j] : step[<<x, k>>] \in A[k]
    BY <1>5
  <2> QED BY <1>1, <2>1, <2>2, FoldTable
<1>7. Ordering(h, base, T, i, marks, w, budget)
  <2>1. ASSUME NEW s \in SUBSET (1..N), s # {}
        PROVE  step[<<h[s \ {Max(s)}], Max(s)>>]
                 = Ordered(h[s \ {Max(s)}], T, Max(s), i, marks, w, budget)
    BY <1>5, <1>6, <2>1 DEF StepsWithin
  <2> QED BY <1>6, <2>1 DEF Ordering, N
<1>8. PICK g : /\ Ordering(g, base, T, i, marks, w, budget)
               /\ AllOrdered(base, T, i, marks, w, budget) = g[1..N]
  BY <1>7, OrderingIsFold DEF N
<1> DEFINE v == [k \in 0..N |-> g[1..k]]
<1>9. v[0] = base /\ v[N] = g[1..N]
  <2>1. 1..0 = {} /\ {} \in SUBSET (1..N) /\ 0 \in 0..N /\ N \in 0..N
    BY <1>1
  <2> QED BY <1>8, <2>1 DEF Ordering, N
<1>10. \A k \in 1..N : v[k] = Ordered(v[k - 1], T, k, i, marks, w, budget)
  <2>1. ASSUME NEW k \in 1..N
        PROVE  g[1..k] = Ordered(g[1..(k - 1)], T, k, i, marks, w, budget)
    <3>1. /\ 1..k \in SUBSET (1..N) /\ 1..k # {} /\ Max(1..k) = k
          /\ (1..k) \ {k} = 1..(k - 1)
      BY <1>1, FirstOnes
    <3> QED BY <1>8, <3>1 DEF Ordering, N
  <2>2. \A k \in 1..N : k \in 0..N /\ k - 1 \in 0..N
    BY <1>1
  <2> QED BY <2>1, <2>2
<1> HIDE DEF v
<1>11. \A k \in 0..N : v[k] \in A[k]
  <2>1. v[0] \in A[0]
    BY <1>1, <1>2, <1>4, <1>9
  <2>2. \A k \in 1..N : v[k - 1] \in A[k - 1] => v[k] \in A[k]
    <3>1. ASSUME NEW k \in 1..N, v[k - 1] \in A[k - 1] PROVE v[k] \in A[k]
      <4>1. k - 1 \in 0..N /\ k \in 0..N
        BY <1>1
      <4> QED BY <1>3, <1>4, <1>10, <3>1, <4>1
    <3> QED BY <3>1
  <2> QED BY <1>1, <2>1, <2>2, ChainReaches
<1>12. Advanced(base, AllOrdered(base, T, i, marks, w, budget), T, i + 1)
  <2>1. v[N] \in all
    BY <1>1, <1>4, <1>11
  <2> QED BY <1>8, <1>9, <2>1 DEF all
<1>13. OrderChain(v, base, T, i, marks, w, budget)
  BY <1>9, <1>10 DEF OrderChain, N
<1> QED BY <1>8, <1>9, <1>12, <1>13 DEF N

\* The same orders over the shorter tape.
LEMMA OrdersSame ==
  ASSUME NEW F, NEW T, Shorter(F, T), NEW i, NEW marks, NEW w, NEW budget,
         Setting(F, i, marks, w, budget), Setting(T, i, marks, w, budget),
         NEW base, base \in Runs, Known(base, F, i + 1), Known(base, T, i + 1)
  PROVE  AllOrdered(base, F, i, marks, w, budget) = AllOrdered(base, T, i, marks, w, budget)
<1>1. PICK u : /\ OrderChain(u, base, F, i, marks, w, budget)
               /\ AllOrdered(base, F, i, marks, w, budget) = u[LegCount]
  BY OrdersAre
<1>2. PICK v : /\ OrderChain(v, base, T, i, marks, w, budget)
               /\ AllOrdered(base, T, i, marks, w, budget) = v[LegCount]
  BY OrdersAre
<1>3. i \in 1..(Len(F) - 1)
  BY DEF Setting
<1>4. \A k \in 1..LegCount : u[k - 1] = v[k - 1] => u[k] = v[k]
  BY <1>1, <1>2, <1>3, OrderedSame DEF OrderChain
<1>5. u[0] = v[0]
  BY <1>1, <1>2 DEF OrderChain
<1>6. u[LegCount] = v[LegCount]
  BY <1>4, <1>5, LegsAre, ChainsAgree
<1> QED BY <1>1, <1>2, <1>6

-----------------------------------------------------------------------------
(* Closing every leg.                                                      *)

\* A leg that holds something has a candle to be closed on.
LEMMA ClosingIs ==
  ASSUME NEW T \in Tapes, NEW i \in 1..Len(T), NEW r0, NEW r, Advanced(r0, r, T, i),
         NEW l \in DOMAIN Legs
  PROVE  /\ Advanced(r0, Closing(r, T, l, i), T, i)
         /\ Closing(r, T, l, i).book.pos[l].net = 0
         /\ \A k \in DOMAIN Legs \ {l} :
              Closing(r, T, l, i).book.pos[k] = r.book.pos[k]
<1> DEFINE p == r.book.pos[l]
           side == IF p.net > 0 THEN -1 ELSE 1
           price == FillPrice(T, l, i, side)
<1>1. Len(T) \in Nat /\ i \in Int /\ i <= Len(T) /\ r \in Runs
  BY DEF Tapes, Advanced, Further
<1>2. p.net \in Int
  <2>1. r.book.pos \in [DOMAIN Legs -> LegPosition]
    BY <1>1 DEF Runs, LegBook
  <2> QED BY <2>1 DEF LegPosition
<1>3. price \in Int
  <2>1. side \in Int
    OBVIOUS
  <2> HIDE DEF side
  <2> QED BY <1>1, <2>1, PriceIs
<1>4. p.net # 0 => BarAt(T, l, i) # NoBar
  BY DEF Advanced, Known
<1>5. CASE p.net = 0
  BY <1>5 DEF Closing
<1>6. CASE p.net # 0
  <2> DEFINE next == Filling(r, l, -p.net, price, i)
  <2>1. Closing(r, T, l, i) = next
    BY <1>4, <1>6 DEF Closing
  <2> HIDE DEF price
  <2>2. /\ Further(r, next) /\ next.book.pos[l].net = p.net + (-p.net)
        /\ \A k \in DOMAIN Legs \ {l} : next.book.pos[k] = r.book.pos[k]
    <3>1. -p.net \in Int
      BY <1>2
    <3> QED BY <1>1, <1>3, <3>1, FillingIs
  <2> HIDE DEF next
  <2>3. Further(r0, next)
    BY <2>2, FurtherOn DEF Advanced
  <2>4. next.book.pos[l].net = 0
    BY <1>2, <2>2
  <2>5. Known(next, T, i)
    BY <2>2, <2>4 DEF Known, Advanced
  <2> QED BY <2>1, <2>2, <2>3, <2>4, <2>5 DEF Advanced
<1> QED BY <1>5, <1>6

\* The same closing over a tape that is one column longer.
LEMMA ClosingSame ==
  ASSUME NEW F, NEW T, Shorter(F, T), NEW i \in 1..Len(F), NEW r, NEW l
  PROVE  Closing(r, F, l, i) = Closing(r, T, l, i)
<1>1. i \in Int /\ i <= Len(F)
  BY DEF Shorter, Tapes
<1>2. /\ BarAt(F, l, i) = BarAt(T, l, i)
      /\ BarAt(F, l, i) # NoBar => \A side : FillPrice(F, l, i, side) = FillPrice(T, l, i, side)
  BY <1>1, SameColumns
<1>3. CASE BarAt(F, l, i) = NoBar
  BY <1>2, <1>3 DEF Closing
<1>4. CASE BarAt(F, l, i) # NoBar
  BY <1>2, <1>4 DEF Closing
<1> QED BY <1>3, <1>4

ClosingAll(g, base, T, i) ==
  g = [s \in SUBSET (1..LegCount) |->
         IF s = {} THEN base ELSE Closing(g[s \ {Max(s)}], T, Max(s), i)]

\* The closings of the legs are the last entry of a table, if there is a table.
LEMMA FlattenedIsFold ==
  ASSUME NEW base, NEW T, NEW i, \E h : ClosingAll(h, base, T, i)
  PROVE  \E h : ClosingAll(h, base, T, i) /\ Flattened(base, T, i) = h[1..LegCount]
<1> DEFINE idx == [k \in DOMAIN Legs |-> k]
           IsIter(h) == h = [s \in SUBSET (DOMAIN idx) |->
                               IF s = {} THEN base
                               ELSE Closing(h[s \ {Max(s)}], T, idx[Max(s)], i)]
           iter == CHOOSE h : IsIter(h)
<1>1. DOMAIN idx = 1..LegCount /\ idx = [k \in 1..LegCount |-> k]
  BY LegsAre
<1>2. \A s \in SUBSET (1..LegCount) : s # {} => idx[Max(s)] = Max(s)
  <2> HIDE DEF idx
  <2> QED BY <1>1, LegsAre, IndexIs
<1>3. Flattened(base, T, i) = iter[DOMAIN idx]
  BY DEF Flattened, FoldLeftDomain, FoldLeft, MapThenFoldSet
<1> HIDE DEF idx
<1>4. \A h : IsIter(h) <=> ClosingAll(h, base, T, i)
  BY <1>1, <1>2 DEF ClosingAll
<1>5. IsIter(iter)
  <2> HIDE DEF IsIter
  <2> QED BY <1>4
<1>6. ClosingAll(iter, base, T, i)
  <2> HIDE DEF IsIter
  <2> QED BY <1>4, <1>5
<1> HIDE DEF iter
<1> QED BY <1>1, <1>3, <1>6

CloseChain(v, base, T, i) ==
  v[0] = base /\ \A k \in 1..LegCount : v[k] = Closing(v[k - 1], T, k, i)

Emptied(r, k) == \A l \in 1..k : r.book.pos[l].net = 0

\* The legs are closed one after the other, and all of them.
LEMMA ClosesAre ==
  ASSUME NEW T \in Tapes, NEW i \in 1..Len(T), NEW base, base \in Runs, Known(base, T, i)
  PROVE  /\ \E v : CloseChain(v, base, T, i) /\ Flattened(base, T, i) = v[LegCount]
         /\ Advanced(base, Flattened(base, T, i), T, i)
         /\ Emptied(Flattened(base, T, i), LegCount)
<1> DEFINE N == LegCount
           all == {r \in Runs : Advanced(base, r, T, i)}
           A == [k \in 0..N |-> all]
           B == [k \in 0..N |-> {r \in all : Emptied(r, k)}]
           step == [p \in all \X (1..N) |-> Closing(p[1], T, p[2], i)]
<1>1. N \in Nat /\ DOMAIN Legs = 1..N
  BY LegsAre
<1>2. base \in all
  BY FurtherSelf DEF Advanced
<1>3. ASSUME NEW x \in all, NEW k \in 1..N
      PROVE  /\ Closing(x, T, k, i) \in all
             /\ Emptied(x, k - 1) => Emptied(Closing(x, T, k, i), k)
  <2>1. /\ Advanced(base, Closing(x, T, k, i), T, i)
        /\ Closing(x, T, k, i).book.pos[k].net = 0
        /\ \A l \in DOMAIN Legs \ {k} : Closing(x, T, k, i).book.pos[l] = x.book.pos[l]
    BY <1>1, ClosingIs
  <2>2. \A l \in 1..k : l = k \/ (l \in 1..(k - 1) /\ l \in DOMAIN Legs \ {k})
    BY <1>1
  <2> QED BY <2>1, <2>2 DEF Advanced, Further, Emptied
<1> HIDE DEF all
<1>4. \A k \in 0..N : A[k] = all /\ B[k] = {r \in all : Emptied(r, k)}
  OBVIOUS
<1>5. ASSUME NEW k \in 1..N, NEW j \in 0..(k - 1), NEW x \in A[j]
      PROVE  x \in all /\ step[<<x, k>>] = Closing(x, T, k, i) /\ step[<<x, k>>] \in A[k]
  <2>1. x \in all /\ k \in 0..N
    BY <1>1, <1>4
  <2>2. <<x, k>> \in all \X (1..N) /\ <<x, k>>[1] = x /\ <<x, k>>[2] = k
    BY <2>1
  <2>3. step[<<x, k>>] = Closing(x, T, k, i)
    BY <2>2
  <2> HIDE DEF step, A, B
  <2> QED BY <1>3, <1>4, <2>1, <2>3
<1> HIDE DEF step, A, B, N
<1>6. PICK h : /\ h = [s \in SUBSET (1..N) |->
                         IF s = {} THEN base ELSE step[<<h[s \ {Max(s)}], Max(s)>>]]
               /\ \A s \in SUBSET (1..N) : s # {} => StepsWithin(N, A, h, s)
  <2>1. base \in A[0]
    BY <1>1, <1>2, <1>4
  <2>2. \A k \in 1..N : \A j \in 0..(k - 1) : \A x \in A[j] : step[<<x, k>>] \in A[k]
    BY <1>5
  <2> QED BY <1>1, <2>1, <2>2, FoldTable
<1>7. ClosingAll(h, base, T, i)
  <2>1. ASSUME NEW s \in SUBSET (1..N), s # {}
        PROVE  step[<<h[s \ {Max(s)}], Max(s)>>] = Closing(h[s \ {Max(s)}], T, Max(s), i)
    BY <1>5, <1>6, <2>1 DEF StepsWithin
  <2> QED BY <1>6, <2>1 DEF ClosingAll, N
<1>8. PICK g : ClosingAll(g, base, T, i) /\ Flattened(base, T, i) = g[1..N]
  BY <1>7, FlattenedIsFold DEF N
<1> DEFINE v == [k \in 0..N |-> g[1..k]]
<1>9. v[0] = base /\ v[N] = g[1..N]
  <2>1. 1..0 = {} /\ {} \in SUBSET (1..N) /\ 0 \in 0..N /\ N \in 0..N
    BY <1>1
  <2> QED BY <1>8, <2>1 DEF ClosingAll, N
<1>10. \A k \in 1..N : v[k] = Closing(v[k - 1], T, k, i)
  <2>1. ASSUME NEW k \in 1..N PROVE g[1..k] = Closing(g[1..(k - 1)], T, k, i)
    <3>1. /\ 1..k \in SUBSET (1..N) /\ 1..k # {} /\ Max(1..k) = k
          /\ (1..k) \ {k} = 1..(k - 1)
      BY <1>1, FirstOnes
    <3> QED BY <1>8, <3>1 DEF ClosingAll, N
  <2>2. \A k \in 1..N : k \in 0..N /\ k - 1 \in 0..N
    BY <1>1
  <2> QED BY <2>1, <2>2
<1> HIDE DEF v
<1>11. \A k \in 0..N : v[k] \in B[k]
  <2>1. v[0] \in B[0]
    <3>1. Emptied(base, 0) /\ 0 \in 0..N
      BY <1>1 DEF Emptied
    <3> QED BY <1>2, <1>4, <1>9, <3>1
  <2>2. \A k \in 1..N : v[k - 1] \in B[k - 1] => v[k] \in B[k]
    <3>1. ASSUME NEW k \in 1..N, v[k - 1] \in B[k - 1] PROVE v[k] \in B[k]
      <4>1. k - 1 \in 0..N /\ k \in 0..N
        BY <1>1
      <4>2. v[k - 1] \in all /\ Emptied(v[k - 1], k - 1)
        BY <1>4, <3>1, <4>1
      <4>3. v[k] \in all /\ Emptied(v[k], k)
        BY <1>3, <1>10, <4>2
      <4> QED BY <1>4, <4>1, <4>3
    <3> QED BY <3>1
  <2> QED BY <1>1, <2>1, <2>2, ChainReaches
<1>12. v[N] \in all /\ Emptied(v[N], N)
  BY <1>1, <1>4, <1>11
<1>13. /\ Advanced(base, Flattened(base, T, i), T, i)
       /\ Emptied(Flattened(base, T, i), N)
  BY <1>8, <1>9, <1>12 DEF all
<1>14. CloseChain(v, base, T, i)
  BY <1>9, <1>10 DEF CloseChain, N
<1> QED BY <1>8, <1>9, <1>13, <1>14 DEF N

\* The same closings over the shorter tape.
LEMMA ClosesSame ==
  ASSUME NEW F, NEW T, Shorter(F, T), NEW i \in 1..Len(F),
         NEW base, base \in Runs, Known(base, F, i), Known(base, T, i)
  PROVE  Flattened(base, F, i) = Flattened(base, T, i)
<1>1. F \in Tapes /\ T \in Tapes /\ i \in 1..Len(T)
  BY DEF Shorter, Tapes
<1>2. PICK u : CloseChain(u, base, F, i) /\ Flattened(base, F, i) = u[LegCount]
  BY <1>1, ClosesAre
<1>3. PICK v : CloseChain(v, base, T, i) /\ Flattened(base, T, i) = v[LegCount]
  BY <1>1, ClosesAre
<1>4. \A k \in 1..LegCount : u[k - 1] = v[k - 1] => u[k] = v[k]
  BY <1>2, <1>3, ClosingSame DEF CloseChain
<1>5. u[0] = v[0]
  BY <1>2, <1>3 DEF CloseChain
<1>6. u[LegCount] = v[LegCount]
  BY <1>4, <1>5, LegsAre, ChainsAgree
<1> QED BY <1>2, <1>3, <1>6

-----------------------------------------------------------------------------
(* A column.                                                               *)

\* The run with the equity of a column seen.
Seen(run, T, i) ==
  LET marks == MarksAt(T, i)
      book == MarkedBook(run.book, T[i].ts \div TimesPerDay, marks)
  IN  [run EXCEPT !.book = book, !.curve = Append(@, Worth(book, marks))]

\* Equity and exposure are numbers.
LEMMA WorthIs ==
  ASSUME NEW book \in LegBook, NEW marks \in [DOMAIN Legs -> Int]
  PROVE  Worth(book, marks) \in Int /\ Gross(book, marks) \in Int
<1>1. book.pos \in [DOMAIN Legs -> LegPosition] /\ book.cash \in Int
  BY DEF LegBook
<1>2. \A l \in DOMAIN Legs : book.pos[l].net \in Int /\ book.pos[l].cost \in Int /\ marks[l] \in Int
  BY <1>1 DEF LegPosition
<1>3. [l \in DOMAIN Legs |-> Unrealized(book.pos[l], marks[l])] \in [DOMAIN Legs -> Int]
  <2>1. \A a, b, c \in Int : a + b * c \in Int /\ b * c - a \in Int
    OBVIOUS
  <2>2. \A l \in DOMAIN Legs : Unrealized(book.pos[l], marks[l]) \in Int
    BY <1>2, <2>1 DEF Unrealized
  <2> QED BY <2>2
<1>4. [l \in DOMAIN Legs |-> NotionalOf(book, l, marks)] \in [DOMAIN Legs -> Int]
  <2>1. \A l \in DOMAIN Legs : Size(book.pos[l].net) \in Int
    BY <1>2 DEF Size
  <2>2. \A a, b \in Int : a * b \in Int
    OBVIOUS
  <2>3. \A l \in DOMAIN Legs : NotionalOf(book, l, marks) \in Int
    BY <1>2, <2>1, <2>2 DEF NotionalOf, Exposure
  <2> QED BY <2>3
<1> QED BY <1>1, <1>3, <1>4, TotalIs DEF Worth, Gross

\* Marking a book leaves its positions alone.
LEMMA MarkedIsBook ==
  ASSUME NEW book \in LegBook, NEW marks \in [DOMAIN Legs -> Int], NEW day \in Int
  PROVE  MarkedBook(book, day, marks) \in LegBook /\ MarkedBook(book, day, marks).pos = book.pos
<1> DEFINE today == RolledOver(book, day)
           worth == Worth(today, marks)
           hwm == IF worth > today.hwm THEN worth ELSE today.hwm
           killed == \/ today.killed
                     \/ LossAbove(today.dayStart, worth, DayLossPct)
                     \/ LossAbove(hwm, worth, KillPct)
                     \/ worth <= 0
<1>1. today \in LegBook /\ today.pos = book.pos
  BY DEF RolledOver, LegBook
<1>2. MarkedBook(book, day, marks) = [today EXCEPT !.hwm = hwm, !.killed = killed]
  BY DEF MarkedBook
<1> HIDE DEF today
<1>3. worth \in Int
  BY <1>1, WorthIs
<1>4. hwm \in Int /\ killed \in BOOLEAN
  <2>1. today.hwm \in Int /\ today.killed \in BOOLEAN
    BY <1>1 DEF LegBook
  <2>2. killed \in BOOLEAN
    BY <2>1 DEF LossAbove
  <2> HIDE DEF worth, killed
  <2> QED BY <1>3, <2>1, <2>2
<1> HIDE DEF hwm, killed
<1> QED BY <1>1, <1>2, <1>4 DEF LegBook

\* Seeing a column adds a point to the curve, and nothing to the fills.
LEMMA SeenIs ==
  ASSUME NEW T \in Tapes, NEW i \in 1..Len(T), NEW run \in Runs
  PROVE  /\ Seen(run, T, i) \in Runs
         /\ Seen(run, T, i).fills = run.fills /\ Seen(run, T, i).book.pos = run.book.pos
         /\ Len(Seen(run, T, i).curve) = Len(run.curve) + 1
         /\ Continues(run.curve, Seen(run, T, i).curve)
<1> DEFINE marks == MarksAt(T, i)
           book == MarkedBook(run.book, T[i].ts \div TimesPerDay, marks)
           curve == Append(run.curve, Worth(book, marks))
<1>1. Len(T) \in Nat /\ i \in Int /\ i <= Len(T) /\ T[i] \in Column
  BY DEF Tapes
<1>2. marks \in [DOMAIN Legs -> Int]
  BY <1>1, MarksAre
<1>3. run.book \in LegBook /\ run.curve \in Seq(Int)
  BY DEF Runs
<1>4. T[i].ts \div TimesPerDay \in Int
  <2>1. T[i].ts \in Nat
    BY <1>1 DEF Column
  <2> QED BY <2>1, BasketAssumption
<1> HIDE DEF marks
<1>5. book \in LegBook /\ book.pos = run.book.pos
  BY <1>2, <1>3, <1>4, MarkedIsBook
<1>6. Seen(run, T, i) = [run EXCEPT !.book = book, !.curve = curve]
  BY DEF Seen, marks
<1> HIDE DEF book
<1>7. Worth(book, marks) \in Int
  BY <1>2, <1>5, WorthIs
<1>8. curve \in Seq(Int) /\ Len(curve) = Len(run.curve) + 1 /\ Continues(run.curve, curve)
  BY <1>3, <1>7, ContinuesOne
<1> HIDE DEF curve
<1> QED BY <1>5, <1>6, <1>8 DEF Runs

-----------------------------------------------------------------------------
(* The step of a column.                                                   *)

\* What had a candle at a column has one at the later ones.
LEMMA KnownOn ==
  ASSUME NEW T \in Tapes, NEW i \in Int, NEW j \in Int, i <= j, j <= Len(T),
         NEW r, Known(r, T, i)
  PROVE  Known(r, T, j)
  BY BarStays DEF Known

\* q is what a column makes of run.
Columned(run, q, T, i) ==
  /\ q \in Runs /\ q.curve = Seen(run, T, i).curve /\ Continues(run.fills, q.fills)
  /\ i < Len(T) => Known(q, T, i + 1)
  /\ i < Len(T) /\ q.book.killed => Emptied(q, LegCount)

\* The base of a rebalancing and its budget.
Counted(seen) == [seen EXCEPT !.rebalances = @ + 1]
Budget(seen, marks) ==
  IF Gross(seen.book, marks) > 0 THEN Gross(seen.book, marks) ELSE StartingEquity * Unit

\* The four ways a column ends.
LEMMA OnColumnCases ==
  ASSUME NEW run, NEW sch, NEW T, NEW i
  PROVE  LET seen == Seen(run, T, i)
             marks == MarksAt(T, i)
             book == MarkedBook(run.book, T[i].ts \div TimesPerDay, marks)
             w == Weights(sch, T, i)
         IN  OnColumn(run, sch, T, i) =
               IF i = Len(T) THEN seen
               ELSE IF book.killed THEN Flattened(seen, T, i + 1)
               ELSE IF i = 1 \/ Drifted(book, marks, w)
               THEN AllOrdered(Counted(seen), T, i, marks, w, Budget(seen, marks))
               ELSE seen
  BY DEF OnColumn, Seen, Rebalanced, AllOrdered, Counted, Budget

\* Whatever else a record holds.
LEMMA OneRebalanceMore ==
  ASSUME NEW B, NEW C, NEW F,
         NEW r \in [book : B, curve : C, fills : F, rebalances : Nat]
  PROVE  LET q == [r EXCEPT !.rebalances = @ + 1]
         IN  /\ q \in [book : B, curve : C, fills : F, rebalances : Nat]
             /\ q.book = r.book /\ q.curve = r.curve /\ q.fills = r.fills
  OBVIOUS

\* What a rebalancing starts from.
LEMMA SettingIs ==
  ASSUME NEW T \in Tapes, NEW i \in 1..(Len(T) - 1), NEW seen \in Runs, NEW sch
  PROVE  /\ Setting(T, i, MarksAt(T, i), Weights(sch, T, i), Budget(seen, MarksAt(T, i)))
         /\ Counted(seen) \in Runs /\ Counted(seen).book = seen.book
         /\ Counted(seen).curve = seen.curve /\ Counted(seen).fills = seen.fills
<1>1. Len(T) \in Nat /\ i \in Int /\ i <= Len(T)
  BY DEF Tapes
<1>2. MarksAt(T, i) \in [DOMAIN Legs -> Int]
  BY <1>1, MarksAre
<1>3. seen.book \in LegBook
  BY DEF Runs
<1>4. Gross(seen.book, MarksAt(T, i)) \in Int
  BY <1>2, <1>3, WorthIs
<1>5. Budget(seen, MarksAt(T, i)) \in Int
  BY <1>4, StartingEquityAssumption DEF Budget, Unit
<1>6. Setting(T, i, MarksAt(T, i), Weights(sch, T, i), Budget(seen, MarksAt(T, i)))
  BY <1>2, <1>5, WeightsAre DEF Setting
<1>7. /\ Counted(seen) \in Runs /\ Counted(seen).book = seen.book
      /\ Counted(seen).curve = seen.curve /\ Counted(seen).fills = seen.fills
  BY OneRebalanceMore DEF Counted, Runs
<1> QED BY <1>6, <1>7

\* A column adds a point to the curve, and fills; one that kills leaves nothing.
LEMMA OnColumnIs ==
  ASSUME NEW T \in Tapes, NEW i \in 1..Len(T), NEW run \in Runs, NEW sch, Known(run, T, i)
  PROVE  /\ Columned(run, OnColumn(run, sch, T, i), T, i)
         /\ i = Len(T) => OnColumn(run, sch, T, i) = Seen(run, T, i)
<1> DEFINE seen == Seen(run, T, i)
           marks == MarksAt(T, i)
           book == MarkedBook(run.book, T[i].ts \div TimesPerDay, marks)
           w == Weights(sch, T, i)
           q == OnColumn(run, sch, T, i)
           ordered == AllOrdered(Counted(seen), T, i, marks, w, Budget(seen, marks))
<1>1. Len(T) \in Nat /\ i \in Int
  BY DEF Tapes
<1>2. /\ q = IF i = Len(T) THEN seen
             ELSE IF book.killed THEN Flattened(seen, T, i + 1)
             ELSE IF i = 1 \/ Drifted(book, marks, w) THEN ordered
             ELSE seen
      /\ seen.book = book
  <2>1. seen.book = book
    BY DEF Seen, Runs
  <2> QED BY <2>1, OnColumnCases
<1>3. seen \in Runs /\ seen.fills = run.fills /\ seen.book.pos = run.book.pos
  BY SeenIs
<1>4. run.fills \in Seq(LegFill) /\ Continues(run.fills, run.fills)
  BY DEF Runs, Continues
<1>5. i < Len(T) => Known(seen, T, i + 1)
  <2>1. Known(seen, T, i)
    BY <1>3 DEF Known
  <2> QED BY <1>1, <2>1, KnownOn
<1> HIDE DEF seen, book, w, marks, q, ordered
<1>6. CASE q = seen /\ (i = Len(T) \/ ~seen.book.killed)
  <2>1. Columned(run, q, T, i)
    BY <1>1, <1>3, <1>4, <1>5, <1>6 DEF Columned, seen
  <2> QED BY <1>6, <2>1 DEF q, seen
<1>7. ASSUME i < Len(T), seen.book.killed, q = Flattened(seen, T, i + 1)
      PROVE  Columned(run, q, T, i)
  <2>1. i + 1 \in 1..Len(T)
    BY <1>1, <1>7
  <2>2. Advanced(seen, q, T, i + 1) /\ Emptied(q, LegCount)
    BY <1>3, <1>5, <1>7, <2>1, ClosesAre
  <2> QED BY <1>3, <1>7, <2>2 DEF Columned, Advanced, Further, seen
<1>8. ASSUME i < Len(T), ~seen.book.killed, q = ordered
      PROVE  Columned(run, q, T, i)
  <2>1. i \in 1..(Len(T) - 1)
    BY <1>1, <1>8
  <2>2. /\ Setting(T, i, marks, w, Budget(seen, marks))
        /\ Counted(seen) \in Runs /\ Counted(seen).book = seen.book
        /\ Counted(seen).curve = seen.curve /\ Counted(seen).fills = seen.fills
    BY <1>3, <2>1, SettingIs DEF marks, w
  <2>3. Known(Counted(seen), T, i + 1)
    BY <1>5, <1>8, <2>2 DEF Known
  <2>4. Advanced(Counted(seen), q, T, i + 1)
    BY <1>8, <2>2, <2>3, OrdersAre DEF ordered
  <2> QED BY <1>3, <1>8, <2>2, <2>4 DEF Columned, Advanced, Further, seen
<1>9. i = Len(T) => q = seen
  BY <1>2
<1>10. i # Len(T) => i < Len(T)
  BY <1>1
<1> QED BY <1>2, <1>6, <1>7, <1>8, <1>9, <1>10 DEF q, seen

\* Until the last column of the shorter tape the step is the same.
LEMMA OnColumnSame ==
  ASSUME NEW F, NEW T, Shorter(F, T), NEW i \in 1..Len(F), NEW run \in Runs, NEW sch,
         Known(run, F, i), Known(run, T, i)
  PROVE  /\ Seen(run, F, i) = Seen(run, T, i)
         /\ i < Len(F) => OnColumn(run, sch, F, i) = OnColumn(run, sch, T, i)
<1> DEFINE seen == Seen(run, T, i)
           marks == MarksAt(T, i)
           w == Weights(sch, T, i)
<1>1. /\ Len(F) \in Nat /\ Len(T) = Len(F) + 1 /\ F \in Tapes /\ T \in Tapes
      /\ i \in Int /\ i \in 1..Len(T) /\ i <= Len(F) /\ F[i] = T[i]
  BY DEF Shorter, Tapes
<1>2. MarksAt(F, i) = marks /\ Weights(sch, F, i) = w
  BY <1>1, SameWeights
<1>3. Seen(run, F, i) = seen
  BY <1>1, <1>2 DEF Seen
<1>4. ASSUME i < Len(F) PROVE OnColumn(run, sch, F, i) = OnColumn(run, sch, T, i)
  <2>1. /\ i + 1 \in 1..Len(F) /\ i \in 1..(Len(F) - 1) /\ i \in 1..(Len(T) - 1)
        /\ i + 1 <= Len(T) /\ i + 1 \in Int
    BY <1>1, <1>4
  <2>2. seen \in Runs /\ seen.book.pos = run.book.pos
    BY <1>1, SeenIs
  <2>3. Known(seen, F, i + 1) /\ Known(seen, T, i + 1)
    <3>1. Known(seen, F, i) /\ Known(seen, T, i)
      BY <2>2 DEF Known
    <3> QED BY <1>1, <2>1, <3>1, KnownOn
  <2> DEFINE budget == Budget(seen, marks)
  <2> HIDE DEF seen
  <2>4. Flattened(seen, F, i + 1) = Flattened(seen, T, i + 1)
    BY <2>1, <2>2, <2>3, ClosesSame
  <2>5. /\ Setting(F, i, marks, w, budget) /\ Setting(T, i, marks, w, budget)
        /\ Counted(seen) \in Runs /\ Counted(seen).book = seen.book
    BY <1>1, <1>2, <2>1, <2>2, SettingIs
  <2> HIDE DEF marks, w, budget
  <2>6. Known(Counted(seen), F, i + 1) /\ Known(Counted(seen), T, i + 1)
    BY <2>3, <2>5 DEF Known
  <2>7. AllOrdered(Counted(seen), F, i, marks, w, budget)
          = AllOrdered(Counted(seen), T, i, marks, w, budget)
    BY <2>5, <2>6, OrdersSame
  <2>8. i # Len(F) /\ i # Len(T)
    BY <1>1, <1>4
  <2> QED BY <1>1, <1>2, <1>3, <2>4, <2>7, <2>8, OnColumnCases DEF seen, marks, w, budget
<1> QED BY <1>3, <1>4

-----------------------------------------------------------------------------
(* A run over a tape.                                                      *)

NextRun(run, sch, T, i) == IF run.book.killed THEN run ELSE OnColumn(run, sch, T, i)

\* The table of the fold over the columns.
Columns(g, sch, T) ==
  g = [s \in SUBSET (1..Len(T)) |->
         IF s = {} THEN NewRun ELSE NextRun(g[s \ {Max(s)}], sch, T, Max(s))]

\* A run is the last entry of a table, if there is a table.
LEMMA RunPortfolioIsFold ==
  ASSUME NEW T \in Tapes, NEW sch, Len(T) >= 2, \E h : Columns(h, sch, T)
  PROVE  \E h : Columns(h, sch, T) /\ RunPortfolio(sch, T) = h[1..Len(T)]
<1> DEFINE idx == [k \in DOMAIN T |-> k]
           IsIter(h) == h = [s \in SUBSET (DOMAIN idx) |->
                               IF s = {} THEN NewRun
                               ELSE NextRun(h[s \ {Max(s)}], sch, T, idx[Max(s)])]
           iter == CHOOSE h : IsIter(h)
<1>1. /\ DOMAIN idx = 1..Len(T) /\ idx = [k \in 1..Len(T) |-> k] /\ Len(T) \in Nat
      /\ ~(Len(T) < 2)
  BY DEF Tapes
<1>2. \A s \in SUBSET (1..Len(T)) : s # {} => idx[Max(s)] = Max(s)
  <2> HIDE DEF idx
  <2> QED BY <1>1, IndexIs
<1>3. RunPortfolio(sch, T) = iter[DOMAIN idx]
  BY <1>1 DEF RunPortfolio, FoldLeftDomain, FoldLeft, MapThenFoldSet, NextRun
<1> HIDE DEF idx
<1>4. \A h : IsIter(h) <=> Columns(h, sch, T)
  BY <1>1, <1>2 DEF Columns
<1>5. IsIter(iter)
  <2> HIDE DEF IsIter
  <2> QED BY <1>4
<1>6. Columns(iter, sch, T)
  <2> HIDE DEF IsIter
  <2> QED BY <1>4, <1>5
<1> HIDE DEF iter
<1> QED BY <1>1, <1>3, <1>6

\* A run that has seen k columns, and is over if it was killed.
SoundRun(r, T, k) ==
  /\ r \in Runs
  /\ k < Len(T) => Known(r, T, k + 1)
  /\ Len(r.curve) <= k
  /\ ~r.book.killed => Len(r.curve) = k
  /\ r.book.killed /\ Len(r.curve) < Len(T) => Emptied(r, LegCount)

\* A run before its first column.
LEMMA NewRunIs == ASSUME NEW T \in Tapes PROVE SoundRun(NewRun, T, 0)
<1>1. [l \in DOMAIN Legs |-> Flat] \in [DOMAIN Legs -> LegPosition]
  BY DEF Flat, LegPosition
<1>2. /\ NewBook \in LegBook /\ ~NewBook.killed
      /\ \A l \in DOMAIN Legs : NewBook.pos[l].net = 0
  <2>1. StartingEquity * Unit \in Int
    BY StartingEquityAssumption DEF Unit
  <2> QED BY <1>1, <2>1 DEF NewBook, LegBook, NoDay, Flat
<1>3. NewRun \in Runs /\ NewRun.book = NewBook /\ Len(NewRun.curve) = 0
  <2>1. <<>> \in Seq(Int) /\ <<>> \in Seq(LegFill) /\ Len(<<>>) = 0
    OBVIOUS
  <2> QED BY <1>2, <2>1 DEF NewRun, Runs
<1>4. Len(T) \in Nat
  BY DEF Tapes
<1> QED BY <1>2, <1>3, <1>4 DEF SoundRun, Known

\* Each column takes a run on.
LEMMA NextRunIs ==
  ASSUME NEW T \in Tapes, NEW k \in 1..Len(T), NEW r \in Runs, NEW sch, Known(r, T, k)
  PROVE  /\ NextRun(r, sch, T, k) \in Runs
         /\ k < Len(T) => Known(NextRun(r, sch, T, k), T, k + 1)
         /\ Continues(r.curve, NextRun(r, sch, T, k).curve)
         /\ Continues(r.fills, NextRun(r, sch, T, k).fills)
         /\ SoundRun(r, T, k - 1) => SoundRun(NextRun(r, sch, T, k), T, k)
<1> DEFINE q == NextRun(r, sch, T, k)
<1>1. Len(T) \in Nat /\ k \in Int /\ k - 1 \in Int /\ k - 1 < Len(T) /\ (k - 1) + 1 = k
  BY DEF Tapes
<1>2. r.curve \in Seq(Int) /\ r.fills \in Seq(LegFill) /\ Len(r.curve) \in Nat
  BY DEF Runs
<1>3. CASE r.book.killed
  <2>1. q = r
    BY <1>3 DEF NextRun
  <2>2. k < Len(T) => Known(r, T, k + 1)
    BY <1>1, KnownOn
  <2>3. Continues(r.curve, r.curve) /\ Continues(r.fills, r.fills)
    BY <1>2 DEF Continues
  <2> QED BY <1>1, <1>2, <1>3, <2>1, <2>2, <2>3 DEF SoundRun
<1>4. CASE ~r.book.killed
  <2>1. q = OnColumn(r, sch, T, k)
    BY <1>4 DEF NextRun
  <2>2. Columned(r, q, T, k)
    BY <2>1, OnColumnIs
  <2>3. /\ Len(Seen(r, T, k).curve) = Len(r.curve) + 1
        /\ Continues(r.curve, Seen(r, T, k).curve)
    BY SeenIs
  <2> HIDE DEF q
  <2>4. /\ q \in Runs /\ q.curve = Seen(r, T, k).curve /\ Continues(r.fills, q.fills)
        /\ k < Len(T) => Known(q, T, k + 1)
        /\ k < Len(T) /\ q.book.killed => Emptied(q, LegCount)
    BY <2>2 DEF Columned
  <2>5. ASSUME SoundRun(r, T, k - 1) PROVE SoundRun(q, T, k)
    <3>1. Len(q.curve) = k
      BY <1>1, <1>2, <1>4, <2>3, <2>4, <2>5 DEF SoundRun
    <3> QED BY <1>1, <2>4, <3>1 DEF SoundRun
  <2> QED BY <2>3, <2>4, <2>5 DEF q
<1> QED BY <1>3, <1>4

\* What the fold over the columns goes through.
ColumnChain(v, sch, T) ==
  /\ v[0] = NewRun
  /\ \A k \in 1..Len(T) : v[k] = NextRun(v[k - 1], sch, T, k)
  /\ \A k \in 0..Len(T) : SoundRun(v[k], T, k)

\* A run is the end of a chain with a sound run at every column.
LEMMA RunPortfolioIs ==
  ASSUME NEW T \in Tapes, NEW sch, Len(T) >= 2
  PROVE  \E v : ColumnChain(v, sch, T) /\ RunPortfolio(sch, T) = v[Len(T)]
<1> DEFINE N == Len(T)
           A == [k \in 0..N |-> {r \in Runs : k < N => Known(r, T, k + 1)}]
           B == [k \in 0..N |-> {r \in Runs : SoundRun(r, T, k)}]
           step == [p \in Runs \X (1..N) |-> NextRun(p[1], sch, T, p[2])]
<1>1. N \in Nat
  BY DEF Tapes
<1>2. NewRun \in Runs /\ SoundRun(NewRun, T, 0)
  BY NewRunIs DEF SoundRun
<1>3. /\ \A k \in 0..N : A[k] = {r \in Runs : k < N => Known(r, T, k + 1)}
      /\ \A k \in 0..N : B[k] = {r \in Runs : SoundRun(r, T, k)}
  OBVIOUS
<1>4. ASSUME NEW k \in 1..N, NEW j \in 0..(k - 1), NEW x \in A[j]
      PROVE  /\ x \in Runs /\ step[<<x, k>>] = NextRun(x, sch, T, k)
             /\ step[<<x, k>>] \in A[k]
  <2>1. /\ k \in 0..N /\ j \in 0..N /\ j < N /\ j + 1 \in Int /\ k \in Int /\ j + 1 <= k
        /\ k <= Len(T)
    BY <1>1
  <2>2. x \in Runs /\ Known(x, T, j + 1)
    BY <1>3, <2>1
  <2>3. <<x, k>> \in Runs \X (1..N) /\ <<x, k>>[1] = x /\ <<x, k>>[2] = k
    BY <2>2
  <2>4. step[<<x, k>>] = NextRun(x, sch, T, k)
    BY <2>3
  <2>5. Known(x, T, k)
    BY <2>1, <2>2, KnownOn
  <2>6. NextRun(x, sch, T, k) \in Runs /\ (k < N => Known(NextRun(x, sch, T, k), T, k + 1))
    BY <2>2, <2>5, NextRunIs
  <2> HIDE DEF step, A
  <2> QED BY <1>3, <2>1, <2>2, <2>4, <2>6
<1> HIDE DEF step, A, B, N
<1>5. PICK h : /\ h = [s \in SUBSET (1..N) |->
                         IF s = {} THEN NewRun ELSE step[<<h[s \ {Max(s)}], Max(s)>>]]
               /\ \A s \in SUBSET (1..N) : s # {} => StepsWithin(N, A, h, s)
  <2>1. NewRun \in A[0]
    BY <1>1, <1>2, <1>3 DEF SoundRun, N
  <2>2. \A k \in 1..N : \A j \in 0..(k - 1) : \A x \in A[j] : step[<<x, k>>] \in A[k]
    BY <1>4
  <2> QED BY <1>1, <2>1, <2>2, FoldTable
<1>6. Columns(h, sch, T)
  <2>1. ASSUME NEW s \in SUBSET (1..N), s # {}
        PROVE  step[<<h[s \ {Max(s)}], Max(s)>>] = NextRun(h[s \ {Max(s)}], sch, T, Max(s))
    BY <1>4, <1>5, <2>1 DEF StepsWithin
  <2> QED BY <1>5, <2>1 DEF Columns, N
<1>7. PICK g : Columns(g, sch, T) /\ RunPortfolio(sch, T) = g[1..N]
  BY <1>6, RunPortfolioIsFold DEF N
<1> DEFINE v == [k \in 0..N |-> g[1..k]]
<1>8. v[0] = NewRun /\ v[N] = g[1..N]
  <2>1. 1..0 = {} /\ {} \in SUBSET (1..N) /\ 0 \in 0..N /\ N \in 0..N
    BY <1>1
  <2> QED BY <1>7, <2>1 DEF Columns, N
<1>9. \A k \in 1..N : v[k] = NextRun(v[k - 1], sch, T, k)
  <2>1. ASSUME NEW k \in 1..N PROVE g[1..k] = NextRun(g[1..(k - 1)], sch, T, k)
    <3>1. /\ 1..k \in SUBSET (1..N) /\ 1..k # {} /\ Max(1..k) = k
          /\ (1..k) \ {k} = 1..(k - 1)
      BY <1>1, FirstOnes
    <3> QED BY <1>7, <3>1 DEF Columns, N
  <2>2. \A k \in 1..N : k \in 0..N /\ k - 1 \in 0..N
    BY <1>1
  <2> QED BY <2>1, <2>2
<1> HIDE DEF v
<1>10. \A k \in 0..N : v[k] \in B[k]
  <2>1. v[0] \in B[0]
    BY <1>1, <1>2, <1>3, <1>8
  <2>2. \A k \in 1..N : v[k - 1] \in B[k - 1] => v[k] \in B[k]
    <3>1. ASSUME NEW k \in 1..N, v[k - 1] \in B[k - 1] PROVE v[k] \in B[k]
      <4>1. k - 1 \in 0..N /\ k \in 0..N /\ k - 1 < N /\ (k - 1) + 1 = k
        BY <1>1
      <4>2. v[k - 1] \in Runs /\ SoundRun(v[k - 1], T, k - 1)
        BY <1>3, <3>1, <4>1
      <4>3. Known(v[k - 1], T, k)
        BY <4>1, <4>2 DEF SoundRun, N
      <4>4. v[k] \in Runs /\ SoundRun(v[k], T, k)
        BY <1>9, <4>2, <4>3, NextRunIs DEF N
      <4> QED BY <1>3, <4>1, <4>4
    <3> QED BY <3>1
  <2> QED BY <1>1, <2>1, <2>2, ChainReaches
<1>11. ColumnChain(v, sch, T)
  BY <1>3, <1>8, <1>9, <1>10 DEF ColumnChain, N
<1> QED BY <1>7, <1>8, <1>11 DEF N

\* portfolio_engine.py:245-261: over any tape, a basket killed before the last column is flat.
THEOREM KilledIsFlat ==
  ASSUME NEW T \in Tapes, NEW sch, RunPortfolio(sch, T).book.killed,
         Len(RunPortfolio(sch, T).curve) < Len(T)
  PROVE  \A l \in DOMAIN Legs : RunPortfolio(sch, T).book.pos[l].net = 0
<1>1. Len(T) \in Nat
  BY DEF Tapes
<1>2. CASE Len(T) < 2
  <2>1. RunPortfolio(sch, T) = NewRun
    BY <1>2 DEF RunPortfolio
  <2> QED BY <2>1 DEF NewRun, NewBook
<1>3. CASE Len(T) >= 2
  <2>1. SoundRun(RunPortfolio(sch, T), T, Len(T))
    BY <1>1, <1>3, RunPortfolioIs DEF ColumnChain
  <2>2. Emptied(RunPortfolio(sch, T), LegCount)
    BY <2>1 DEF SoundRun
  <2> QED BY <2>2, LegsAre DEF Emptied
<1> QED BY <1>1, <1>2, <1>3

\* portfolio_engine.py:205-311: over any tape, a run over one more column has the fills and
\* the equity curve of the run before it, and goes on from there.
THEOREM RunGoesOn ==
  ASSUME NEW F, NEW T, Shorter(F, T), Len(F) >= 2, NEW sch
  PROVE  /\ IsPrefix(RunPortfolio(sch, F).fills, RunPortfolio(sch, T).fills)
         /\ IsPrefix(RunPortfolio(sch, F).curve, RunPortfolio(sch, T).curve)
<1> DEFINE m == Len(F)
<1>1. /\ m \in Nat /\ m >= 2 /\ F \in Tapes /\ T \in Tapes /\ Len(T) = m + 1
      /\ m - 1 \in Nat /\ m - 1 \in 0..m /\ m \in 0..m /\ m \in 1..m
      /\ m - 1 \in 0..(m + 1) /\ m \in 0..(m + 1) /\ m \in 1..(m + 1)
      /\ m + 1 \in 0..(m + 1) /\ m + 1 \in 1..(m + 1) /\ (m + 1) - 1 = m /\ (m - 1) + 1 = m
  BY DEF Shorter, Tapes
<1> HIDE DEF m
<1>2. PICK u : ColumnChain(u, sch, F) /\ RunPortfolio(sch, F) = u[m]
  BY <1>1, RunPortfolioIs DEF m
<1>3. Len(T) >= 2
  BY <1>1
<1>4. PICK v : ColumnChain(v, sch, T) /\ RunPortfolio(sch, T) = v[m + 1]
  BY <1>1, <1>3, RunPortfolioIs
<1>5. \A k \in 1..m : /\ u[k - 1] \in Runs /\ v[k - 1] \in Runs
                      /\ Known(u[k - 1], F, k) /\ Known(v[k - 1], T, k)
  <2>1. ASSUME NEW k \in 1..m
        PROVE  /\ u[k - 1] \in Runs /\ v[k - 1] \in Runs
               /\ Known(u[k - 1], F, k) /\ Known(v[k - 1], T, k)
    <3>1. /\ k - 1 \in 0..m /\ k - 1 \in 0..(m + 1) /\ k - 1 < m /\ k - 1 < m + 1
          /\ (k - 1) + 1 = k
      BY <1>1
    <3>2. SoundRun(u[k - 1], F, k - 1) /\ SoundRun(v[k - 1], T, k - 1)
      BY <1>1, <1>2, <1>4, <3>1 DEF ColumnChain, m
    <3> QED BY <1>1, <3>1, <3>2 DEF SoundRun, m
  <2> QED BY <2>1
<1>6. \A k \in 1..(m - 1) : u[k - 1] = v[k - 1] => u[k] = v[k]
  <2>1. ASSUME NEW k \in 1..(m - 1), u[k - 1] = v[k - 1] PROVE u[k] = v[k]
    <3>1. k \in 1..m /\ k < m /\ k \in 1..(m + 1)
      BY <1>1
    <3>2. NextRun(u[k - 1], sch, F, k) = NextRun(v[k - 1], sch, T, k)
      BY <1>5, <2>1, <3>1, OnColumnSame DEF NextRun, m
    <3> QED BY <1>1, <1>2, <1>4, <3>1, <3>2 DEF ColumnChain, m
  <2> QED BY <2>1
<1>7. u[m - 1] = v[m - 1]
  <2>1. u[0] = v[0]
    BY <1>2, <1>4 DEF ColumnChain
  <2> QED BY <1>1, <1>6, <2>1, ChainsAgree
<1> DEFINE r == u[m - 1]
           before == u[m]
           after == v[m]
           now == v[m + 1]
<1>8. r \in Runs /\ Known(r, F, m) /\ Known(r, T, m)
  BY <1>1, <1>5, <1>7
<1>9. before = NextRun(r, sch, F, m) /\ after = NextRun(r, sch, T, m)
  BY <1>1, <1>2, <1>4, <1>7 DEF ColumnChain, m
<1>10. now = NextRun(after, sch, T, m + 1)
  BY <1>1, <1>4 DEF ColumnChain
<1>11. before \in Runs /\ after \in Runs /\ now \in Runs /\ Known(after, T, m + 1)
  <2>1. SoundRun(before, F, m) /\ SoundRun(after, T, m) /\ SoundRun(now, T, m + 1)
    BY <1>1, <1>2, <1>4 DEF ColumnChain, m
  <2> QED BY <1>1, <2>1 DEF SoundRun
<1> HIDE DEF r, before, after, now
<1>12. Continues(before.fills, after.fills) /\ Continues(before.curve, after.curve)
  <2>1. m \in 1..Len(F) /\ m \in 1..Len(T) /\ m = Len(F)
    BY <1>1 DEF m
  <2>2. CASE r.book.killed
    <3>1. before = after
      BY <1>9, <2>2 DEF NextRun
    <3> QED BY <1>11, <3>1 DEF Runs, Continues
  <2>3. CASE ~r.book.killed
    <3>1. before = Seen(r, F, m) /\ Seen(r, F, m) = Seen(r, T, m)
      BY <1>1, <1>8, <1>9, <2>1, <2>3, OnColumnIs, OnColumnSame DEF NextRun
    <3>2. after = OnColumn(r, sch, T, m)
      BY <1>9, <2>3 DEF NextRun
    <3>3. Columned(r, after, T, m)
      BY <1>1, <1>8, <2>1, <3>2, OnColumnIs
    <3>4. Seen(r, T, m).fills = r.fills
      BY <1>1, <1>8, <2>1, SeenIs
    <3> QED BY <1>11, <3>1, <3>3, <3>4 DEF Columned, Runs, Continues
  <2> QED BY <2>2, <2>3
<1>13. Continues(after.fills, now.fills) /\ Continues(after.curve, now.curve)
  BY <1>1, <1>10, <1>11, NextRunIs
<1>14. /\ before.fills \in Seq(LegFill) /\ after.fills \in Seq(LegFill)
       /\ now.fills \in Seq(LegFill) /\ before.curve \in Seq(Int)
       /\ after.curve \in Seq(Int) /\ now.curve \in Seq(Int)
  BY <1>11 DEF Runs
<1>15. Continues(before.fills, now.fills) /\ Continues(before.curve, now.curve)
  BY <1>12, <1>13, <1>14, ContinuesOn
<1>16. IsPrefix(before.fills, now.fills) /\ IsPrefix(before.curve, now.curve)
  BY <1>14, <1>15, PrefixIs
<1> QED BY <1>2, <1>4, <1>16 DEF before, now

-----------------------------------------------------------------------------
(* An equity leg is sold short only into a drop.                           *)

\* No equity leg can be sold below the mark that sized the sale.
NoDrop(T) ==
  \A i \in 1..(Len(T) - 1), l \in DOMAIN Legs :
    Legs[l].equity /\ BarAt(T, l, i + 1) # NoBar
      => FillPrice(T, l, i + 1, -1) >= BarAt(T, l, i).close
Long(r) == \A l \in DOMAIN Legs : Legs[l].equity => r.book.pos[l].net >= 0

\* What is worth no more than so many units at one price is no more units at a higher one.
LEMMA NoMoreUnits ==
  ASSUME NEW x \in Nat, NEW n \in Nat, NEW mark \in Nat, NEW price \in Nat \ {0},
         x <= n * mark, mark <= price
  PROVE  x \div price \in Nat /\ x \div price <= n
<1> DEFINE q == x \div price
<1>1. q \in Nat /\ price * q <= x
  OBVIOUS
<1> HIDE DEF q
<1>2. n * mark <= n * price
  OBVIOUS
<1>3. {price * q, n * mark, n * price} \subseteq Nat
  BY <1>1
<1>4. price * q <= n * price
  BY <1>1, <1>2, <1>3
<1>5. ASSUME q > n PROVE FALSE
  <2>1. price * (n + 1) <= price * q
    BY <1>1, <1>5
  <2>2. price * (n + 1) = n * price + price
    OBVIOUS
  <2> QED BY <1>3, <1>4, <2>1, <2>2
<1> QED BY <1>1, <1>5 DEF q

\* What a leg is to be worth is not negative.
Targets(T, i, marks, w, budget) ==
  /\ Setting(T, i, marks, w, budget) /\ marks = MarksAt(T, i) /\ budget >= 0
  /\ \A l \in DOMAIN Legs : w.num[l] >= 0 /\ marks[l] >= 0

\* A sale sells no more than the position, unless the price fell.
LEMMA OrderedLong ==
  ASSUME NEW T, NEW i, NEW marks, NEW w, NEW budget, Targets(T, i, marks, w, budget), NoDrop(T),
         NEW r \in Runs, Long(r), NEW l \in DOMAIN Legs
  PROVE  Long(Ordered(r, T, l, i, marks, w, budget))
<1> DEFINE delta == Delta(r, l, marks, w, budget)
           side == IF delta > 0 THEN 1 ELSE -1
           price == FillPrice(T, l, i + 1, side)
           signed == side * (Size(delta) \div price)
           net == r.book.pos[l].net
           target == (budget * w.num[l] * Legs[l].leverage) \div w.den
           q == Ordered(r, T, l, i, marks, w, budget)
<1>1. /\ T \in Tapes /\ i \in 1..(Len(T) - 1) /\ i + 1 \in Int /\ i + 1 <= Len(T)
      /\ marks[l] \in Nat /\ budget \in Nat /\ w.den \in Nat \ {0} /\ w.num[l] \in Nat
      /\ marks[l] = BarAt(T, l, i).close
  <2>1. Len(T) \in Nat
    BY DEF Targets, Setting, Tapes
  <2> QED BY <2>1 DEF Targets, Setting, MarksAt
<1>2. net \in Int
  <2>1. r.book.pos \in [DOMAIN Legs -> LegPosition]
    BY DEF Runs, LegBook
  <2> QED BY <2>1 DEF LegPosition
<1>3. q = IF \/ delta = 0 \/ BarAt(T, l, i + 1) = NoBar
             \/ ~Venue(r, l, delta, T[i + 1].ts) \/ price <= 0
          THEN r ELSE Filling(r, l, signed, price, i + 1)
  BY DEF Ordered
<1>4. delta = target - Size(net) * marks[l]
  BY DEF Delta, NotionalOf, Exposure
<1>5. target \in Int /\ (Legs[l].leverage >= 0 => target >= 0)
  <2>1. Legs[l].leverage \in Int
    BY LegsAre
  <2>2. \A a, b \in Nat, c \in Int : a * b * c \in Int /\ (c >= 0 => a * b * c >= 0)
    OBVIOUS
  <2>3. \A x \in Int, d \in Nat \ {0} : x \div d \in Int /\ (x >= 0 => x \div d >= 0)
    OBVIOUS
  <2> HIDE DEF target
  <2> QED BY <1>1, <2>1, <2>2, <2>3 DEF target
<1>6. delta \in Int
  <2> HIDE DEF delta, target, net
  <2>1. Size(net) \in Int /\ marks[l] \in Int
    BY <1>1, <1>2 DEF Size
  <2>2. \A a, b, c \in Int : a - b * c \in Int
    OBVIOUS
  <2> QED BY <1>4, <1>5, <2>1, <2>2
<1>7. side \in {1, -1} /\ side \in Int
  OBVIOUS
<1>8. price \in Int
  <2> HIDE DEF side
  <2> QED BY <1>1, <1>7, PriceIs
<1>9. CASE q = r
  BY <1>9
<1>10. CASE /\ q = Filling(r, l, signed, price, i + 1) /\ delta # 0 /\ price > 0
            /\ BarAt(T, l, i + 1) # NoBar /\ Venue(r, l, delta, T[i + 1].ts)
  <2>1. Size(delta) \in Nat /\ price \in Nat \ {0}
    <3> HIDE DEF delta, price
    <3> QED BY <1>6, <1>8, <1>10 DEF Size
  <2>2. Size(delta) \div price \in Nat
    <3> HIDE DEF delta, price
    <3> QED BY <2>1
  <2>3. signed \in Int
    <3> HIDE DEF delta, price, side
    <3> QED BY <1>7, <2>2
  <2>4. /\ q.book.pos[l].net = net + signed
        /\ \A k \in DOMAIN Legs \ {l} : q.book.pos[k] = r.book.pos[k]
    <3> HIDE DEF signed, price
    <3> QED BY <1>1, <1>8, <1>10, <2>3, FillingIs
  <2>5. ASSUME Legs[l].equity PROVE net + signed >= 0
    <3>1. net >= 0 /\ (delta < 0 => net # 0) /\ Legs[l].leverage = 1
      BY <1>10, <2>5, LegsAssumption DEF Long, Venue
    <3>2. CASE delta > 0
      <4>1. signed = Size(delta) \div price
        <5>1. side = 1
          BY <3>2
        <5> HIDE DEF delta, price, side
        <5> QED BY <2>2, <5>1
      <4> HIDE DEF delta, price, signed
      <4> QED BY <1>2, <2>2, <3>1, <4>1
    <3>3. CASE delta < 0
      <4>1. side = -1
        BY <1>6, <3>3
      <4>2. signed = -(Size(delta) \div price)
        <5> HIDE DEF delta, price, side
        <5> QED BY <2>2, <4>1
      <4>3. marks[l] <= price
        BY <1>1, <1>10, <2>5, <4>1 DEF NoDrop
      <4>4. Size(delta) <= net * marks[l]
        <5>1. Size(net) = net /\ target >= 0
          BY <1>2, <1>5, <3>1 DEF Size
        <5>2. delta = target - net * marks[l]
          BY <1>4, <5>1
        <5>3. net * marks[l] \in Int
          BY <1>1, <1>2
        <5> HIDE DEF delta, net, target
        <5> QED BY <1>5, <1>6, <3>3, <5>1, <5>2, <5>3 DEF Size
      <4>5. Size(delta) \div price <= net
        <5>1. net \in Nat
          BY <1>2, <3>1
        <5> HIDE DEF delta, price, net
        <5> QED BY <1>1, <2>1, <4>3, <4>4, <5>1, NoMoreUnits
      <4> HIDE DEF delta, price, net, signed
      <4> QED BY <1>2, <2>2, <4>2, <4>5
    <3> QED BY <1>6, <1>10, <3>2, <3>3
  <2> HIDE DEF q, signed, net
  <2>6. ASSUME NEW k \in DOMAIN Legs, Legs[k].equity PROVE q.book.pos[k].net >= 0
    <3>1. CASE k = l
      BY <2>4, <2>5, <2>6, <3>1
    <3>2. CASE k # l
      BY <2>4, <2>6, <3>2 DEF Long
    <3> QED BY <3>1, <3>2
  <2> QED BY <2>6 DEF Long, q
<1>11. \/ q = r
       \/ /\ q = Filling(r, l, signed, price, i + 1) /\ delta # 0 /\ price > 0
          /\ BarAt(T, l, i + 1) # NoBar /\ Venue(r, l, delta, T[i + 1].ts)
  <2>1. ~(price <= 0) => price > 0
    <3> HIDE DEF price
    <3> QED BY <1>8
  <2> HIDE DEF q, signed, delta, price
  <2> QED BY <1>3, <2>1
<1> QED BY <1>9, <1>10, <1>11

\* The orders of a rebalancing, leg after leg.
LEMMA OrdersLong ==
  ASSUME NEW T, NEW i, NEW marks, NEW w, NEW budget, Targets(T, i, marks, w, budget), NoDrop(T),
         NEW base, base \in Runs, Known(base, T, i + 1), Long(base)
  PROVE  Long(AllOrdered(base, T, i, marks, w, budget))
<1> DEFINE N == LegCount
           B == [k \in 0..N |-> {r \in Runs : Advanced(base, r, T, i + 1) /\ Long(r)}]
<1>1. N \in Nat /\ DOMAIN Legs = 1..N /\ Setting(T, i, marks, w, budget)
  BY LegsAre DEF Targets
<1>2. PICK v : /\ OrderChain(v, base, T, i, marks, w, budget)
               /\ AllOrdered(base, T, i, marks, w, budget) = v[N]
  BY <1>1, OrdersAre
<1>3. \A k \in 0..N : B[k] = {r \in Runs : Advanced(base, r, T, i + 1) /\ Long(r)}
  OBVIOUS
<1> HIDE DEF B, N
<1>4. v[0] \in B[0]
  <2>1. v[0] = base /\ Advanced(base, base, T, i + 1) /\ 0 \in 0..N
    BY <1>1, <1>2, FurtherSelf DEF OrderChain, Advanced
  <2> QED BY <1>3, <2>1
<1>5. ASSUME NEW k \in 1..N, v[k - 1] \in B[k - 1] PROVE v[k] \in B[k]
  <2>1. k - 1 \in 0..N /\ k \in 0..N /\ k \in DOMAIN Legs
    BY <1>1
  <2>2. v[k - 1] \in Runs /\ Advanced(base, v[k - 1], T, i + 1) /\ Long(v[k - 1])
    BY <1>3, <1>5, <2>1
  <2>3. v[k] = Ordered(v[k - 1], T, k, i, marks, w, budget)
    BY <1>2 DEF OrderChain, N
  <2>4. Advanced(base, v[k], T, i + 1) /\ Long(v[k])
    BY <1>1, <2>1, <2>2, <2>3, OrderedIs, OrderedLong
  <2> QED BY <1>3, <2>1, <2>4 DEF Advanced, Further
<1>6. v[N] \in B[N] /\ N \in 0..N
  <2>1. \A k \in 1..N : v[k - 1] \in B[k - 1] => v[k] \in B[k]
    BY <1>5
  <2>2. \A k \in 0..N : v[k] \in B[k]
    BY <1>1, <1>4, <2>1, ChainReaches
  <2> QED BY <1>1, <2>2
<1> QED BY <1>2, <1>3, <1>6

\* A closing price is not negative, and neither are weights and budgets.
LEMMA TargetsAre ==
  ASSUME NEW T \in Tapes, NEW i \in 1..(Len(T) - 1), NEW seen \in Runs, NEW sch
  PROVE  Targets(T, i, MarksAt(T, i), Weights(sch, T, i), Budget(seen, MarksAt(T, i)))
<1>1. Len(T) \in Nat /\ i \in Int /\ i <= Len(T) /\ DOMAIN T = 1..Len(T)
  BY DEF Tapes
<1>2. ASSUME NEW l \in DOMAIN Legs PROVE MarksAt(T, i)[l] >= 0
  <2> DEFINE c == ColumnOf(T, l, i)
  <2>1. c \in Of(T, l, i) \cup {0}
    BY <1>1, ColumnIs
  <2> HIDE DEF c
  <2>2. c = 0 \/ c \in 1..Len(T)
    BY <1>1, <2>1 DEF Of
  <2>3. ASSUME NEW j \in 1..Len(T) PROVE T[j].bar[l] \in LegBars \cup {NoBar}
    <3>1. T[j] \in Column
      BY <1>1 DEF Tapes
    <3>2. T[j].bar \in [DOMAIN Legs -> LegBars \cup {NoBar}]
      BY <3>1 DEF Column
    <3> QED BY <3>2
  <2>4. BarAt(T, l, i) \in LegBars \cup {NoBar}
    BY <2>2, <2>3 DEF BarAt, c
  <2>5. BarAt(T, l, i).close \in Nat
    BY <2>4, LegBarsAssumption DEF NoBar
  <2> QED BY <2>5 DEF MarksAt
<1>3. Budget(seen, MarksAt(T, i)) >= 0
  <2> DEFINE gross == Gross(seen.book, MarksAt(T, i))
  <2>1. MarksAt(T, i) \in [DOMAIN Legs -> Int] /\ seen.book \in LegBook
    BY <1>1, MarksAre DEF Runs
  <2>2. gross \in Int /\ StartingEquity * Unit >= 0
    BY <2>1, WorthIs, StartingEquityAssumption DEF Unit
  <2> HIDE DEF gross
  <2> QED BY <2>2 DEF Budget, gross
<1>4. \A l \in DOMAIN Legs : Weights(sch, T, i).num[l] >= 0
  BY WeightsAre
<1> QED BY <1>2, <1>3, <1>4, SettingIs DEF Targets

\* What a column does.
LEMMA NextRunLong ==
  ASSUME NEW T \in Tapes, NoDrop(T), NEW i \in 1..Len(T), NEW run \in Runs, NEW sch,
         Known(run, T, i), Long(run)
  PROVE  Long(NextRun(run, sch, T, i))
<1> DEFINE seen == Seen(run, T, i)
           marks == MarksAt(T, i)
           w == Weights(sch, T, i)
           q == OnColumn(run, sch, T, i)
           ordered == AllOrdered(Counted(seen), T, i, marks, w, Budget(seen, marks))
<1>1. Len(T) \in Nat /\ i \in Int
  BY DEF Tapes
<1>2. seen \in Runs /\ seen.book.pos = run.book.pos
  BY SeenIs
<1>3. q = seen \/ (i # Len(T) /\ (q = Flattened(seen, T, i + 1) \/ q = ordered))
  BY OnColumnCases
<1> HIDE DEF seen, marks, w, q, ordered
<1>4. Long(seen)
  BY <1>2 DEF Long
<1>5. ASSUME i # Len(T) PROVE Known(seen, T, i + 1) /\ i + 1 \in 1..Len(T) /\ i \in 1..(Len(T) - 1)
  <2>1. Known(seen, T, i)
    BY <1>2 DEF Known
  <2> QED BY <1>1, <1>2, <1>5, <2>1, KnownOn
<1>6. ASSUME i # Len(T), q = Flattened(seen, T, i + 1) PROVE Long(q)
  <2>1. Emptied(q, LegCount)
    BY <1>2, <1>5, <1>6, ClosesAre
  <2> QED BY <2>1, LegsAre DEF Emptied, Long
<1>7. ASSUME i # Len(T), q = ordered PROVE Long(q)
  <2>1. /\ Targets(T, i, marks, w, Budget(seen, marks))
        /\ Counted(seen) \in Runs /\ Counted(seen).book = seen.book
    BY <1>2, <1>5, <1>7, TargetsAre, SettingIs DEF marks, w
  <2>2. Known(Counted(seen), T, i + 1) /\ Long(Counted(seen))
    BY <1>4, <1>5, <1>7, <2>1 DEF Known, Long
  <2> QED BY <1>7, <2>1, <2>2, OrdersLong DEF ordered
<1>8. Long(q)
  BY <1>3, <1>4, <1>6, <1>7
<1> QED BY <1>8 DEF NextRun, q

\* portfolio_engine.py:285-311: an equity leg is long only on every tape in which none opens,
\* less the slippage, below the close its orders were sized by: what the venue rules let
\* through is the drop between the two.
THEOREM LongWithoutDrops ==
  ASSUME NEW T \in Tapes, NEW sch, NoDrop(T)
  PROVE  \A l \in DOMAIN Legs : Legs[l].equity => RunPortfolio(sch, T).book.pos[l].net >= 0
<1> DEFINE B == [k \in 0..Len(T) |-> {r \in Runs : Long(r)}]
<1>1. Len(T) \in Nat /\ \A k \in 0..Len(T) : B[k] = {r \in Runs : Long(r)}
  BY DEF Tapes
<1>2. Long(NewRun)
  BY DEF NewRun, NewBook, Flat, Long
<1>3. CASE Len(T) < 2
  <2>1. RunPortfolio(sch, T) = NewRun
    BY <1>3 DEF RunPortfolio
  <2> QED BY <1>2, <2>1 DEF Long
<1>4. CASE Len(T) >= 2
  <2>1. PICK v : ColumnChain(v, sch, T) /\ RunPortfolio(sch, T) = v[Len(T)]
    BY <1>4, RunPortfolioIs
  <2> HIDE DEF B
  <2>2. v[0] \in B[0]
    <3>1. v[0] = NewRun /\ 0 \in 0..Len(T) /\ v[0] \in Runs
      BY <1>1, <2>1 DEF ColumnChain, SoundRun
    <3> QED BY <1>1, <1>2, <3>1
  <2>3. ASSUME NEW k \in 1..Len(T), v[k - 1] \in B[k - 1] PROVE v[k] \in B[k]
    <3>1. k - 1 \in 0..Len(T) /\ k \in 0..Len(T) /\ k - 1 < Len(T) /\ (k - 1) + 1 = k
      BY <1>1
    <3>2. /\ SoundRun(v[k - 1], T, k - 1) /\ SoundRun(v[k], T, k)
          /\ v[k] = NextRun(v[k - 1], sch, T, k)
      BY <2>1, <3>1 DEF ColumnChain
    <3>3. v[k - 1] \in Runs /\ v[k] \in Runs /\ Known(v[k - 1], T, k)
      BY <3>1, <3>2 DEF SoundRun
    <3>4. Long(v[k - 1])
      BY <1>1, <2>3, <3>1
    <3>5. Long(v[k])
      BY <3>2, <3>3, <3>4, NextRunLong
    <3> QED BY <1>1, <3>1, <3>3, <3>5
  <2>4. \A k \in 0..Len(T) : v[k] \in B[k]
    <3>1. \A k \in 1..Len(T) : v[k - 1] \in B[k - 1] => v[k] \in B[k]
      BY <2>3
    <3> QED BY <1>1, <2>2, <3>1, ChainReaches
  <2>5. Long(v[Len(T)])
    BY <1>1, <2>4
  <2> QED BY <2>1, <2>5 DEF Long
<1> QED BY <1>1, <1>3, <1>4

-----------------------------------------------------------------------------
(* Every tape.                                                             *)

\* A tape without its last column.
LEMMA FrontIs ==
  ASSUME NEW T \in Tapes, Len(T) > 2
  PROVE  Shorter(Front(T), T) /\ Len(Front(T)) >= 2
<1>1. Len(T) \in Nat /\ Len(T) - 1 \in 0..Len(T) /\ T # <<>>
  BY DEF Tapes
<1>2. Front(T) = SubSeq(T, 1, Len(T) - 1)
  BY DEF Front
<1>3. /\ SubSeq(T, 1, Len(T) - 1) \in Seq(Column)
      /\ Len(SubSeq(T, 1, Len(T) - 1)) = Len(T) - 1
      /\ \A j \in 1..(Len(T) - 1) : SubSeq(T, 1, Len(T) - 1)[j] = T[j]
  BY <1>1 DEF Tapes
<1> QED BY <1>1, <1>2, <1>3 DEF Shorter, Tapes

Taped == legTape \in Tapes

\* What the runs check holds of every tape.
LEMMA SoundOnTapes == Taped => BasketRunsAreSound
<1> SUFFICES ASSUME legTape \in Tapes PROVE NoLookAhead /\ KilledEndsFlat
  BY DEF BasketRunsAreSound, Taped
<1>1. KilledEndsFlat
  BY KilledIsFlat DEF KilledEndsFlat
<1>2. NoLookAhead
  BY FrontIs, RunGoesOn DEF NoLookAhead
<1> QED BY <1>1, <1>2

\* The candles the ingestor stores make tapes.
LEMMA TapeStep ==
  ASSUME legTape \in Tapes, NextColumn \/ StoreAgain
  PROVE  legTape' \in Tapes
<1>1. CASE NextColumn
  <2>1. PICK bar \in [DOMAIN Legs -> LegBars \cup {NoBar}] :
          legTape' = Append(legTape, [ts |-> Len(legTape) + 1, bar |-> bar])
    BY <1>1 DEF NextColumn
  <2>2. [ts |-> Len(legTape) + 1, bar |-> bar] \in Column
    <3>1. Len(legTape) + 1 \in Nat
      BY DEF Tapes
    <3> QED BY <3>1 DEF Column
  <2> QED BY <2>1, <2>2 DEF Tapes
<1>2. CASE StoreAgain
  <2> DEFINE n == Len(legTape)
  <2>1. PICK l \in DOMAIN Legs, b \in LegBars :
          legTape # <<>> /\ legTape' = [legTape EXCEPT ![n].bar[l] = b]
    BY <1>2 DEF StoreAgain
  <2>2. n \in 1..n /\ DOMAIN legTape = 1..n /\ legTape[n] \in Column
    BY <2>1 DEF Tapes
  <2> DEFINE bars == [legTape[n].bar EXCEPT ![l] = b]
             new == [legTape[n] EXCEPT !.bar = bars]
  <2>3. bars \in [DOMAIN Legs -> LegBars \cup {NoBar}]
    BY <2>2 DEF Column
  <2>4. legTape' = [legTape EXCEPT ![n] = new]
    BY <2>1, <2>2 DEF Column
  <2> HIDE DEF bars
  <2>5. new \in Column
    BY <2>2, <2>3 DEF Column
  <2> HIDE DEF new, n
  <2>6. [legTape EXCEPT ![n] = new] \in Seq(Column)
    BY <2>2, <2>5 DEF Tapes
  <2> QED BY <2>4, <2>6 DEF Tapes
<1> QED BY <1>1, <1>2

\* The candles table always is a tape.
LEMMA AlwaysTaped == MCSpec => []Taped
<1>1. MCInit => Taped
  BY DEF MCInit, PortfolioInit, Tapes, Taped
<1>2. Taped /\ [PaperPart \/ BasketPart]_<<vars, portfolioVars, part>> => Taped'
  <2> SUFFICES ASSUME legTape \in Tapes,
                      [PaperPart \/ BasketPart]_<<vars, portfolioVars, part>>
               PROVE  legTape' \in Tapes
    BY DEF Taped
  <2>1. CASE PaperPart
    BY <2>1 DEF PaperPart, portfolioVars
  <2>2. CASE BasketPart
    <3>1. NextColumn \/ PortfolioNext
      BY <2>2 DEF BasketPart
    <3>2. CASE NextColumn \/ StoreAgain
      BY <3>2, TapeStep
    <3>3. CASE CreatePortfolio \/ StopPortfolio \/ LoopCycle
      BY <3>3 DEF CreatePortfolio, StopPortfolio, LoopCycle
    <3>4. ASSUME NEW t \in Tickers, TickStep(t) \/ TickFails(t) PROVE legTape' = legTape
      BY <3>4 DEF TickStep, TickRow, TickLeg, TickWrite, TickFails
    <3>5. CASE WorkerRestarts
      BY <3>5 DEF WorkerRestarts
    <3> QED BY <3>1, <3>2, <3>3, <3>4, <3>5 DEF PortfolioNext
  <2>3. CASE UNCHANGED <<vars, portfolioVars, part>>
    BY <2>3 DEF portfolioVars
  <2> QED BY <2>1, <2>2, <2>3
<1> QED BY <1>1, <1>2, PTL DEF MCSpec

\* portfolio_engine.py:141-289: for any tape, legs, weighting scheme, slippage and fees,
\* a run of the basket engine over one more column repeats the run before it and goes on
\* from there, and a basket killed before the last column ends without a position.
THEOREM BasketsAreSound == MCSpec => []BasketRunsAreSound
  BY AlwaysTaped, SoundOnTapes, PTL

\* portfolio_engine.py:294-311: whatever the legs, their weights, the scheme and the fees, a
\* basket whose candles were stored in any order, late and revised ones too, is never short
\* of an equity leg unless one opened, less the slippage, below the close before.
THEOREM BasketsStayLong == MCSpec => [](NoDrop(legTape) => LongOnly)
<1>1. Taped => (NoDrop(legTape) => LongOnly)
  BY LongWithoutDrops DEF Taped, LongOnly
<1> QED BY <1>1, AlwaysTaped, PTL
=============================================================================
