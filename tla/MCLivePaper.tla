---------------------------- MODULE MCLivePaper ----------------------------
(***************************************************************************)
(* Candles and strategies to check LivePaper with, and the legs of a       *)
(* basket for LivePortfolio.                                               *)
(***************************************************************************)
EXTENDS LivePaper, LivePortfolio

Rise == [open |-> 105, high |-> 111, low |-> 104, close |-> 110]
Fall == [open |-> 105, high |-> 106, low |-> 86, close |-> 88]
Slump == [open |-> 88, high |-> 89, low |-> 70, close |-> 72]

RiseFall == {Rise, Fall}
RiseFallSlump == {Rise, Fall, Slump}
Quiet == <<Fall, Fall>>

Both == {"trend_ema_cross", "pmm"}
Trend == {"trend_ema_cross"}

StockAndPerp == <<[equity |-> TRUE, weight |-> 3, leverage |-> 1],
                  [equity |-> FALSE, weight |-> 1, leverage |-> 2]>>
Up == [open |-> 100, close |-> 104]
Down == [open |-> 100, close |-> 97]
Gap == [open |-> 90, close |-> 80]
UpDownGap == {Up, Down, Gap}
Steps == {[open |-> 100, close |-> 100], [open |-> 100, close |-> 104],
          [open |-> 104, close |-> 104]}

(***************************************************************************)
(* Two ways to look at a session of one symbol: its book, on many candles  *)
(* and with both strategies, one coroutine after the other and no fault;   *)
(* and its life, on rising candles, with missed ones, coroutines that      *)
(* overlap, a crash or an await that throws.  And two at a session of a    *)
(* basket: the engine, on any candles, and the session on few of them,     *)
(* with late and revised ones, ticks that overlap and a failure.           *)
(***************************************************************************)
VARIABLE part

InBook == /\ Missing \notin ToSet(candles)
          /\ Len(candles) = MaxBars => row.strategy \in Trend /\ candles[3] = Rise
          /\ crashes = 0 /\ errors = 0 /\ row.status # "stopped"
          /\ creates = 0 => candles = Warmup
          /\ \E j \in Jobs : job[j].pc = "idle"

InLife == /\ row.strategy \in Trend
          /\ Len(candles) <= IF row.status = "stopped" THEN 4 ELSE 5
          /\ crashes + errors <= 1
          /\ \A i \in DOMAIN candles : IF i \in DOMAIN Quiet THEN candles[i] = Quiet[i]
                                        ELSE candles[i] \in {Rise, Missing}

Within == IF part = "book" THEN InBook ELSE InLife

\* In the book part candles come between two coroutines.
InTurn == part = "book" /\ candles' # candles => \A j \in Jobs : job[j].pc = "idle"

PaperPart == /\ part \in {"book", "life"} /\ Next
             /\ UNCHANGED <<portfolioVars, part>> /\ Within' /\ InTurn

\* One of the legs trades round the clock; the first column fills nothing.
InEngine == \A i \in DOMAIN legTape, l \in DOMAIN Legs :
              ~Legs[l].equity => legTape[i].bar[l] \in IF i = 1 THEN {Up} ELSE LegBars

InSession == /\ Len(legTape) <= 3
             /\ \A i \in DOMAIN legTape, l \in DOMAIN Legs :
                  IF i < 3 \/ Legs[l].equity THEN legTape[i].bar[l] \in {Up, NoBar}
                  ELSE legTape[i].bar[l] \in {Up, Down, NoBar}
             /\ \A i \in 1..(Len(legTape) - 1) : legTape[i].bar = <<Up, Up>>
             /\ Len(legTape) < 2 => session.status = "none"

BasketPart == /\ UNCHANGED <<vars, part>>
              /\ \/ part = "engine" /\ NextColumn /\ InEngine'
                 \/ part = "session" /\ PortfolioNext /\ InSession'

\* What a part leaves alone has one initial value.
OneInit == /\ part # "engine" => scheme = "fixed"
           /\ part \in {"engine", "session"} => row.strategy \in Trend

MCInit == /\ Init /\ PortfolioInit
          /\ part \in {"book", "life", "engine", "session"} /\ OneInit
          /\ part \in {"book", "life"} => Within

MCSpec == /\ MCInit
          /\ [][PaperPart \/ BasketPart]_<<vars, portfolioVars, part>>
          /\ Fairness /\ PortfolioFairness

\* A recovery on its own.
ReplaySpec ==
  /\ Init /\ PortfolioInit /\ part = "replay"
  /\ [][Next /\ UNCHANGED <<portfolioVars, part>>]_<<vars, portfolioVars, part>>

\* A basket alone, on candles that open where the last one closed.
Joined == \A l \in DOMAIN Legs, i \in 2..Len(legTape) :
            /\ legTape[i - 1].bar[l] # NoBar
            /\ legTape[i].bar[l].open = legTape[i - 1].bar[l].close

BasketSpec ==
  /\ Init /\ PortfolioInit /\ part = "engine"
  /\ [][NextColumn /\ Joined' /\ UNCHANGED <<vars, part>>]_<<vars, portfolioVars, part>>

-----------------------------------------------------------------------------
(* Properties of the engine, on every tape.                                *)

\* No look-ahead: a run over one more column repeats the run before it, fill by
\* fill and point by point of the equity curve, and goes on from there.  It is
\* what makes running the engine again on every tick the advance of a session.
NoLookAhead ==
  part = "engine" /\ Len(legTape) > 2 =>
    LET before == RunPortfolio(scheme, Front(legTape))
        now == RunPortfolio(scheme, legTape)
    IN  IsPrefix(before.fills, now.fills) /\ IsPrefix(before.curve, now.curve)

\* A basket that was killed holds nothing from the next candles on, long or short.
KilledEndsFlat ==
  part = "engine" =>
    LET run == RunPortfolio(scheme, legTape)
    IN  run.book.killed /\ Len(run.curve) < Len(legTape) =>
          \A l \in DOMAIN Legs : run.book.pos[l].net = 0

\* On every tape a run of the basket engine neither looks ahead nor leaves a killed
\* basket open (portfolio_engine.py).
BasketRunsAreSound == NoLookAhead /\ KilledEndsFlat

-----------------------------------------------------------------------------
\* Of a session of one symbol what is saved, and of a session of a basket what is
\* reported, reaches the newest candles in the end, after restarts, failures and ticks
\* that overlap (live_paper.py:542-556, live_portfolio.py).
SessionsCatchUp == CatchesUp /\ ReportsCatchUp
=============================================================================
