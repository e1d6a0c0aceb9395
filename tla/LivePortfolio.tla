---------------------------- MODULE LivePortfolio ----------------------------
(***************************************************************************)
(* Multi-asset paper sessions, apps/worker/live_portfolio.py: one session  *)
(* whose row a loop and the request that creates it advance, each by       *)
(* running the engine again over the candles it fetched, one leg after the *)
(* other.  The ingestor stores the candles meanwhile: those of a new time, *)
(* one leg's later than another's, and a forming one again with other      *)
(* values.                                                                 *)
(***************************************************************************)
EXTENDS Basket

CONSTANTS Schemes, LegBars,      \* weighting schemes and candles to choose from
          BarsLimit,             \* LIVE_PORTFOLIO_BARS
          MaxColumns, MaxFailures  \* bounds

ASSUME LegBarsAssumption == LegBars \subseteq [open : Nat, close : Nat]

VARIABLES legTape,   \* the candles table, a column for each time
          scheme,    \* the session's weighting
          session,   \* its row: status, and the tape whose run the last tick wrote
          ticks,     \* the ticks in progress, of the loop and of create_session
          failures   \* awaits that threw and restarts, so far

portfolioVars == <<legTape, scheme, session, ticks, failures>>

Tickers == {"loop", "create"}

NoTick == [pc |-> "idle", got |-> <<>>]

PortfolioInit ==
  /\ legTape = <<>>
  /\ scheme \in Schemes
  /\ session = [status |-> "none", ran |-> <<>>]
  /\ ticks = [t \in Tickers |-> NoTick]
  /\ failures = 0

-----------------------------------------------------------------------------
(* What a tick runs the engine over.                                       *)

\* _fetch_bars: the newest candles of a leg, by column.
Window(l) ==
  LET has == {i \in DOMAIN legTape : legTape[i].bar[l] # NoBar}
  IN  [i \in DOMAIN legTape |->
         IF i \in has /\ Cardinality({j \in has : j > i}) < BarsLimit
         THEN legTape[i].bar[l] ELSE NoBar]

\* The union timeline of the windows: the times at which some leg has a candle.
Timeline(got) ==
  LET at(l, i) == IF i \in DOMAIN got[l] THEN got[l][i] ELSE NoBar
      column(i) == [ts |-> i, bar |-> [l \in DOMAIN Legs |-> at(l, i)]]
      all == [i \in 1..Len(legTape) |-> column(i)]
  IN  SelectSeq(all, LAMBDA c : \E l \in DOMAIN Legs : c.bar[l] # NoBar)

Newest == Timeline([l \in DOMAIN Legs |-> Window(l)])

-----------------------------------------------------------------------------
(* The requests, the loop and the ticks.                                   *)

Enter(t, pc) == ticks' = [ticks EXCEPT ![t] = [pc |-> pc, got |-> <<>>]]

\* create_session: an insert, or an update that sets a stopped session running
\* again; then a first tick.
CreatePortfolio ==
  /\ ticks["create"].pc = "idle"
  /\ session.status # "running"
  /\ session' = [session EXCEPT !.status = "running"]
  /\ Enter("create", "row")
  /\ UNCHANGED <<legTape, scheme, failures>>

StopPortfolio ==
  /\ session.status # "none"
  /\ session' = [session EXCEPT !.status = "stopped"]
  /\ UNCHANGED <<legTape, scheme, ticks, failures>>

\* _run: a cycle over the sessions that are running.
LoopCycle ==
  /\ ticks["loop"].pc = "idle"
  /\ session.status = "running"
  /\ Enter("loop", "row")
  /\ UNCHANGED <<legTape, scheme, session, failures>>

TickRow(t) ==
  /\ ticks[t].pc = "row"
  /\ Enter(t, IF session.status = "running" THEN "legs" ELSE "idle")
  /\ UNCHANGED <<legTape, scheme, session, failures>>

TickLeg(t) ==
  /\ ticks[t].pc = "legs"
  /\ LET got == Append(ticks[t].got, Window(Len(ticks[t].got) + 1))
     IN  ticks' = [ticks EXCEPT ![t] = [pc |-> IF Len(got) = Len(Legs) THEN "write" ELSE "legs",
                                        got |-> got]]
  /\ UNCHANGED <<legTape, scheme, session, failures>>

\* Mutation: only a newer candle is worth a write.
TickWriteNewer(t) ==
  /\ ticks[t].pc = "write"
  /\ LET tape == Timeline(ticks[t].got)
     IN  session' = IF \/ tape = <<>>
                       \/ session.ran # <<>> /\ Last(tape).ts <= Last(session.ran).ts
                    THEN session ELSE [session EXCEPT !.ran = tape]
  /\ Enter(t, "idle")
  /\ UNCHANGED <<legTape, scheme, failures>>

\* The engine runs and the row is updated by its id, whatever it says by now.  The
\* engine is a function of the tape, so the tape stands for the results.
TickWrite(t) ==
  /\ ticks[t].pc = "write"
  /\ LET tape == Timeline(ticks[t].got)
     IN  session' = IF tape = <<>> THEN session ELSE [session EXCEPT !.ran = tape]
  /\ Enter(t, "idle")
  /\ UNCHANGED <<legTape, scheme, failures>>

\* An await throws: the loop goes on with its next cycle, the request fails.
TickFails(t) ==
  /\ failures < MaxFailures
  /\ ticks[t].pc # "idle"
  /\ Enter(t, "idle")
  /\ failures' = failures + 1
  /\ UNCHANGED <<legTape, scheme, session>>

\* The worker restarts: the table is all a session has.
WorkerRestarts ==
  /\ failures < MaxFailures
  /\ \E t \in Tickers : ticks[t].pc # "idle"
  /\ ticks' = [t \in Tickers |-> NoTick]
  /\ failures' = failures + 1
  /\ UNCHANGED <<legTape, scheme, session>>

-----------------------------------------------------------------------------
(* The ingestor.                                                           *)

\* The first candles of a new time.
NextColumn ==
  /\ Len(legTape) < MaxColumns
  /\ \E bar \in [DOMAIN Legs -> LegBars \cup {NoBar}] :
       /\ \E l \in DOMAIN Legs : bar[l] # NoBar
       /\ legTape' = Append(legTape, [ts |-> Len(legTape) + 1, bar |-> bar])
  /\ UNCHANGED <<scheme, session, ticks, failures>>

\* The newest candle of a leg comes late, or again while it forms.
StoreAgain ==
  /\ legTape # <<>>
  /\ \E l \in DOMAIN Legs, b \in LegBars :
       LET old == Last(legTape).bar[l] IN
       /\ old # b
       /\ old # NoBar => old.open = b.open
       /\ legTape' = [legTape EXCEPT ![Len(legTape)].bar[l] = b]
  /\ UNCHANGED <<scheme, session, ticks, failures>>

TickStep(t) == TickRow(t) \/ TickLeg(t) \/ TickWrite(t)

PortfolioNext ==
  \/ CreatePortfolio \/ StopPortfolio \/ LoopCycle
  \/ \E t \in Tickers : TickStep(t) \/ TickFails(t)
  \/ WorkerRestarts
  \/ NextColumn \/ StoreAgain

PortfolioFairness ==
  /\ WF_portfolioVars(LoopCycle)
  /\ \A t \in Tickers : WF_portfolioVars(TickStep(t))

PortfolioSpec == PortfolioInit /\ [][PortfolioNext]_portfolioVars /\ PortfolioFairness

-----------------------------------------------------------------------------
(* Properties *)

\* Equity legs are long only, as the module's docstring says of the venue rules
\* it enforces.
LongOnly ==
  LET run == RunPortfolio(scheme, legTape)
  IN  \A l \in DOMAIN Legs : Legs[l].equity => run.book.pos[l].net >= 0

\* A session that stays running while no more candles are stored reports in the end
\* the run over the newest ones, the revised and the late ones too, whichever ticks
\* overlapped or failed.
ReportsCatchUp ==
  /\ <>[](session.status = "running" /\ legTape # <<>>)
  /\ <>[][legTape' = legTape]_legTape
  => <>[](session.ran = Newest)
=============================================================================
