------------------------------ MODULE LivePaper ------------------------------
(***************************************************************************)
(* One live paper-trading session, apps/worker/live_paper.py: the row in   *)
(* live_paper_sessions, the runtimes the worker holds in memory and the    *)
(* candles the ingestor writes.  Two coroutines of the worker work on the  *)
(* session: the loop that ticks every running session and the request that *)
(* creates (or creates again) the session.  Each goes from await to await, *)
(* so the steps below interleave; a request to stop is one UPDATE.         *)
(*                                                                         *)
(* A candle is known by its place in the series.  The ingestor stores the  *)
(* candle that is still forming, revises it until the next one opens, and  *)
(* may miss one and backfill it later.  The fetch limits (400 bars, and    *)
(* 200000 for a recovery) are not reached.                                 *)
(***************************************************************************)
EXTENDS PaperRuntime, FiniteSets

CONSTANTS Strategies,       \* the strategies a session may have
          Shapes,           \* the candles: [open, high, low, close]
          Warmup,           \* the candles before anything happens
          Outages,          \* may candles be missed
          Revisions,        \* may the last candle be revised
          Overlap,          \* may the loop and a request work at the same time
          MaxGap,           \* RECOVERY_MAX_GAP_BARS
          MaxBars,          \* bound on the series
          MaxCreates, MaxCrashes, MaxErrors   \* bounds on what goes on

Missing == [open |-> 0, high |-> 0, low |-> 0, close |-> 0]

ASSUME CandlesAssumption ==
  /\ Shapes \subseteq [open : Nat, high : Nat, low : Nat, close : Nat] \ {Missing}
  /\ Warmup \in Seq(Shapes \cup {Missing}) \ {<<>>}

Jobs == {"loop", "request"}

VARIABLES candles,   \* the series: shapes, or Missing
          row,       \* the row of the session
          books,     \* the runtimes built since the worker started, by order
          current,   \* self._mem: the one in use, 0 for none
          job,       \* what each coroutine does
          creates, crashes, errors

vars == <<candles, row, books, current, job, creates, crashes, errors>>

NoBook == 0
NoStart == 0

Idle == [pc |-> "idle", bars |-> <<>>, history |-> <<>>, start |-> NoStart,
         recovering |-> FALSE, book |-> NoBook]

-----------------------------------------------------------------------------
(* Bars as the fetches return them: those present, oldest first.           *)

Bar(i) == [ts |-> i, open |-> candles[i].open, high |-> candles[i].high,
           low |-> candles[i].low, close |-> candles[i].close]

\* Those of the times asked for.
During(bars, times) ==
  FoldLeft(LAMBDA kept, b : IF b.ts \in times THEN Append(kept, b) ELSE kept, <<>>, bars)

Fetched == During([i \in DOMAIN candles |-> Bar(i)],
                  {i \in DOMAIN candles : candles[i] # Missing})

UpTo(bars, ts) == During(bars, 0..ts)

\* Mutation: the bar next to the last one given is passed over.
AfterSkipping(bars, ts) == During(bars, Nat \ (0..ts + 1))

After(bars, ts) == During(bars, Nat \ (0..ts))

\* The longest run of bars missing between two that are there.
MaxConsecutiveGap(bars) ==
  LET gaps == {bars[i + 1].ts - bars[i].ts - 1 : i \in 1..(Len(bars) - 1)}
  IN  IF gaps = {} THEN 0 ELSE Max(gaps)

-----------------------------------------------------------------------------
(* A runtime in memory and the last bar it was given.                      *)

\* The strategy meets the bars before the start on a book that is thrown away.
Primed(strategy, bars) ==
  IF Len(bars) < 2 THEN NewRuntime(strategy, "none")
  ELSE NewRuntime(strategy, Run(NewRuntime(strategy, "none"), bars).signal)

Advance(mem, bars) ==
  IF bars = <<>> THEN mem
  ELSE [rt |-> Run(mem.rt, bars), start |-> mem.start, last |-> Last(bars).ts]

\* What _persist writes of a runtime.
Saved(mem) == [last |-> mem.last, net |-> mem.rt.pf.net, cash |-> mem.rt.pf.cash,
               fills |-> Len(mem.rt.fills), bars |-> mem.rt.curve, killed |-> mem.rt.pf.killed]

Unsaved == [last |-> 0, net |-> 0, cash |-> 0, fills |-> 0, bars |-> 0, killed |-> FALSE]

-----------------------------------------------------------------------------
Init ==
  /\ candles = Warmup
  /\ \E s \in Strategies :
       row = [status |-> "none", strategy |-> s, start |-> NoStart, saved |-> Unsaved]
  /\ books = <<>>
  /\ current = NoBook
  /\ job = [j \in Jobs |-> Idle]
  /\ creates = 0 /\ crashes = 0 /\ errors = 0

\* One coroutine waits for the other where they do not overlap.
Alone(j) == Overlap \/ \A k \in Jobs \ {j} : job[k].pc = "idle"

Goto(j, pc) == job' = [job EXCEPT ![j].pc = pc]
End(j) == job' = [job EXCEPT ![j] = Idle]

-----------------------------------------------------------------------------
(* The ingestor.                                                           *)

NextCandle ==
  /\ Len(candles) < MaxBars
  /\ \E c \in Shapes \cup (IF Outages THEN {Missing} ELSE {}) : candles' = Append(candles, c)
  /\ UNCHANGED <<row, books, current, job, creates, crashes, errors>>

\* The candle that is forming changes, all but its open.
Revise ==
  /\ Revisions
  /\ \E c \in {s \in Shapes : s.open = Last(candles).open} :
       candles' = [candles EXCEPT ![Len(candles)] = c]
  /\ UNCHANGED <<row, books, current, job, creates, crashes, errors>>

Backfill ==
  \E i \in DOMAIN candles : \E c \in Shapes :
    /\ candles[i] = Missing
    /\ candles' = [candles EXCEPT ![i] = c]
    /\ UNCHANGED <<row, books, current, job, creates, crashes, errors>>

-----------------------------------------------------------------------------
(* Requests.                                                               *)

\* create_session: the row is there and running before its runtime is built.  The same
\* id again keeps the start and what was saved.
Create ==
  /\ job["request"].pc = "idle" /\ Alone("request")
  /\ creates < MaxCreates
  /\ creates' = creates + 1
  /\ row' = [row EXCEPT !.status = "running"]
  /\ Goto("request", "build")
  /\ UNCHANGED <<candles, books, current, crashes, errors>>

StopSession ==
  /\ row.status # "none"
  /\ row' = [row EXCEPT !.status = "stopped"]
  /\ UNCHANGED <<candles, books, current, job, creates, crashes, errors>>

-----------------------------------------------------------------------------
(* _tick_session: the loop found the session running.                      *)

\* Mutation: all the fetched bars are fed, those already seen too.
FeedNewAll(k, bars) == books' = [books EXCEPT ![k] = Advance(@, bars)]

\* The bars after the last one the runtime was given.
FeedNew(k, bars) == books' = [books EXCEPT ![k] = Advance(@, After(bars, @.last))]

\* The status and the bars are read; the loop goes on with the runtime in memory or
\* builds one.
TickGoes ==
  /\ job["loop"].pc = "idle" /\ Alone("loop")
  /\ row.status = "running"
  /\ job' = [job EXCEPT !["loop"].bars = IF current = NoBook THEN Fetched ELSE <<>>,
                        !["loop"].pc = IF current = NoBook THEN "build" ELSE "persist",
                        !["loop"].book = current]

\* A runtime in memory is fed at once.
Tick ==
  /\ TickGoes
  /\ IF current = NoBook THEN UNCHANGED books ELSE FeedNew(current, Fetched)
  /\ UNCHANGED <<candles, row, current, creates, crashes, errors>>

FeedGoes == job["loop"].pc = "feed" /\ Goto("loop", "persist")

\* After a build the loop feeds what it had fetched before.
Feed ==
  /\ FeedGoes
  /\ FeedNew(job["loop"].book, job["loop"].bars)
  /\ UNCHANGED <<candles, row, current, creates, crashes, errors>>

Persist ==
  /\ job["loop"].pc = "persist"
  /\ row' = [row EXCEPT !.saved = Saved(books[job["loop"].book])]
  /\ End("loop")
  /\ UNCHANGED <<candles, books, current, creates, crashes, errors>>

-----------------------------------------------------------------------------
(* _build_mem, for the loop or for a request.                              *)

\* A session starts after the last bar there is.
StartBar(bars) == IF row.start # NoStart THEN row.start ELSE Last(bars).ts

\* The row and the bars.  A row that has a start is recovered.
BuildRead(j) ==
  LET bars == Fetched
      recovering == row.start # NoStart
      start == StartBar(bars)
      blocked == recovering /\ MaxConsecutiveGap(After(bars, start)) > MaxGap
  IN  /\ job[j].pc = "build"
      /\ IF Len(bars) < 2 THEN End(j)
         ELSE job' = [job EXCEPT ![j].history = bars, ![j].start = start,
                                 ![j].recovering = recovering,
                                 ![j].pc = IF blocked THEN "block" ELSE "install"]
      /\ UNCHANGED <<candles, row, books, current, creates, crashes, errors>>

Block(j) ==
  /\ job[j].pc = "block"
  /\ row' = [row EXCEPT !.status = "recovery_blocked"]
  /\ End(j)
  /\ UNCHANGED <<candles, books, current, creates, crashes, errors>>

InstallGoes(j) ==
  /\ job[j].pc = "install"
  /\ job' = [job EXCEPT ![j].book = Len(books) + 1, ![j].history = <<>>, ![j].pc = "baseline"]

\* A fresh book for the strategy primed on the bars up to the start, and on it the bars
\* since.
Install(j) ==
  LET start == job[j].start
      fresh == [rt |-> Primed(row.strategy, UpTo(job[j].history, start)),
                start |-> start, last |-> start]
  IN  /\ InstallGoes(j)
      /\ books' = Append(books, Advance(fresh, After(job[j].history, start)))
      /\ current' = Len(books) + 1
      /\ UNCHANGED <<candles, row, creates, crashes, errors>>

Baseline(j) ==
  /\ job[j].pc = "baseline"
  /\ row' = [row EXCEPT !.start = job[j].start]
  /\ Goto(j, "save")
  /\ UNCHANGED <<candles, books, current, creates, crashes, errors>>

Return(j) == IF j = "loop" THEN Goto(j, "feed") ELSE End(j)

SaveBuilt(j) ==
  /\ job[j].pc = "save"
  /\ row' = [row EXCEPT !.saved = Saved(books[job[j].book])]
  /\ IF job[j].recovering THEN Goto(j, "resume") ELSE Return(j)
  /\ UNCHANGED <<candles, books, current, creates, crashes, errors>>

\* The end of a recovery: the session runs, whatever became of it meanwhile.
Resume(j) ==
  /\ job[j].pc = "resume"
  /\ row' = [row EXCEPT !.status = "running"]
  /\ Return(j)
  /\ UNCHANGED <<candles, books, current, creates, crashes, errors>>

Build(j) ==
  BuildRead(j) \/ Block(j) \/ Install(j) \/ Baseline(j) \/ SaveBuilt(j) \/ Resume(j)

-----------------------------------------------------------------------------
(* Failures.                                                               *)

\* An await throws: the loop goes on with the next cycle, a request fails.
Fail(j) ==
  /\ job[j].pc # "idle"
  /\ errors < MaxErrors
  /\ errors' = errors + 1
  /\ End(j)
  /\ UNCHANGED <<candles, row, books, current, creates, crashes>>

\* The worker dies and starts again: what is in memory is gone.
Crash ==
  /\ crashes < MaxCrashes
  /\ crashes' = crashes + 1
  /\ books' = <<>>
  /\ current' = NoBook
  /\ job' = [j \in Jobs |-> Idle]
  /\ UNCHANGED <<candles, row, creates, errors>>

-----------------------------------------------------------------------------
Loop == Tick \/ Feed \/ Persist \/ Build("loop")

Next ==
  \/ NextCandle \/ Revise \/ Backfill
  \/ Create \/ StopSession
  \/ Loop \/ Build("request")
  \/ \E j \in Jobs : Fail(j)
  \/ Crash

Spec == Init /\ [][Next]_vars

\* The loop comes back every LIVE_PAPER_TICK_SECONDS and every await returns or throws.
\* The steps that run the engine are named by what they do to the coroutine.
Fairness ==
  /\ WF_job(TickGoes) /\ WF_job(FeedGoes) /\ WF_vars(Persist)
  /\ \A j \in Jobs : /\ WF_vars(BuildRead(j) \/ Block(j)) /\ WF_job(InstallGoes(j))
                     /\ WF_vars(Baseline(j) \/ SaveBuilt(j) \/ Resume(j))

FairSpec == Spec /\ Fairness

-----------------------------------------------------------------------------
Spent(fills) == MapThenSumSet(LAMBDA i : fills[i].signed * fills[i].price + fills[i].fee,
                              DOMAIN fills)
Bought(fills) == MapThenSumSet(LAMBDA i : fills[i].signed, DOMAIN fills)

\* The position is the sum of the fills and the cash is what they cost, through
\* averaging, partial closes and flips (portfolio.py:86-121).
BooksBalance ==
  \A k \in DOMAIN books :
    LET rt == books[k].rt
    IN  /\ rt.pf.net = Bought(rt.fills)
        /\ Settled(rt.pf) = StartingEquity - Spent(rt.fills)

\* A runtime is given each bar after its start at most once, however ticks, builds and
\* failures follow one another, and fills only on those bars; a market order fills on
\* a bar after the one it was placed on.
FedOnce ==
  \A k \in DOMAIN books :
    LET rt == books[k].rt
        given == {i \in (books[k].start + 1)..books[k].last : candles[i] # Missing}
    IN  /\ rt.curve <= Cardinality(given)
        /\ \A i \in DOMAIN rt.fills :
             /\ rt.fills[i].ts \in given
             /\ rt.fills[i].at <= rt.fills[i].ts
             /\ rt.fills[i].type \in {"market", "kill_liquidate"} => rt.fills[i].at < rt.fills[i].ts

\* A killed book that is flat stays flat (portfolio.py:152-154, paper_runtime.py:520-528),
\* though the orders that rested when it was killed are not cancelled.
KilledStaysFlat ==
  [][\A k \in DOMAIN books \cap DOMAIN books' :
       books[k].rt.pf.killed /\ books[k].rt.pf.net = 0 => books'[k].rt.pf.net = 0]_vars

\* As long as the session runs, what is saved of it catches up with the candles, after
\* restarts and failed awaits too (live_paper.py:542-556).
LatestBar == Last(Fetched).ts
CatchesUp == row.status = "running" ~> (row.status # "running" \/ row.saved.last = LatestBar)

\* live_paper.py:353: a recovery that ends at the bar that was saved reproduces
\* "equity/fills/positions".
RecoveryReproduces ==
  [][\A j \in Jobs :
       job[j].pc = "install" /\ job'[j].pc = "baseline" /\ job[j].recovering
         /\ books'[current'].last = row.saved.last
       => Saved(books'[current']) = row.saved]_vars
=============================================================================
