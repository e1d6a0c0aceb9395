# Netrunner Quant Lab: a formal model

TLA+ modules of the parts of this repository that move money, decide on behalf of the
owner, keep a book, or deliver what was decided: the Copilot's credit store and LLM
gateway, its plan runner with approvals, the opening and the monitor of managed
positions with the risk state and the triggers, the chat turns and their event stream,
the execution on the testnets with both contracts, the evidence that is stored, confirmed
and published of a strategy, the paper-trading sessions of the worker with their engines,
and the collection of the market data they all read.  TLC
checks the modules on small instances; TLAPS proves the theorems listed below for all
values of the constants.

Paths below are relative to `src/netrunner quant lab/`; `agent/` stands for
`apps/agent/src/`.

## 1. The system

| Part | State | Operations | Talks to |
|---|---|---|---|
| **LLM gateway** `agent/llm-gateway` | accounts, an append-only ledger, reservations, usage events (Postgres) | `complete`, `embedText`; `ensureAccount`, `recordGrant`, `reserve`, `finalize`, `release` | the provider; called by chat, learning, knowledge |
| **Plan runner** `agent/orchestrator`, **guardrails**, **playbooks** | `agent_runs`, `agent_run_steps`, `agent_approvals` | `validatePlan`, `executePlan`, the two approval endpoints | the Lab's tools over MCP |
| **Managed positions** `agent/positions` | `agent_position_intents`, in-process timer and feed handler | `openManagedPosition`, `evaluateExit`, `onMark`, sweep, manual close | plan runner, risk, learning |
| **Risk, triggers, budget** `agent/risk`, `triggers`, `budget` | owner settings, trigger and budget events | `refreshRiskState`, `getRiskState`, `evaluateEvent`, promotion | positions, plan runner, Redis feed |
| **Chat** and **run events** `agent/chat` | threads, messages, `agent_run_events`; an in-process bus with a replay buffer | a turn of the tool loop; `publish`, `subscribe`, the SSE stream | gateway, plan runner, the page |
| **Learning, memory, knowledge** | episodes, chunks, embeddings | append, rank | gateway |
| **Analysis, reasoning, on-chain context, news, sentiment** | none | reads and scores | outside services |
| **API** `apps/api` | ~100 tables; BullMQ queue; testnet wallets; GMX orders | HTTP endpoints, backfill queue, gap scanner, testnet execution, live orders | worker, ingestor, chains, exchanges |
| **Worker** `apps/worker` | `live_paper_sessions`, `live_portfolio_sessions`, the runtimes in memory | the session loops, `create_session`, `stop_session`, backtest jobs | quant-core, candles |
| **Quant core** `packages/quant-core` | a runtime's book, orders, strategy | `PaperRuntime.run`, `run_portfolio`, backtests, optimizers, AMM/LP mathematics | in process |
| **Data ingestor** `apps/data-ingestor` | candles, funding, coverage, depth snapshots | websocket and REST collection, backfills | exchanges, Redis |
| **MCP server, verifier, sandbox runner** | none between requests | tools; recomputation of hashes; a container per request | API |
| **Contracts** `contracts/src` | a stock vault with oracle prices, a constant-product pool, three tokens | mint, redeem, swap, add and remove liquidity | chain |
| **Frontend** `src/frontend`, `packages/ui`, `strategy-dsl`, `infra`, `scripts` | the Copilot page follows one run's stream; user interface, schemas, deployment | | API, agent |

What is hard here is not any one algorithm.  It is that almost every handler reads a
row, awaits, and writes by id; that processes restart with their in-memory state
gone; and that the same key, run, position, wallet or session is worked on by several
callers at once.  What makes each part correct:

* *credit*: no balance below zero, no charge above its hold, each hold settled once,
  the ledger reproduces the account, no answer without its settlement;
* *runs*: no gated call without the owner's approval, steps in order, a completed step
  never again, an honest final status, an approval that takes effect;
* *positions*: one exit at a time, a stop that never loosens, a tier taken once, a
  close that is final and follows the session's stop, a deadline that holds, no session
  that nothing watches;
* *risk and triggers*: a streak of losses is heeded, nobody is halted without a cause,
  only an expired cooldown lowers the state, an event fires no more often than evaluations
  of it raced, and a day's fires pass the cap by no more than was on its way;
* *chat*: the page is told what happened in order, and is told the end; what it was told
  done is stored;
* *testnet execution and contracts*: the pool and the vault are never short, rounding
  never favours the caller, a bridge releases what it locked, an answer says what was
  done;
* *evidence*: what is ranked was replayed and scored with what the run computed, what is
  published as a card came out of the recorded book;
* *paper sessions*: the book is the sum of its fills, a bar is given once, a killed
  book stays flat, the engine does not look ahead, the saved state catches up with the
  candles, a restart ends where the session was;
* *market data*: every closed candle is final in the end, gaps are reported exactly, a
  recorded book is one the exchange had.

`PROJECT.json` lists all components with their status, and the hazards with the
lines where they bite.

## 2. Modules

`A <- B` means that B EXTENDS A.

```
PrepaidCredit  <--implements--  CreditLedger  <--implements--  CreditGateway
{CreditGateway, FoldFacts} <- CreditProofs

Guardrails <- PlanRunner <- MCPlanRunner <- PlanRunnerProofs
ExitPolicy <- PositionMonitor <- MCPositionMonitor <- MonitorProofs
RiskState <- Triggers <- TradingDesk <- MCTradingDesk
{MCTradingDesk, FoldFacts} <- DeskProofs
RunEvents <- ChatTurn <- Copilot;  {Copilot, FoldFacts} <- CopilotProofs
Accounts <- Amm, StockVault <- AgentExec
{AgentExec, Evidence, PaperSessions} <- MCAgentExec;  {MCAgentExec, FoldFacts} <- ApiProofs
PaperPortfolio <- PaperRuntime <- LivePaper;  PaperPortfolio <- Basket <- LivePortfolio
{LivePaper, LivePortfolio} <- MCLivePaper;  {MCLivePaper, FoldFacts} <- PaperProofs
GapScan <- MarketData;  {MarketData, OrderBook} <- MCPositionMonitor
```

The modules `MC*` give values to constants for TLC, and divide a run into *parts*: a
variable `part`, chosen in the initial state and never changed, says which of several
scenarios a behaviour plays, so that one run can look closely at one thing at a time
(ticks that overlap on two marks, then ticks in turn on seven).  Components that meet only
through rows, candles and marks are parts of one run: the monitor, the market data and the
Copilot in `MCPositionMonitor`, sessions and baskets in `MCLivePaper`, the testnets, the
evidence and the tick endpoints in `MCAgentExec`.  The variables of the other components
stay as they were while a part is played.

### Credit: `CreditLedger`, `PrepaidCredit`, `CreditGateway`

`CreditLedger` has the columns of migration 0014 as variables and one action per
transaction.  Every transaction locks the owner's account row before it reads what it
decides on, so each is one step.  `LedgerNext` leaves the caller free: any order, any
arguments.  `PrepaidCredit` is what a caller may rely on, without ledger or keys:
available, held and spent money.  The refinement mapping reads `available` from the
balance column, a hold from a reservation and `spent` from the spend column.

`CreditGateway` is the caller the system has: `complete()` and `embedText()` from await
to await (replay guard, account, hold, provider, finalize, usage event, reply) and
`handleExecuteFailure`.  Calls interleave at each await; two may carry the same key.
Faults: the provider answers with an error or times out, a statement throws and is
rolled back, the process dies with every call in flight.  The estimate and the cost
of a call are arbitrary members of `HoldSizes` and `Costs`, a cost may exceed its
hold.

### Runs: `Guardrails`, `PlanRunner`

`Guardrails` translates `validatePlan` into a predicate on plans (`PlanOk`) and a
decision per step.  `PlanRunner` is one run with a set of executions: a launch, or a
request to one of the two approval endpoints followed by the `executePlan` it starts.
An execution reads the completed steps once, walks the plan, pauses, calls tools and
writes the final status, each await a step of its own.  A call takes effect when it
is made; its answer may be a result, an error, a report that blocks, or never come.

### Positions: `ExitPolicy`, `PositionMonitor`

`ExitPolicy` is `evaluateExit` as an operator on integers: prices are percent of the
entry (100), a stop is kept in hundredths so that a trailing percentage stays exact.
`PositionMonitor` is one position with feed ticks, endpoint ticks and sweeps that
overlap, the conditional claim, the stop run, the release when it fails, the manual
close, an owner who switches the agent off, and a deadline that passes.

### Risk, triggers and openings: `RiskState`, `Triggers`, `TradingDesk`

`RiskState` is what `refreshRiskState` decides of the closed positions (streak, drawdown,
tail) and the columns it writes.  `Triggers` is `evaluateEvent` and `executeTriggerPlan`
from await to await under the owner's configuration and budget; a trigger row walks from
shadow to promoted to executed.  `TradingDesk` puts managed positions beside them:
`openManagedPosition` with its gates, its plan run (completed, paused, failed, as
PlanRunner's can be) and the intent it writes, the approval of an opening run that
stopped, the exit with its close event and risk refresh, and the routes that set the
risk state by hand.

### Chat: `RunEvents`, `ChatTurn`, `Copilot`

`RunEvents` is the bus: numbers per run, a buffer for late subscribers, deletion after an
end, the durable copy written by inserts that nobody awaits, and the stream of
`server.ts` that joins a replay to what comes live.  `ChatTurn` is a turn of the tool
loop with each failing path; the run's row is finished in one step and the end told in a
later one, between which the page may open its stream or the agent die.  `Copilot` adds the page (which run it follows, when it opens
and aborts a stream), playbook runs that may be approved again, and the crash of the
agent.

### Testnets: `Accounts`, `Amm`, `StockVault`, `AgentExec`

`Amm` and `StockVault` are the contracts, an action per external function, a `require`
that fails no step at all.  `AgentExec` is `agentExec.ts`: requests of one owner, who may
get two wallets by racing with himself, each request a path of awaits over the contracts'
actions; a transaction may fail before it is mined or after.  A balance whose failing read
the code catches (`.catch(() => 0n)`) is read right or as 0 (`Seen`), and the request goes
on; a wallet lookup may fail with its insert or its top-up done; any other await may fail
and ends the action (`MayFail`).  What the reads before a trade missed is kept as history.
A launch whose lookup failed is answered here when its other lookups have ended, in the
code at once: they touch nothing but the wallet's row and its gas.  A trader and the
vault's owner act on the contracts beside the requests.

### Paper trading: `PaperPortfolio`, `PaperRuntime`, `LivePaper`, `Basket`, `LivePortfolio`

`PaperPortfolio` is the book of `portfolio.py`, with the position as a signed quantity
and its entry cost in place of the average price, so that averaging divides nothing.
`PaperRuntime` is `run()` at bar fidelity with the opt-in paths off: decision, intake
through the pre-trade gate, pending orders, marks, kill and liquidation; a fold over
the batch of bars that a tick or a replay hands it.  A trend follower and a market
maker stand for the registry, with the direction of the bar in place of indicators.
`LivePaper` is one session: the row, the runtimes built since the worker started, and
two coroutines (the loop and a request) going from await to await through
`_tick_session` and `_build_mem`; the ingestor's series of candles, with the one
that is still forming, missed ones and backfills.  What `_persist` writes is the
`saved` field of the row.  A tick whose runtime is in memory reads the status and the
bars and feeds them in one step; after a build it feeds what it read before.

`Basket` is `run_portfolio` of `portfolio_engine.py`: the union timeline, forward-filled
candles, the weighting schemes, venue rules, fills at the next open, kill and flatten.
`LivePortfolio` is the session that runs it again on every tick, leg after leg, beside
candles that come late or are revised.

### Evidence and tick endpoints: `Evidence`, `PaperSessions`

`Evidence` follows a run from the request to the public page: the API asks the worker, which
computes and stores; `fetchWorker` repeats a call that it believes lost while the first
attempt goes on.  A passport reads a run, asks for its risk gates and for a replay by the
verifier, and inserts what came of it; a card of a bot run is published by the flags the
run was stored with.  Meanwhile versions are edited, candles backfilled, the recording of
the book grows or is deleted.  What a run computes, its events and its return, is named by
what it is computed on: a series of bars (which stands for all series that give the same
events) or the recorded book.  The row of a run keeps the name as `result`, where the code
keeps digests.  The verifier computes again on what it finds (`Replay`: the candles of the
range where there are any, else the bars in the row), compares with the row
(`Reproduces`), for a simple run also the version as it is then, the tier and the return it
was claimed with (`StandsBy`), and its answer carries the score of its own replay, which
`InsertPassport` stores.

`PaperSessions` is the older paper session of `POST /api/paper/.../tick`: a tick reads the
row and then the counters in Redis, decides (`evaluate_tick`), commits events, fill and
row in one transaction, then saves two counters; a rebuild reads the log and writes the
position statement by statement.

### Market data: `GapScan`, `MarketData`, `OrderBook`

`GapScan` is `scanCoverage` of the API and the counts of the ingestor as folds over bars.
`MarketData` is the candles table of a symbol under its three writers: the websocket, the
REST poller, whose answers may be written late, and the scheduled backfills with their
attempts and timeouts.  `OrderBook` is the recorder of depth snapshots against an
exchange that numbers its states.

## 3. Runs

| Run | Asks | Parts and bounds, and why they are enough |
|---|---|---|
| `gateway` | does the store keep its books for any caller; do calls keep holds and events consistent under faults; is every hold settled when nothing fails | `store`: one owner (no transaction reads another owner's rows), two keys and a grant, holds and costs below, at and above each other.  `calls`: two calls on one client key or on an embedding key, one of which serves request after request, and one disturbance (a database error, a crash, a grant, a frozen account), which may hit any await of holds of one size |
| `runner` | consent, order and honest status under overlap; floors, no rerun, approvals that take effect in turn | three executions, one of which may die: two overlap at a time, the third acts on what they left.  `overlap`: plans of up to three steps with free, gated and publishing steps, a web trigger and an L0 proposal.  `serial`: also all plans of one step over levels, playbooks, gates, toggles, provenance and exit policy |
| `runner_rerun` | (violation) see findings | two overlapping resumptions |
| `monitor` | one exit, final close; the stop, the tiers, the deadline; candles final in the end, exact gaps, recorded books; is the page told everything in order and the end, is what it was told done stored | `overlap`: a feed tick, a sweep and the endpoints, one failing write or exit, a crash or the switch turned off.  `serial`: seven marks around every level of three policies, both sides, one tick at a time, and one failure, close by hand or switch turned off.  `polled`, `streamed`: three bars, two backfills of two attempts of which two writers overlap, one lost message, a poll that writes late.  `book`: two prices, four changes, two messages under way, two breaks.  `copilot`: one run, a chat turn of two rounds or a playbook run approved again, up to three of its inserts under way, one database error or one crash, in the first round or where nothing was approved again |
| `monitor_deadline` | (violation) see findings | one sweep and one crash |
| `paper` | is the book its fills, does a killed book stay flat; each bar once, the saved state catches up; no look-ahead, killed baskets end flat, basket sessions report the newest candles | `book`: seven candles of three shapes (a rise, a fall and a slump that opens lower), revised while they form, in any batches, both strategies, a session posted once and never stopped; shapes and limits chosen so that books flip, trail, get killed and keep an order that fires after the kill.  `life`: five candles of which any may be missing and come later, a request beside the loop, one restart or one failed await, four candles if it is stopped.  `engine`: every tape of four columns of a stock and a levered perpetual after a first one that fills nothing.  `session`: three columns, late and revised candles, two ticks, one failure |
| `paper_replay` | (violation) see findings | four candles, one restart |
| `basket_long_only` | (violation) see findings | five columns whose candles open where the last closed |
| `agent_exec` | are pool and vault never short by more than prices move, are answers honest, are bridges backed; is what is ranked or published what was computed; are the positions of a tick session its fills | `exec`: two concurrent requests of one owner out of eight actions or two plans of two legs, or one deal and one move of the trader or of the vault's owner, which may meet it at any await; a launch of two buys, of which one may fail and leave dollars in the wallet, in turn with the other request; a lookup or a caught read fails in a request that ran alone until then.  `bots`, `simple`: one owner, one request at a time, but any attempt of the worker that outlives its request, two calls, up to two runs stored (a repeated call stores the second), a card, and a passport once the attempts have ended; two series of bars and two hashes, so that either may have changed since.  `turns`: a session posted once, four ticks, fresh or stale, at two prices, one at a time; `overlap`: two ticks that interleave with each other, one failing half way, or one with a rebuild; the session posted again instead |
| `desk` | are sessions watched, is a streak of losses heeded, is nobody halted without a cause, are caps and dedupe kept | `overlap`, `turns`: three positions, of which two or one are between awaits, four returns on both sides of every threshold, one failure and one post of the owner (one of them in `overlap`).  `events`: two types, two regimes of one bar, three configurations, events one after the other while plans of earlier fires still execute, two fires, or one and a failed plan, a promotion or a change by the owner.  `crowd`: two evaluations that overlap at any await, of the same or of different events, and two fires; two are enough for a key that fires twice and for a cap of one that is passed while a plan executes or another evaluation has counted |
| `desk_overlap` | (violation) see findings | two positions |
| `rebuild` | (violation) see findings | one handler, three ticks, two rebuilds |

All passing runs explore their state space to the end.  `CHECK_DEADLOCK FALSE` is set
where the system really stops: a closed position, a stopped session with a complete
series, requests that were answered, a run that has ended.  Symmetry (`agent_exec`) is
used without liveness, over sets whose members no definition tells apart; elsewhere
interchangeable actors are taken in one order, which the MC modules state.

### What the properties say

* `AuditTrail`, `BooksAgree`: the ledger, the account columns and the reservations agree
  after any sequence of transactions, and the unique index never aborts one.
  `SettledBeforeTold`: the replay guard refuses a key for ever once it has an event, so
  an event for an outstanding hold would strand it; and no call returns and leaves a hold;
  embeddings share no hold.  `HoldsSettle`: without faults every hold is settled.  With
  a crash it may stay: `expires_at` is written and nothing reads it.
* `Consent`, `PlanOrder`, `CompletedMeansDone` hold under any overlap; `NeverRerunInTurn`
  and `ApprovalTakesEffect` when executions do not overlap; `Floors` is the meaning of
  the guardrails said over the calls that reach the Lab.
* `OneExit`, `ClosedMeansStopped`, `ClosedIsFinal` hold under any overlap of ticks;
  `StopNeverLoosens`, `LadderKept` when ticks do not overlap (see 6);
  `DeadlineClosesInTurn` without crashes.
* `UnwatchedCostsAFailure`: a session that no intent watches took a failed statement, or an
  opening run that was approved later.  `LossesHalt` and `TrippedForCause` tie the risk
  state to the returns that were closed, in both directions.  `FiresAreBounded` holds
  of any overlap and says how far it goes: for one type, symbol, regime and bar there are
  no more rows than evaluations that were past the dedupe of that key at a time (one, of
  evaluations in turn), and the agent's own fires of a day pass the cap by no more than the
  most that were on their way when it was found free.  Both maxima are history variables
  (`racers`, `crowd`), which no action reads.
* `StreamsInOrder`, `DoneIsDurable`, `EndIsTold`: a stream is a contiguous part of what was
  published, from its first event while the buffer lives; a run whose end the page saw has
  its end stored; and a page that follows a run is told its end, unless the agent died.
* `PoolBacked`, `NoDilution`: what the pool owes it holds, and no step lowers what a share
  is worth.  `OnlyPricesOpenADeficit`: no mint or redemption costs the vault more than it
  takes at the price of the moment.  `BridgedIsLocked`, `AnswersAreHonest`: what was
  released on one chain is locked on the other; a buy, a sale or a deposit of liquidity
  that ran alone reports, or provides, what its own trade paid, and exactly what its failed
  reads of the balance before did not see, which the code takes for gained.  So with
  every read answered what the wallet held before does not count, and a failed read adds
  what is at that one balance, nothing else.  A sale whose last read fails answers by the
  price it read.
* `EvidenceHolds`: a ranked passport is of a run without approximate fills and liquidations,
  and its score, which the verifier's replay gave, is what the run computed when it was
  stored, whatever the client claimed and whatever candles, book and versions had become;
  that of a simple run shows the claimed return too, and its version had not changed when
  the verifier looked (`RankedIsReplayed`); a published card is of a run that consumed the
  recorded book, and no such run is ranked (`CardsComeFromTheBook`).  `SessionIsSound`: the
  positions of a tick session are the fills of its log, until a rebuild; and when ticks come
  in turn on a session posted once, nothing fills after stale data before the fresh ticks it
  asks for.
* `BooksBalance`: position and cash are the sum of the fills through averaging, partial
  closes and flips.  `KilledStaysFlat`: the orders that rest when a book is killed are
  not cancelled, and fill later; each time the book must be flat again at the end of
  the batch.  `FedOnce`: no bar is given to a runtime twice, whichever coroutine read
  it, and no market order fills on the bar it was placed on.  `SessionsCatchUp`:
  while a session or a basket runs, what is saved reaches the last candle, after restarts
  and failures (`CatchesUp`, `ReportsCatchUp`).  `BasketRunsAreSound`: one more column
  repeats the run before it and goes on (`NoLookAhead`), and a killed basket holds nothing
  from the next candles on (`KilledEndsFlat`).
* `FinalInTheEnd`: backfills alone repair whatever was lost or overwritten.  `ScansAreExact`:
  reported ranges are the gaps, each as long as it can be, and API and ingestor count
  alike.  `RecordedBookIsTheVenues`: whatever broke between two messages.

### Fairness

* Gateway: weak fairness of each submitted call's next step.  The event loop runs a
  resolved continuation, and a fetch ends in an answer, an error or the client's
  timeout.  Callers owe nothing.
* Runner: weak fairness of each execution's own steps; the owner may never decide.
* Monitor: weak fairness of a tick in flight; strong fairness of the sweep's start,
  because `setInterval` fires again and again while a tick in flight may block a start
  each time it is looked at.  Marks need never come.
* Sessions: weak fairness of the loops and of builds in progress.  The loop comes back
  every `LIVE_PAPER_TICK_SECONDS` and an await returns or throws; each such step is
  followed by a change of the coroutine's state, and fairness is stated on that
  (`WF_job`), which spares TLC from running the engine to decide whether a step is
  enabled.  Candles, requests, crashes and failures are never owed.
* Copilot: weak fairness of a turn's or a run's next step, of inserts under way and of the
  stream; the user owes nothing, and nobody restarts a run that died with the agent.
* Market data: weak fairness of the scheduler, of a backfill in progress, of the write of
  a poll that was answered and of the handler of a message that arrived.  The link need
  not come up, and nobody need poll.

## 4. Proofs

| Theorem | For all | Argument |
|---|---|---|
| `LedgerTypeCorrect` | owners, keys, amounts, orders of transactions | each action keeps each column's type; `ChargeWithinHold`: finalize debits at most what the hold took, so the balance stays a natural number |
| `LedgerReproducesBalance` | | `AuditTrail` is inductive with the type invariant; `ChainedAppend` says that appending a row whose balance continues the last one keeps the chain |
| `LedgerBooksAgree`, `GatewayBooksAgree` | | every row belongs to one reservation or grant, by cases on the row appended; what an owner's open reservations hold is a sum over its keys, which one transaction changes in one place (`SumOverAdd`, `SumOverRemove` in `FoldFacts`) |
| `SettlingIsFinal` | | an action property, from the types alone: every transaction that changes a reservation has the guard `reserved` or `none` |
| `LedgerImplementsPrepaid` | | each transaction maps to one step of `PrepaidCredit` or a stutter: `OneHoldChanges` carries a change of one reservation through the refinement mapping, and both settlements are `Settle` with what they charge |
| `GatewayTypeCorrect` | calls, faults | `GatewayTypeOK` with `MeteredCost`: a call about to finalize has metered a cost from `Costs` |
| `GatewayImplementsLedger` | | each gateway action is one transaction or a stutter of the store; what is proved of the store holds of the system |
| `EventsFollowSettlement` | | `GatewayInv`: that events follow settlement is not inductive alone, because a step that records an event must know that an earlier step of the same call settled.  `PhaseOfHold` ties each place of a call to the state of its key's reservation; `HoldsPersist` keeps it while other calls move |
| `RunnerTypeCorrect`, `ConsentHolds`, `FloorsHold`, `StepsInOrder`, `CompletedIsHonest` | plans, executions, interleavings | `RunnerInv`: an execution works only on a plan the guardrails accepted, holds only approvals the owner gave, takes no step for completed that is not, and ends as completed only with every step done.  The rows only grow (`OnlyGrow`), so what an execution read once stays true: this is why the properties survive stale reads.  The floors hold since a step is checked when it is reached, not when the run began |
| `NeverRerunOneByOne`, `NoRerunInTurn` | | under `Serial`, that executions of a run follow one another, `KnowsAll`: whoever is in its loop knows every completed step.  Without the hypothesis the property fails, which is the first finding below |
| `OneExitAtATime`, `ClosedAfterStop`, `CloseIsFinal` | policies, marks, ticks, faults | `ExitInv`: `OneExit` and `ClosedMeansStopped` are not inductive, because a tick about to close the row must know that its session is stopped, and a failing tick that releases the claim must know whose claim it is.  `PhaseOfExit` ties each place of an exiting tick to the row and the session |
| `TicksInTurn`, `LadderIsKept`, `StopRatchets` | policies, marks, faults; ticks in turn | `LadderInv`: the runtime a tick has read is the stored one (`Fresh`), what it is about to do follows from the policy and that runtime (`Fired`), the reductions recorded are the tiers hit (`Counted`), and behind a tier the stop is locked in (`LockedIn`).  With overlapping ticks `Fresh` is false and so is the property: section 6 |
| `GapsAreFound` | stored bars, ranges | the scan's turns, one per expected bar: after each turn the gaps reported so far and the one still open are the maximal runs of missing bars up to there.  The turn where that first fails does not exist |
| `RecordedBooks` | prices, sizes, changes, breaks | `BookInv`: that the stored snapshot is right rests on what is in memory and under way.  The book in memory is the exchange's at the last number, the messages under way carry the last numbers in order, and the first of them is the next one or a snapshot that is not older |
| `StreamsOrdered`, `DoneDurable` | runs, rounds, calls, failed statements, deaths | `CopilotInv`: the log of a run is numbered and ends once (`LogInv`), each run's row agrees with what it still has to post (`Unposted`), and a chat turn's stream is what was published since its first event (`Whole`), is saved before it is told (`Saved`), and tells its outcome last (`Told`) |
| `UnwatchedIsPaidFor` | openings, exits, faults | `WatchInv`: unwatched sessions are counted against the failed statements and late approvals.  Each action either adds no unwatched session, or adds one and pays for it (`Costs`) |
| `TripsHaveACause` | exits, closes, owners' commands | `TripInv`: what a refresh has read is a part of the closes there are now, and closes only grow, so a verdict computed on an old list is still a cause |
| `FiresBounded` | event types, events, evaluations (finitely many), caps | `FireInv`: an evaluation that found a key free stands for the row it may add, so rows and such evaluations together stay within `racers` (`KeyRoom`), and one that found the cap free stands for its fire, so own fires and such evaluations stay within the cap and `crowd` (`DayRoom`).  What has acted and what is in flight cover the own fires (`OwnCount`), which is what the count misses.  No hypothesis on how evaluations and plans overlap |
| `PoolAlwaysBacked`, `SharesNeverDiluted` | users, fees, amounts | integer divisions leave a remainder on the pool's side: `DivBounds`, `WithdrawnPart` and the lemma on the swapped amount give the products that the invariants are about; shares are compared by cross-multiplying reserves with the supply before and after |
| `VaultTradesAtNoLoss` | users, symbols, prices | mint rounds the stock down and redeem rounds the payment down, so at a fixed price collateral and liabilities move together; only a price push opens a deficit |
| `ExecPoolBacked`, `ExecDilutesNoShare`, `ExecTradesAtNoLoss` | requests, their bounds, launches | each await of a request is one function of a contract with arguments of its type (`ExecTyped`), so what is proved of `Amm` and `StockVault` holds of everything the API does to them.  The legs of a launch are sized by a fold (`Sized`), and no leg gets more than the budget |
| `BridgesAreBacked` | | `BridgeInv`: what was released, with a sum over the bridges that locked and have not released yet, is at most what is locked |
| `AloneAnswersAreHonest` | | `HonestInv`: while a request runs with no other beside it (`AloneInv`), its wallet holds what was there before, seen (`before0`) or missed (`missed0`), and what the trade paid; of liquidity, what was minted and not swapped as well.  The trader and the owner trade meanwhile, with other keys |
| `EvidenceInvariant`, `EvidenceIsReplayed` | owners, versions, series of bars, requests, attempts | `EvidenceInv`: what a request has read of a run is in the run's row (`Reads`), since rows are only added (`RunsGrow`), so what is inserted into a passport or a card holds of the row (`Ranked`, `Shown`); the verifier's answer, which waits in the request, is about the row too (`Confirmed`), whatever the market and the versions became; and an attempt that a request waits for is the only one (`Awaited`), so that an answer reaches the request that asked |
| `SessionsAreSound` | markets, prices, handlers, numbers of ticks and failures | `BooksInv`: the fill, its event and the position are one transaction, whatever else is in flight.  In turn, `TurnsInv`: the count of fresh ticks, saved or about to be saved, is at most the number of fresh ticks in the log since it last went stale (`WaitIsCounted`), and what a tick has read is what there is (`ReadsAreNew`) |
| `LossesAreHeeded` | positions, returns, thresholds, faults; exits in turn | `HeedInv`: what a refresh has read is what there is, because the only step that changes the closes would be a second position on its way.  `HaltingIs`: the last `Window` of a list contain the loss or the streak that halts |
| `EscalatesInTurn` | returns, thresholds, triggers, faults; risk states in turn | `EscalateInv`: a verdict about to be written is above the state there is, and whoever is about to clear the state, an exit or a trigger, clears an expired cooldown (`Acts`, `Wakes`); `RiskInTurn` keeps both until the write.  With overlapping refreshes the property fails: section 5 |
| `FillAccounting` | books, quantities, prices, fees | by cases (open or add, reduce, close or flip): settled cash moves by exactly the cost of the fill |
| `PaperInvariant`, `BooksAlwaysBalance` | candles, strategies, requests, crashes, errors, coroutines that overlap | `PaperInv`: every runtime there is, in memory, in a row or in the hands of a coroutine, is `Sound`: its book is the sum of its fills, its orders are not younger than its time, its fills are on bars it was given, its points are no more than those bars.  A fill adds one term to each sum (`FillAccounting`); a bar is the decision, the intake, the processing, the marks and the liquidation (`OnBarIs`); a batch is a fold along its bars, whose value after each of them is in the set of the sound runtimes that have reached that bar (`FoldExistsAlong`, `FoldReaches`).  The candles only grow (`Grows`), so what was read of them stays a part of them |
| `BarsAreFedOnce` | | from `PaperInv`: a batch starts behind the last bar a runtime was given and `During` keeps the bars in order |
| `KilledBooksStayFlat` | | what rests when the book is killed is cancelled in the bar that kills it, and an order of the strategy finds the book killed: no fill of a killed runtime is its own, through any batch |
| `BasketsAreSound`, `RunGoesOn` | tapes, legs, schemes, slippage, fees | a run is a chain of books, one per column, each of them a `SoundRun` of the columns seen so far; the orders and the closings of a column are chains along the legs.  A step at a column reads no candle beyond the next one, so on a tape without its last column every step but the last is the same one (`OnColumnSame`, `ChainsAgree`), and the last only adds (`Columned`).  A killed basket can be closed because a leg that holds something has had a candle (`Known`, `BarStays`) |
| `LongWithoutDrops`, `BasketsStayLong` | the same | `OrderedLong`: a sale is the excess of what is held over a target that is not negative, valued at the close of the column, so at a fill price no lower it is at most the units held (`NoMoreUnits`).  The chain of books is then a chain of long ones.  Without `NoDrop` the property fails: section 5 |

Assumptions: the `ASSUME`s of the modules, which TLC evaluates in the runs: amounts are
natural numbers, plans are plans, bounds are numbers, contracts are not users, the trader
is a user, a launch has a leg with a weight and its cap is within the caps of what it
buys and bridges (`agent-exec.ts`), a chat turn has at least one round, there is a series
of bars, the handlers in flight are finitely many, the constants of the paper engine are
natural numbers with at least one unit per order and one bar per day, candles have natural
prices and none of them stands for a missing one, a session is warmed up with a bar, and
the legs of a basket have integer weights and leverages, its slippage, fee and lookback
are natural numbers and a day has at least one time.

The library's induction theorems take an operator as a parameter, which no prover here
can instantiate.  Where a theorem needs an induction, it is by the least number at which
the claim fails (`LeastNatural` in `FoldFacts`): the sums over reservations and bridges,
the turns of the gap scan, the legs of a launch, the bars of a batch and the orders of a
bar in the paper engine, the columns of a tape and the legs of a basket, and the least of
a list of returns.  So that this is possible the models write such things as functions on
numbers, as folds of the community modules, or as sets.

Model-checked only, and out of the prover's reach: `HoldsSettle`, `ApprovalTakesEffect`,
`DeadlineClosesInTurn`, `SessionsCatchUp`, `EndIsTold` and `FinalInTheEnd`, which are
liveness under fairness.  Every other property of a passing run is the subject of a theorem.

## 5. Findings

Each is a run TLC must find violated.

* `runner_rerun` / `NeverRerun`.  `executePlan` reads the completed steps before its loop
  (`agent/orchestrator/runner.ts:76`).  A resumption that starts while another execution
  of the run is in flight calls a step the other one completes meanwhile;
  `runner.ts:42` says that a completed step is never run again.
* `monitor_deadline` / `DeadlineCloses`.  A crash between the claim and the close leaves
  the intent `closing`; the sweep lists only open intents (`agent/positions/store.ts:80`),
  so nothing looks at it again; `monitor.ts:139` says that positions cannot outlive
  their `max_hold`.
* `paper_replay` / `RecoveryReproduces`.  No order is processed on the last bar of a
  batch (`paper_runtime.py:234`).  A session that gets its bars one by one, as the loop
  feeds them, fills nothing; the replay after a restart gets them in one batch and
  fills.  `live_paper.py:353` says that the replay "reproduced equity/fills/positions".
* `basket_long_only` / `LongOnly`.  A rebalance divides the wanted change of notional by the
  fill price (`portfolio_engine.py:305`), so a sale at the next open less slippage sells
  more than the position holds, and `apply_fill` opens a short with the rest;
  `portfolio_engine.py:14-15` says that equity legs are long-only.
* `desk_overlap` / `OnlyExpiryLowers`.  `refreshRiskState` compares its verdict with a state
  it read before (`agent/risk/index.ts:117`) and writes without a condition: of two exits
  that overlap, the one that read fewer losses may write last, and a halt becomes
  `risk_averse`; `risk/index.ts:114` says "Never auto-downgrade here".
* `rebuild` / `RebuildableFromLog`.  The rebuild of a tick session files all its fills under
  the symbol of the last event (`apps/worker/main.py:876`), and its own event has none, so
  that a second rebuild moves the position to the symbol `UNKNOWN`; the page says
  "Rebuildable from event log" (`apps/web/public/app.js:771`).

## 6. What the models show besides

Met while modelling, described here and not run:

* Runner: a run that a hard block stopped is resumed past the block when one of its
  steps is approved (`server.ts:851`), because the blocked step was recorded as completed;
  a denied step can run through the other endpoint (`server.ts:864`); a step may have
  several approval rows (`runner.ts:99`).
* Gateway: a usage event records the metered cost, which `finalize` caps at the hold
  (`index.ts:170`, against migration 0014:85); a refused embedding writes no usage event
  (`index.ts:308`).
* Monitor: with overlapping ticks a tick writes back the runtime it read before its
  awaits, and a tightened stop is loosened again; a manual close stops the session and
  leaves the intent open until a tick exits it; a close event that fails skips the risk
  refresh.
* Opening: approving an opening run that stopped starts a session without an intent, which
  `open.ts:12-15` does not say; an intent whose insert fails, or whose run reported no
  session id, leaves a session that nothing watches; `agent_enabled` is not checked on
  opening; `disable_live_paper_start` is stored and never enforced, and
  `checkBudget("live_session")` is never called; `server.ts:400` says that L1 returns
  `awaiting_approval` where `open.ts` returns `blocked`.  `startMultiassetPaper` is another
  way in that passes none of these gates.
* Risk: the read that clears an expired cooldown erases an escalation written meanwhile
  (`risk/index.ts:72`); a large loss stays within the last 30 rows and trips the breaker
  again after every later close.
* Triggers: the day cap counts what has acted, and that is written after the plan ran
  (`evaluator.ts:175-179, 203`), so every event that comes while plans of earlier ones
  execute may fire beyond it; evaluations of one event that overlap, in one agent process
  or in two, all pass the dedupe, whose key has no unique index; an event without `bar_ts`
  has the key of bar 0 for ever, so it fires once until its regime changes; two
  promotions of one row both execute; a live execution that fails leaves the row `live`
  and not acted, and nothing tries again.
* Chat: events of a run approved after its end get numbers from 1 again when the bus has
  forgotten it, and the durable copy ignores them; the page's busy flag is set after its
  request was sent.
* Testnets: two first requests of one owner each make a wallet, and one of them is never
  used again; requests of one wallet overwrite each other's allowance.  A read of the
  balance before that fails counts as 0, so that a buy or a sale, even alone, reports all
  the wallet holds, where `agentExec.ts:176` promises the balance received, and a deposit
  of liquidity provides it; so does a trade that paid nothing.  A sale that cannot
  read its dollars after reports the stock's worth at the price it read.
* Sessions: the end of a recovery sets the session running again when it was stopped
  meanwhile (`live_paper.py:356`).  Two concurrent first builds may leave the start of one
  in the row and the book of the other in memory.  A gap between the start and the
  first bar after it is not looked at, and live ticks look at no gap.  A session takes
  the forming candle once, with the values it has then.
* Engine: a killed book is not liquidated on the last bar of a batch, and the rest of a
  batch is skipped on the bar of the kill; limits and stops are tried against the bar on
  whose close they were placed; a trailing stop may fire before its entry fills; a day
  starts from cash, open positions left out; `max_open_orders` is never enforced.
* Baskets: the budget of a rebalance is the gross exposure, so with leverage above 1 every
  rebalance multiplies the exposure; `max_position` and `max_total_exposure` are never
  enforced and `allow_short` never read; the records of a flattening log a quantity of 0;
  fills use the open of a forward-filled, stale candle.  A session runs over the last
  `LIVE_PORTFOLIO_BARS` candles, where `live_portfolio.py:45` speaks of a growing series,
  so it starts before the session existed; `start_bar_ms` is unused; a tick in flight
  writes to a stopped row, and creating a session that was stopped restarts it.
* Evidence: a call that is repeated may store its run twice; a backtest that names no bars
  is refused unless candles are there, and is then computed on none; an optimizer run whose
  worker dies stays `running`; only runs on bars can get a ranked passport and only runs on
  the recorded book a card.  For a bot's run the verifier ignores the numbers of the client
  (`ignoredLocalSummary`), on which the gates were judged and which the passport shows as
  its local summary.  For a simple run it reads the `jsonb` columns as dictionaries
  (`verifier/main.py:222`, `363`), for a bot's through `_as_dict`, since "asyncpg may return
  JSONB as a str": where it does, the simple path raises and the passport is stored as
  rejected.  The model admits both.
* Tick sessions: of two ticks that overlap the later write of the counters wins, so that a
  stale tick's reset of the fresh ticks can be lost; posting a session that exists ends its
  wait for fresh ticks (`index.ts:1425`); a tick sets a stopped session going;
  a rebuild of a session in two symbols files all fills under one of them.
* Market data: the row of a fast backfill is overwritten with `queued`
  (`backfillQueue.ts:139`); the scheduler reads `updated_at` after it was written, so a
  cadence of 15 minutes is one of 20 (`:312`); a backfill pages forward although the
  exchange answers newest first, so a range of more than 1000 bars ends after one page
  with a hole and the job `completed` (the default schedule asks for 672); an empty page
  ends a job as completed; `gaps_found` is the newest coverage row of any job; a poller's
  stale row overwrites a candle that the websocket made final, until the next backfill;
  weekly candles open on Mondays and the scanner expects Thursdays; a public trade is
  marked as seen before its insert; the DEX rate limiter admits up to twice its rate in
  its first minute, and its monthly cap is check-then-act.
* GMX: an order is submitted before it is recorded (`gmx.ts:360`); a stop closes by symbol
  over one account that all bots share, a stop by order id never marks the row
  `closing`, and two stops submit twice.

## 7. Not modelled

* *Whole components* (the notes in `PROJECT.json` say why for each): learning, memory,
  knowledge and skills; analysis, reasoning, market and on-chain context, which are reads
  and scores without state; the model and price tables of the gateway; the MCP client and
  server; wallets and chain readers; the sandbox runner; the frontend but for the Copilot
  page's stream.  They are pure functions of outside answers, or thin I/O.
* *Authentication and the erasure of an account*: an owner is a given of every request.
* *Within the modelled components*: one run, one position, one session, one symbol's
  candles at a time, where no code relates two; the indicators of the strategies, whose
  place the direction of a bar takes; fills from the recorded book with its queue, latency,
  funding, one-cancels-other and stop-limit orders, all opt-in paths of the engine; the
  text of messages, reports and cards.
* *Providers, exchanges, chains, Redis, Postgres* are external: a statement or a call
  succeeds, fails or is not answered, and a transaction is atomic.

## 8. What could come next

Live orders on GMX (the routes of `gmx.ts`, whose overlaps section 6 describes); fills
from the recorded book; the bars of a backtest in `quant_core/engine.py` beside those of
the runtime; account erasure as a sequence of statements.  Proofs within reach: the last
paragraph of section 4.
