----------------------------- MODULE MarketData -----------------------------
(***************************************************************************)
(* The candles of one symbol and interval, and those who write them: the   *)
(* websocket collector (ingestor/realtime.py), the REST poller (live.py)   *)
(* and the scheduled backfills (lib/backfillQueue.ts of the API, bybit.py  *)
(* of the ingestor).  Each fetches, awaits and upserts row by row, so an   *)
(* old answer may be written after a newer one.  The exchange, whose pages *)
(* hold the newest bars of what was asked, and BullMQ are external.        *)
(***************************************************************************)
EXTENDS GapScan

CONSTANTS MaxBar,    \* bound: bars of the series
          PollLimit, \* klines of a poll
          PageSize,  \* klines of a backfill's page
          Lookback,  \* lookback_ms of the schedule, in bars
          Attempts,  \* attempts of a job
          Polls,     \* polls in flight: the loop, and the endpoints' own
          Fills,     \* backfill requests in flight in the ingestor
          MaxInbox,  \* bound: messages the collector has not handled
          MaxLosses  \* bound: links, polls, requests and processes that fail

ASSUME MarketAssumption ==
  /\ {MaxBar, PollLimit, PageSize, Attempts} \subseteq Nat \ {0}
  /\ {Lookback, MaxInbox, MaxLosses} \subseteq Nat

VARIABLES forming,  \* the bar that is forming at the exchange
          candles,  \* the stored row of each bar: "none", "forming" or "final"
          link,     \* the collector's websocket
          inbox,    \* kline messages it has not handled
          polls,    \* rows of a poll that are not written yet
          queue,    \* jobs waiting in BullMQ
          fills,    \* requests of jobs at the ingestor
          coverage, \* missing_bars of the last backfill that completed
          losses

marketVars == <<forming, candles, link, inbox, polls, queue, fills, coverage, losses>>

Bars == 1..MaxBar

\* What the exchange answers for a bar.
Kline(bar) == [bar |-> bar, value |-> IF bar < forming THEN "final" ELSE "forming"]
Klines(from, to) == [i \in 1..Expected(from, to) |-> Kline(from + i - 1)]

NoFill == [pc |-> "idle", cursor |-> 1, to |-> 0, rows |-> <<>>, left |-> 0]

MarketInit ==
  /\ forming = 1
  /\ candles = [b \in Bars |-> "none"]
  /\ link = "down" /\ inbox = <<>>
  /\ polls = [p \in Polls |-> <<>>]
  /\ queue = <<>>
  /\ fills = [f \in Fills |-> NoFill]
  /\ coverage = 0
  /\ losses = 0

\* Mutation: a row that is there stays as it is.
InsertOnly(row) == candles' = IF candles[row.bar] = "none"
                              THEN [candles EXCEPT ![row.bar] = row.value] ELSE candles

\* INSERT ... ON CONFLICT DO UPDATE, of all four writers: the last one wins.
Upsert(row) == candles' = [candles EXCEPT ![row.bar] = row.value]

Loses == losses < MaxLosses /\ losses' = losses + 1

(***************************************************************************)
(* The websocket: the exchange pushes the forming bar, and its close.      *)
(***************************************************************************)
Push(value) ==
  inbox' = IF link = "up" THEN Append(inbox, [bar |-> forming, value |-> value]) ELSE inbox

Update ==
  /\ link = "up" /\ Len(inbox) < MaxInbox
  /\ Push("forming")
  /\ UNCHANGED <<forming, candles, link, polls, queue, fills, coverage, losses>>

NextBar ==
  /\ forming < MaxBar
  /\ Len(inbox) < MaxInbox
  /\ Push("final")
  /\ forming' = forming + 1
  /\ UNCHANGED <<candles, link, polls, queue, fills, coverage, losses>>

\* The demand names the symbol, or the last connection broke.
Connect ==
  /\ link = "down"
  /\ link' = "up"
  /\ UNCHANGED <<forming, candles, inbox, polls, queue, fills, coverage, losses>>

\* _on_kline; writes of the forming bar are throttled.
OnKline ==
  /\ inbox # <<>>
  /\ \/ Upsert(Head(inbox))
     \/ Head(inbox).value = "forming" /\ UNCHANGED candles
  /\ inbox' = Tail(inbox)
  /\ UNCHANGED <<forming, link, polls, queue, fills, coverage, losses>>

\* The connection breaks, or a write throws and leaves it: what was pushed is gone.
Disconnect ==
  /\ link = "up"
  /\ Loses
  /\ link' = "down" /\ inbox' = <<>>
  /\ UNCHANGED <<forming, candles, polls, queue, fills, coverage>>

(***************************************************************************)
(* The poller: the latest klines, stored one by one in ascending order.    *)
(***************************************************************************)
PollFetch(p) ==
  /\ polls[p] = <<>>
  /\ polls' = [polls EXCEPT ![p] = Klines(Max({1, forming - PollLimit + 1}), forming)]
  /\ UNCHANGED <<forming, candles, link, inbox, queue, fills, coverage, losses>>

PollWrite(p) ==
  /\ polls[p] # <<>>
  /\ Upsert(Head(polls[p]))
  /\ polls' = [polls EXCEPT ![p] = Tail(@)]
  /\ UNCHANGED <<forming, link, inbox, queue, fills, coverage, losses>>

PollFails(p) ==
  /\ polls[p] # <<>>
  /\ Loses
  /\ polls' = [polls EXCEPT ![p] = <<>>]
  /\ UNCHANGED <<forming, candles, link, inbox, queue, fills, coverage>>

(***************************************************************************)
(* The schedule: a job for the last bars, posted to the ingestor with      *)
(* retries.  A job waits while another one of the schedule does.           *)
(***************************************************************************)
Enqueue ==
  /\ queue = <<>>
  /\ queue' = <<[to |-> forming, left |-> Attempts]>>
  /\ UNCHANGED <<forming, candles, link, inbox, polls, fills, coverage, losses>>

\* The worker takes a job and posts it; `left` counts the attempts with this one, and is 0
\* when nobody waits for the answer any more.
Post(f) ==
  /\ queue # <<>> /\ fills[f].pc = "idle"
  /\ queue' = Tail(queue)
  /\ fills' = [fills EXCEPT ![f] = [pc |-> "fetch", cursor |-> Max({1, Head(queue).to - Lookback}),
                                    to |-> Head(queue).to, rows |-> <<>>, left |-> Head(queue).left]]
  /\ UNCHANGED <<forming, candles, link, inbox, polls, coverage, losses>>

\* The newest klines from the cursor to the end; none, or a cursor past the end, ends it.
Page(from, to) == Klines(Max({from, to - PageSize + 1}), to)

FetchPage(f) ==
  LET fill == fills[f]
      page == Page(fill.cursor, Min({fill.to, forming}))
  IN
  /\ fill.pc = "fetch"
  /\ fills' = [fills EXCEPT ![f].pc = IF page = <<>> THEN "cover" ELSE "write", ![f].rows = page]
  /\ UNCHANGED <<forming, candles, link, inbox, polls, queue, coverage, losses>>

WriteRow(f) ==
  LET row == Head(fills[f].rows)
      rest == Tail(fills[f].rows)
  IN
  /\ fills[f].pc = "write"
  /\ Upsert(row)
  /\ fills' = [fills EXCEPT ![f].rows = rest, ![f].cursor = row.bar + 1,
                            ![f].pc = IF rest # <<>> THEN "write"
                                      ELSE IF row.bar = fills[f].to THEN "cover" ELSE "fetch"]
  /\ UNCHANGED <<forming, link, inbox, polls, queue, coverage, losses>>

\* _write_coverage, and the answer.
Stored == {b \in Bars : candles[b] # "none"}
Complete(f) ==
  /\ fills[f].pc = "cover"
  /\ coverage' = MissingBars(Stored, Max({1, fills[f].to - Lookback}), fills[f].to)
  /\ fills' = [fills EXCEPT ![f] = NoFill]
  /\ UNCHANGED <<forming, candles, link, inbox, polls, queue, losses>>

\* A failed attempt is retried until there are none left.
Retry(f) == queue' = IF fills[f].left > 1
                     THEN Append(queue, [to |-> fills[f].to, left |-> fills[f].left - 1])
                     ELSE queue

\* The exchange, a statement or the ingestor fails, and with it the request.
FillFails(f) ==
  /\ fills[f].pc # "idle"
  /\ Loses
  /\ Retry(f)
  /\ fills' = [fills EXCEPT ![f] = NoFill]
  /\ UNCHANGED <<forming, candles, link, inbox, polls, coverage>>

\* The API's timeout of 180 s, or its death: the request goes on at the ingestor.
GiveUp(f) ==
  /\ fills[f].pc # "idle" /\ fills[f].left > 0
  /\ Loses
  /\ Retry(f)
  /\ fills' = [fills EXCEPT ![f].left = 0]
  /\ UNCHANGED <<forming, candles, link, inbox, polls, coverage>>

FillStep(f) == Post(f) \/ FetchPage(f) \/ WriteRow(f) \/ Complete(f)
PollStep(p) == PollFetch(p) \/ PollWrite(p)

MarketNext ==
  \/ Update \/ NextBar \/ Connect \/ OnKline \/ Disconnect \/ Enqueue
  \/ \E p \in Polls : PollStep(p) \/ PollFails(p)
  \/ \E f \in Fills : FillStep(f) \/ FillFails(f) \/ GiveUp(f)

\* The schedule is due again and again, BullMQ hands out what waits, and awaits end.  The
\* link and the polls owe nothing.
MarketFairness ==
  /\ WF_marketVars(Enqueue)
  /\ \A f \in Fills : WF_marketVars(FillStep(f))
  /\ \A p \in Polls : WF_marketVars(PollWrite(p))
  /\ WF_marketVars(OnKline)

MarketSpec == MarketInit /\ [][MarketNext]_marketVars /\ MarketFairness

(***************************************************************************)
(* Properties                                                              *)
(***************************************************************************)
Reach == Max({1, forming - Lookback})..forming - 1

\* Whatever was lost, or written late over a newer row, every closed bar that the schedule
\* looks back at is stored with its final values in the end, by the backfills alone, and
\* the coverage they report has no gap (realtime.py:7, 15-17, backfillQueue.ts:257-341).
FinalInTheEnd == <>[](coverage = 0 /\ \A b \in Reach : candles[b] = "final")

\* Every scan of the stored bars reports exactly their gaps.
GapsAreExact == \A from \in Bars, to \in 0..MaxBar : ExactScan(Stored, from, to)
=============================================================================
