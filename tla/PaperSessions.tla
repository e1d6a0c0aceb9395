---------------------------- MODULE PaperSessions ----------------------------
(***************************************************************************)
(* One paper session of the tick endpoints of the API (index.ts) and the   *)
(* worker (main.py), which decide on each tick with evaluate_tick of       *)
(* quant_core/paper.py.  A tick reads the session's row, then its counters *)
(* in Redis, commits its events, its fill and the row in one transaction,  *)
(* and then saves the counters; a rebuild reads the events and writes the  *)
(* position anew, statement by statement.  Handlers overlap, a request may *)
(* fail between two steps, and fetchWorker repeats what it believes lost.  *)
(***************************************************************************)
EXTENDS Integers, FiniteSets, SequencesExt

CONSTANTS Markets,   \* symbols a tick may name
          TickPrices,
          Handlers,  \* ticks and rebuilds that may be in flight
          Required,  \* required_fresh_ticks of the session
          MaxTicks,  \* bound: ticks that commit
          MaxRebuilds, \* bound: rebuilds
          MaxCreates,  \* bound: times the session is posted
          MaxLost      \* bound: requests that fail half way

ASSUME SessionsAssumption == /\ Required \in Nat \ {0} /\ TickPrices \subseteq Nat \ {0}
                             /\ IsFiniteSet(Handlers)

VARIABLES sessionRow, \* paper_sessions: status and reconnecting
          log,        \* paper_events, by the fields a rebuild reads
          held,       \* paper_positions: the fills held of each symbol, 0 for no row
          counters,   \* in Redis: fresh ticks, and the last price of each symbol
          request,    \* requests in flight, with what they have read
          usedUp      \* of the bounds

sessionVars == <<sessionRow, log, held, counters, request, usedUp>>

NoPrice == 0
Unknown == "UNKNOWN"
NoRequest == [pc |-> "idle"]
Free(r) == request[r] = NoRequest
Ends(r) == request' = [request EXCEPT ![r] = NoRequest]
Uses(what, bound) == usedUp[what] < bound /\ usedUp' = [usedUp EXCEPT ![what] = @ + 1]

SessionsInit ==
  /\ sessionRow = [status |-> "none", reconnecting |-> FALSE]
  /\ log = <<>>
  /\ held = [s \in Markets \union {Unknown} |-> 0]
  /\ counters = [fresh |-> 0, last |-> [s \in Markets |-> NoPrice]]
  /\ request = [r \in Handlers |-> NoRequest]
  /\ usedUp = [ticks |-> 0, rebuilds |-> 0, creates |-> 0, lost |-> 0]

\* POST /api/paper/sessions: the upsert sets an old session going again.
CreateSession ==
  /\ Uses("creates", MaxCreates)
  /\ sessionRow' = [status |-> "active", reconnecting |-> FALSE]
  /\ UNCHANGED <<log, held, counters, request>>

StopSession ==
  /\ sessionRow.status # "none"
  /\ sessionRow' = [sessionRow EXCEPT !.status = "stopped"]
  /\ UNCHANGED <<log, held, counters, request, usedUp>>

(***************************************************************************)
(* evaluate_tick, on what the tick has read.  It asks for no status: a     *)
(* tick sets a stopped session going.                                      *)
(***************************************************************************)
Event(type, symbol) == [type |-> type, symbol |-> symbol]

\* Mutation: a stale tick leaves the count of fresh ones.
NotRestarted(read) == read.fresh

\* A stale tick starts the count of fresh ones anew.
Restarted(read) == 0

Decision(read) ==
  LET fresh == read.fresh + 1
      fills == read.last # NoPrice /\ read.price > read.last
  IN CASE read.stale ->
            [status |-> "paused", reconnecting |-> TRUE, fresh |-> Restarted(read),
             event |-> "stale", fills |-> FALSE]
       [] ~read.stale /\ read.reconnecting /\ fresh < Required ->
            [status |-> "waiting_fresh_ticks", reconnecting |-> TRUE, fresh |-> fresh,
             event |-> "waiting", fills |-> FALSE]
       [] OTHER ->
            [status |-> "active", reconnecting |-> FALSE,
             fresh |-> IF read.reconnecting THEN fresh ELSE read.fresh,
             event |-> "ingested", fills |-> fills]

-----------------------------------------------------------------------------
(* A tick. *)

ReadSession(r) ==
  /\ Free(r) /\ sessionRow.status # "none"
  /\ \E s \in Markets, p \in TickPrices, stale \in BOOLEAN :
       request' = [request EXCEPT ![r] =
         [pc |-> "session", symbol |-> s, price |-> p, stale |-> stale,
          reconnecting |-> sessionRow.reconnecting, fresh |-> 0, last |-> NoPrice]]
  /\ UNCHANGED <<sessionRow, log, held, counters, usedUp>>

ReadCounters(r) ==
  /\ request[r].pc = "session"
  /\ request' = [request EXCEPT ![r] =
       [@ EXCEPT !.pc = "decide", !.fresh = counters.fresh,
                 !.last = counters.last[request[r].symbol]]]
  /\ UNCHANGED <<sessionRow, log, held, counters, usedUp>>

\* Mutation: the quantity is the one of the fill.
AddFillReplaces(s) == [held EXCEPT ![s] = 1]

\* ON CONFLICT DO UPDATE SET qty = paper_positions.qty + EXCLUDED.qty.
AddFill(s) == [held EXCEPT ![s] = @ + 1]

CommitTick(r) ==
  /\ request[r].pc = "decide"
  /\ Uses("ticks", MaxTicks)
  /\ LET s == request[r].symbol
         decided == Decision(request[r])
     IN /\ log' = log \o <<Event(decided.event, s)>>
                      \o (IF decided.fills THEN <<Event("FILL", s)>> ELSE <<>>)
        /\ sessionRow' = [status |-> decided.status, reconnecting |-> decided.reconnecting]
        /\ held' = IF decided.fills THEN AddFill(s) ELSE held
        /\ request' = [request EXCEPT ![r].pc = "price", ![r].fresh = decided.fresh]
  /\ UNCHANGED counters

SavePrice(r) ==
  /\ request[r].pc = "price"
  /\ counters' = [counters EXCEPT !.last[request[r].symbol] = request[r].price]
  /\ request' = [request EXCEPT ![r].pc = "fresh"]
  /\ UNCHANGED <<sessionRow, log, held, usedUp>>

SaveFresh(r) ==
  /\ request[r].pc = "fresh"
  /\ counters' = [counters EXCEPT !.fresh = request[r].fresh]
  /\ Ends(r)
  /\ UNCHANGED <<sessionRow, log, held, usedUp>>

-----------------------------------------------------------------------------
(* A rebuild: one quantity of all fills, for the symbol of the last event. *)

ReadEvents(r) ==
  /\ Free(r) /\ sessionRow.status # "none" /\ log # <<>>
  /\ Uses("rebuilds", MaxRebuilds)
  /\ request' = [request EXCEPT ![r] =
       [pc |-> "delete", qty |-> Cardinality({i \in DOMAIN log : log[i].type = "FILL"}),
        symbol |-> Last(log).symbol]]
  /\ UNCHANGED <<sessionRow, log, held, counters>>

DeletePositions(r) ==
  /\ request[r].pc = "delete"
  /\ held' = [s \in DOMAIN held |-> 0]
  /\ request' = [request EXCEPT ![r].pc = "insert"]
  /\ UNCHANGED <<sessionRow, log, counters, usedUp>>

InsertPosition(r) ==
  /\ request[r].pc = "insert"
  /\ held' = [held EXCEPT ![request[r].symbol] = request[r].qty]
  /\ request' = [request EXCEPT ![r].pc = "event"]
  /\ UNCHANGED <<sessionRow, log, counters, usedUp>>

\* Its payload names no symbol.
LogRebuild(r) ==
  /\ request[r].pc = "event"
  /\ log' = Append(log, Event("REBUILD_COMPLETED", Unknown))
  /\ Ends(r)
  /\ UNCHANGED <<sessionRow, held, counters, usedUp>>

\* A statement throws or the worker dies: what is committed stays.
RequestLost(r) ==
  /\ ~Free(r)
  /\ Uses("lost", MaxLost)
  /\ Ends(r)
  /\ UNCHANGED <<sessionRow, log, held, counters>>

TickStep(r) ==
  ReadSession(r) \/ ReadCounters(r) \/ CommitTick(r) \/ SavePrice(r) \/ SaveFresh(r)
RebuildStep(r) == ReadEvents(r) \/ DeletePositions(r) \/ InsertPosition(r) \/ LogRebuild(r)

SessionsNext ==
  \/ CreateSession \/ StopSession
  \/ \E r \in Handlers : TickStep(r) \/ RebuildStep(r) \/ RequestLost(r)

SessionsSpec == SessionsInit /\ [][SessionsNext]_sessionVars

-----------------------------------------------------------------------------
FillsOf(s) == Cardinality({i \in DOMAIN log : log[i].type = "FILL" /\ log[i].symbol = s})

\* However ticks overlap, fail and repeat, the positions are the sum of the fills in the
\* log, until a rebuild writes them (main.py:777: the fill, its events and the position
\* are one transaction).
TicksKeepBooks == usedUp.rebuilds = 0 => \A s \in Markets : held[s] = FillsOf(s)

\* No fill after stale data without the fresh ticks the session asks for since
\* (paper.py:63): i is a fill, and j the last pause before it.
FreshBefore(i) ==
  \A j \in 1..i :
    /\ log[j].type = "stale"
    /\ \A k \in j + 1..i : log[k].type # "stale"
    => Cardinality({k \in j + 1..i : log[k].type \in {"waiting", "ingested"}}) >= Required
StaleDataIsWaitedOut == \A i \in DOMAIN log : log[i].type = "FILL" => FreshBefore(i)

\* "Rebuildable from event log" (app.js:460, 771): with no request in flight the
\* positions are the ones the log adds up to.
RebuildableFromLog ==
  (\A r \in Handlers : Free(r)) => \A s \in Markets : held[s] = FillsOf(s)
=============================================================================
