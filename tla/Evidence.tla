------------------------------ MODULE Evidence ------------------------------
(***************************************************************************)
(* What the platform takes as evidence for a strategy: runs that the       *)
(* worker computes and stores (main.py), passports that the verifier       *)
(* confirms by replaying a run (verifier/main.py, replay_core.py), and     *)
(* marketplace cards of bot runs whose fills came out of the recorded      *)
(* order book (index.ts).  A request waits for the worker or the verifier  *)
(* and then writes; fetchWorker repeats a call whose answer it believes    *)
(* lost while the first attempt goes on, so that a run may be stored twice *)
(* or by an attempt nobody waits for.                                      *)
(*                                                                         *)
(* What a run computes, its events and its return, is named by what it is  *)
(* computed on: a series of bars, which stands for all that give the same  *)
(* events, or the book.  Left out: the strategies table, a run's           *)
(* candidates, its risk snapshot, the text of cards and passports, and the *)
(* erasure of an account.                                                  *)
(***************************************************************************)
EXTENDS Integers, FiniteSets, Sequences

CONSTANTS Owners,
          Specs,       \* identifiers of bot specs
          Versions,    \* identifiers of strategy versions that owners write
          Hashes,      \* hashes that a version's definition may have
          Bars,        \* series of bars a run may be computed on
          Askers,      \* requests that may be in flight
          Attempts,    \* calls of the worker that may be under way
          MaxCalls,    \* WORKER_RETRY_ATTEMPTS
          MaxRuns      \* bound: runs stored

ASSUME EvidenceAssumption == MaxCalls \in Nat \ {0} /\ MaxRuns \in Nat /\ Bars # {}

VARIABLES versions,   \* strategy_versions: owner and hash by identifier
          specs,      \* bot_specs: the owner by identifier
          runs,       \* backtest_runs and optimization_runs, in order of insertion
          passports,  \* leaderboard_passports
          cards,      \* marketplace_cards
          book,       \* how much of the run's range is recorded in l2_snapshots
          candles,    \* the bars the candles table holds of it
          asker,      \* requests in flight
          attempt     \* calls of the worker under way

tables == <<versions, specs, runs, passports, cards>>
market == <<book, candles>>
evidenceVars == <<tables, market, asker, attempt>>

NoRow == [owner |-> "no row"]
Nobody == "nobody"            \* owner_id NULL
ASSUME NobodyAssumption == Nobody \notin Askers
NoSpec == "no spec"
NoBars == "no bars"
OnBook == "book"
NotAsking == [pc |-> "idle"]

\* bot_<spec> and bot_paper_<spec>, the versions a bot's runs are stored under.
BotVersion(s, kind) == <<kind, s>>
BotVersions == {"backtest", "paper"} \X Specs
Exists(table, id) == table[id] # NoRow
\* isForeignOwned: a row of nobody is foreign to nobody.
Foreign(table, id, o) == Exists(table, id) /\ table[id].owner \notin {Nobody, o}

EvidenceInit ==
  /\ versions = [v \in Versions \union BotVersions |-> NoRow]
  /\ specs = [s \in Specs |-> NoRow]
  /\ runs = <<>>
  /\ passports = {} /\ cards = {}
  /\ book \in {"none", "sparse", "full"}
  /\ candles \in Bars \union {NoBars}
  /\ asker = [q \in Askers |-> NotAsking]
  /\ attempt = [j \in Attempts |-> NotAsking]

Waits(q, pc) == asker[q].pc = pc
Becomes(q, request) == asker' = [asker EXCEPT ![q] = request]
Leaves(q) == Becomes(q, NotAsking)

-----------------------------------------------------------------------------
(* Strategies and bots. *)

\* POST /api/strategies/:id/versions.
WriteVersion(o, v, h) ==
  /\ ~Foreign(versions, v, o)
  /\ versions' = [versions EXCEPT ![v] = [owner |-> o, hash |-> h]]
  /\ UNCHANGED <<specs, runs, passports, cards, market, asker, attempt>>

\* POST /api/bots/specs: the identifier is a new one, so that the wait for the worker's
\* validation is nobody's.
WriteSpec(o, s) ==
  /\ ~Exists(specs, s)
  /\ specs' = [specs EXCEPT ![s] = [owner |-> o]]
  /\ UNCHANGED <<versions, runs, passports, cards, market, asker, attempt>>

\* The fork of a card.
Fork(o, s) == (\E card \in cards : card.published) /\ WriteSpec(o, s)

-----------------------------------------------------------------------------
(* Requests for a run. *)

Run(kind, version, spec, bars) ==
  [kind |-> kind, version |-> version, spec |-> spec, bars |-> bars, result |-> bars,
   hash |-> Nobody,
   l2 |-> FALSE, fallback |-> FALSE, consumed |-> FALSE, covered |-> FALSE, approx |-> FALSE,
   liquidated |-> FALSE]

Calls(q, o, run) == Becomes(q, [pc |-> "call", owner |-> o, run |-> run, calls |-> 0])

\* POST /api/backtests.  Without bars the candles table must be complete, but the worker
\* is sent no bars all the same.
AskBacktest(q, o, v, bars, liquidated) ==
  /\ Waits(q, "idle")
  /\ bars = NoBars => candles # NoBars /\ ~liquidated
  /\ Calls(q, o, [Run("simple", v, NoSpec, bars) EXCEPT !.liquidated = liquidated])
  /\ UNCHANGED <<tables, market, attempt>>

\* POST /api/bots/runs/backtest and /paper; enrichBotCoverage reads what is recorded.  An
\* execution bot's fills are approximate unless something is, or the client says they are not.
AskBot(q, o, s, kind, l2, fallback, approx, liquidated) ==
  /\ Waits(q, "idle")
  /\ Exists(specs, s) /\ specs[s].owner = o
  /\ Calls(q, o, [Run(kind, BotVersion(s, kind), s, CHOOSE b \in Bars : TRUE)
                    EXCEPT !.l2 = l2, !.liquidated = liquidated,
                           !.fallback = fallback,
                           !.covered = book = "full",
                           !.approx = approx /\ book = "none"])
  /\ UNCHANGED <<tables, market, attempt>>

\* POST /api/optimizer/runs takes the version over and asks for a run of candidates.
AskOptimizer(q, o, v) ==
  /\ Waits(q, "idle") /\ ~Foreign(versions, v, o)
  /\ versions' = [versions EXCEPT ![v] =
       [owner |-> o, hash |-> IF Exists(versions, v) THEN @.hash ELSE Nobody]]
  /\ Calls(q, o, Run("optimize", v, NoSpec, NoBars))
  /\ UNCHANGED <<specs, runs, passports, cards, market, attempt>>

\* fetchWorker.
Call(q, j) ==
  /\ Waits(q, "call") /\ attempt[j] = NotAsking
  /\ asker[q].calls < MaxCalls
  /\ attempt' = [attempt EXCEPT ![j] = [pc |-> "compute", for |-> q, run |-> asker[q].run]]
  /\ Becomes(q, [asker[q] EXCEPT !.pc = "waits", !.calls = @ + 1])
  /\ UNCHANGED <<tables, market>>

\* 25 seconds pass, the connection breaks or a 429 or 5xx comes: the call is repeated, and
\* the attempt, if it lives, is heard no more.
CallLost(q) ==
  /\ Waits(q, "waits")
  /\ IF asker[q].calls < MaxCalls THEN Becomes(q, [asker[q] EXCEPT !.pc = "call"]) ELSE Leaves(q)
  /\ attempt' = [j \in Attempts |-> IF attempt[j] # NotAsking /\ attempt[j].for = q
                                    THEN [attempt[j] EXCEPT !.for = Nobody] ELSE attempt[j]]
  /\ UNCHANGED <<tables, market>>

-----------------------------------------------------------------------------
(* An attempt of the worker. *)

Moves(j, pc) == attempt' = [attempt EXCEPT ![j].pc = pc]
Computing(j) == attempt[j].run

\* A bot may be refused: its spec is not valid, or build_provider finds no recorded book,
\* or no trades, and the run may not fall back.  Its fills come out of the book where there
\* is one; fill_model says whether they did at most bars, which a recording with holes may
\* yet allow.
Compute(j) ==
  /\ attempt[j].pc = "compute"
  /\ LET run == Computing(j)
     IN \E result \in {run.bars, OnBook}, full, refused \in BOOLEAN :
          /\ result = OnBook => run.l2 /\ book # "none" /\ ~refused
          /\ full => result = OnBook
          /\ refused => run.kind \in {"backtest", "paper"}
          /\ run.l2 /\ book = "none" /\ ~run.fallback => refused
          /\ attempt' = [attempt EXCEPT ![j] =
               IF refused THEN [@ EXCEPT !.pc = "refuses"]
               ELSE [@ EXCEPT !.pc = IF run.kind = "optimize" THEN "run" ELSE "version",
                              !.run.consumed = full, !.run.result = result]]
  /\ UNCHANGED <<tables, market, asker>>

\* The version's row is written if it is not there, a bot's hash always; the hash is read.
StoreVersion(j) ==
  /\ attempt[j].pc = "version"
  /\ LET v == Computing(j).version
         there == IF Exists(versions, v) THEN versions[v] ELSE [owner |-> Nobody, hash |-> Nobody]
         row == IF Computing(j).kind = "simple" THEN there
                ELSE [there EXCEPT !.hash = Computing(j).spec]
     IN /\ versions' = [versions EXCEPT ![v] = row]
        /\ attempt' = [attempt EXCEPT ![j].pc = "run", ![j].run.hash = row.hash]
  /\ UNCHANGED <<specs, runs, passports, cards, market, asker>>

StoreRun(j) ==
  /\ attempt[j].pc = "run" /\ Len(runs) < MaxRuns
  /\ runs' = Append(runs, Computing(j))
  /\ Moves(j, "answer")
  /\ UNCHANGED <<versions, specs, passports, cards, market, asker>>

\* The answer reaches the request, unless that waits no more.
Respond(j) ==
  /\ attempt[j].pc \in {"answer", "refuses"}
  /\ attempt' = [attempt EXCEPT ![j] = NotAsking]
  /\ IF attempt[j].for \in Askers THEN Leaves(attempt[j].for) ELSE UNCHANGED asker
  /\ UNCHANGED <<tables, market>>

\* The worker dies or a statement throws: what was stored stays.
AttemptDies(j) ==
  /\ attempt[j] # NotAsking
  /\ attempt' = [attempt EXCEPT ![j] = NotAsking]
  /\ IF attempt[j].for \in Askers
     THEN Becomes(attempt[j].for, IF asker[attempt[j].for].calls < MaxCalls
                                  THEN [asker[attempt[j].for] EXCEPT !.pc = "call"] ELSE NotAsking)
     ELSE UNCHANGED asker
  /\ UNCHANGED <<tables, market>>

Attempting(j) == Compute(j) \/ StoreVersion(j) \/ StoreRun(j) \/ Respond(j) \/ AttemptDies(j)

-----------------------------------------------------------------------------
(* POST /api/passports/publish: read, risk, verifier, insert. *)

TierOf(run) == IF run.kind = "paper" THEN "LIVE PAPER VERIFIED" ELSE "BACKTEST VERIFIED"
Unverified == [score |-> "local", tier |-> "UNVERIFIED PAPER", seen |-> NoRow]

\* What the client claims: that its numbers pass the gates, its return, the tier it wants.
AskPassport(q, o, i, claim) ==
  /\ Waits(q, "idle") /\ runs[i].kind # "optimize"
  /\ ~Foreign(versions, runs[i].version, o)
  /\ Becomes(q, [pc |-> "risk", owner |-> o, row |-> i, claim |-> claim,
                 read |-> runs[i], passes |-> FALSE, answer |-> Unverified])
  /\ UNCHANGED <<tables, market, attempt>>

\* Mutation: the gates judge the client's numbers alone.
GatesBelieve(claim, run) == claim.passes

\* approximate_fills and liquidation_events are the run's, the rest is what the client says.
Gates(claim, run) == claim.passes /\ ~run.approx /\ ~run.liquidated

PassportRisk(q) ==
  /\ Waits(q, "risk")
  /\ LET passes == Gates(asker[q].claim, asker[q].read)
     IN Becomes(q, [asker[q] EXCEPT !.pc = IF asker[q].claim.verify THEN "verify" ELSE "insert",
                                    !.passes = passes])
  /\ UNCHANGED <<tables, market, attempt>>

\* What the verifier computes a run again on: a bot's on the bars in its row, unless it was
\* asked for on the book; a simple one on the candles of its range if there are any, else on
\* the bars in its row.
Replay(run) == IF run.kind = "simple" /\ candles # NoBars THEN candles
               ELSE IF run.l2 THEN NoBars ELSE run.bars

\* Mutation: the digests are not compared.
ReproducesAny(run) == Replay(run) # NoBars

\* The replay must give the events whose digest the row holds: canonical_event_digest of a
\* bot's run, and that within run_hash of a simple one.
Reproduces(run) == Replay(run) # NoBars /\ Replay(run) = run.result

\* Mutation: a simple run is believed what it was published with.
BelievesClaim(run, claim) == TRUE

\* A simple run must also be of the version as it is now, and be published as a backtest
\* with the return that the replay gives.  A bot's claim is not looked at.
StandsBy(run, claim) ==
  run.kind = "simple" =>
    /\ versions[run.version].hash = run.hash
    /\ claim.tier = "BACKTEST VERIFIED" /\ claim.return = Replay(run)

\* The verifier reads the run anew, with its version, and answers with the score of its
\* replay; seen, the version it read, is kept for the properties.  It may also reject, or not answer: the client
\* submitted another hash or snapshot, or the run's engine is an old one.
Verify(q) ==
  /\ Waits(q, "verify")
  /\ LET run == runs[asker[q].row]
     IN \/ /\ Reproduces(run) /\ StandsBy(run, asker[q].claim)
           /\ Becomes(q, [asker[q] EXCEPT !.pc = "insert",
                !.answer = [score |-> Replay(run), tier |-> TierOf(run),
                            seen |-> versions[run.version]]])
        \/ Becomes(q, [asker[q] EXCEPT !.pc = "insert"])
  /\ UNCHANGED <<tables, market, attempt>>

\* The score is the verifier's, or what the risk service made of the client's numbers.
InsertPassport(q) ==
  /\ Waits(q, "insert")
  /\ LET answer == asker[q].answer
     IN passports' = passports \union
          {[run |-> asker[q].row, tier |-> answer.tier, seen |-> answer.seen,
            ranked |-> answer # Unverified /\ asker[q].passes,
            final |-> IF asker[q].passes THEN answer.score ELSE "none",
            claimed |-> asker[q].claim.return]}
  /\ Leaves(q)
  /\ UNCHANGED <<versions, specs, runs, cards, market, attempt>>

-----------------------------------------------------------------------------
(* POST /api/bots/marketplace/publish. *)

\* The tier asked for is kept by a run whose fills consumed the book, with its range covered.
Publishable(run, tier) == tier = "verified" /\ ~run.approx /\ run.consumed /\ run.covered

PublishCard(o, i, tier) ==
  /\ runs[i].spec # NoSpec /\ specs[runs[i].spec].owner = o
  /\ cards' = cards \union {[run |-> i, published |-> Publishable(runs[i], tier)]}
  /\ UNCHANGED <<versions, specs, runs, passports, market, asker, attempt>>

-----------------------------------------------------------------------------
(* The recorder and the retention of seven days; a backfill. *)

BookChanges == /\ book' \in {"none", "sparse", "full"} \ {book}
               /\ UNCHANGED <<tables, candles, asker, attempt>>
CandlesChange == /\ candles' \in Bars \ {candles}
                 /\ UNCHANGED <<tables, book, asker, attempt>>

Claims == [passes : BOOLEAN, return : Bars, verify : BOOLEAN,
           tier : {"BACKTEST VERIFIED", "LIVE PAPER VERIFIED"}]

\* The requests owner o may send.
Asks(q, o) ==
  \/ \E v \in Versions :
       \/ \E b \in Bars \union {NoBars}, liquidated \in BOOLEAN : AskBacktest(q, o, v, b, liquidated)
       \/ AskOptimizer(q, o, v)
  \/ \E s \in Specs, kind \in {"backtest", "paper"} :
       \E l2, fallback, approx, liquidated \in BOOLEAN :
         AskBot(q, o, s, kind, l2, fallback, approx, liquidated)
  \/ \E i \in DOMAIN runs, claim \in Claims : AskPassport(q, o, i, claim)

Writes(o) == \/ \E v \in Versions, h \in Hashes : WriteVersion(o, v, h)
             \/ \E s \in Specs : WriteSpec(o, s) \/ Fork(o, s)
             \/ \E i \in DOMAIN runs, tier \in {"verified", "local"} : PublishCard(o, i, tier)

Serves(q) == \/ CallLost(q) \/ \E j \in Attempts : Call(q, j)
             \/ PassportRisk(q) \/ Verify(q) \/ InsertPassport(q)

EvidenceNext ==
  \/ \E o \in Owners : Writes(o) \/ \E q \in Askers : Asks(q, o)
  \/ \E q \in Askers : Serves(q)
  \/ \E j \in Attempts : Attempting(j)
  \/ BookChanges \/ CandlesChange

EvidenceSpec == EvidenceInit /\ [][EvidenceNext]_evidenceVars

-----------------------------------------------------------------------------
\* Part of EvidenceHolds: whatever the client claims, and whatever is edited, backfilled or
\* published while its request waits, a ranked passport is of a run without approximate fills
\* and liquidations, its score is what that run computed when it was stored, and only a paper
\* run's stands in the live tier.  Of a simple run, the passport also shows the return it was
\* claimed with, and the version had not changed since the run when the verifier looked
\* (index.ts:2909-2913, 3092, verifier/main.py:131-153, 406-479).
RankedIsReplayed ==
  \A p \in passports :
    p.ranked =>
      LET run == runs[p.run]
      IN /\ ~run.approx /\ ~run.liquidated
         /\ p.final = run.result
         /\ (p.tier = "LIVE PAPER VERIFIED") <=> (run.kind = "paper")
         /\ run.kind = "simple" => p.claimed = p.final /\ p.seen.hash = run.hash

\* Part of EvidenceHolds: a published card is of a run whose fills consumed the book and
\* whose range was covered; and no such run has a ranked passport, since the verifier
\* replays on bars only, which give other events (index.ts:2586, replay_core.py:133-138).
CardsComeFromTheBook ==
  \A card \in cards :
    card.published =>
      /\ runs[card.run].consumed /\ runs[card.run].covered /\ runs[card.run].l2
      /\ \A p \in passports : p.run = card.run => ~p.ranked

\* What is ranked was replayed, and what is published as a card came out of the book:
\* passports/publish, the verifier and marketplace/publish together.
EvidenceHolds == RankedIsReplayed /\ CardsComeFromTheBook
=============================================================================
