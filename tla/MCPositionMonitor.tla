------------------------- MODULE MCPositionMonitor -------------------------
(* PositionMonitor on marks around the stop, breakeven, both take-profit     *)
(* tiers and the trailing activation of a long and of a short policy; the    *)
(* market data that its marks come from; and the Copilot with one run.       *)
EXTENDS PositionMonitor, MarketData, OrderBook, Copilot

Half(target) == [target |-> target, reduce |-> 50]
NoTrail == [on |-> FALSE, activate |-> 0, dist |-> 1, ratchet |-> TRUE]

\* A ladder of three tiers sold in parts, a trailing stop and a time exit.
LongPolicy ==
  [side |-> "long", stop |-> 5, maxLoss |-> 0, timed |-> TRUE,
   ladder |-> <<[target |-> 3, reduce |-> 40], [target |-> 6, reduce |-> 40],
                [target |-> 30, reduce |-> 20]>>,
   trail |-> [on |-> TRUE, activate |-> 6, dist |-> 2, ratchet |-> TRUE]]

\* A ladder whose first tiers sell everything, a wide stop and a loss cap.
ShortPolicy ==
  [side |-> "short", stop |-> 20, maxLoss |-> 4, timed |-> FALSE,
   ladder |-> <<Half(3), Half(6)>>, trail |-> NoTrail]

\* No ladder, and a trailing stop that does not ratchet.
LoosePolicy ==
  [side |-> "long", stop |-> 5, maxLoss |-> 0, timed |-> FALSE,
   ladder |-> <<>>, trail |-> [on |-> TRUE, activate |-> 3, dist |-> 4, ratchet |-> FALSE]]

AllPolicies == {LongPolicy, ShortPolicy, LoosePolicy}
LongOnly == {LongPolicy}
ShortOnly == {ShortPolicy}

(***************************************************************************)
(* Ticks that overlap in any way, on a mark that stops the position and    *)
(* one that takes tiers, with a crash; or ticks in turn, on marks around   *)
(* every level of the policies.  Or the market data of a symbol: its       *)
(* candles, or its recorded book.  Or the Copilot: a chat turn or a        *)
(* playbook run, and at most one fault.                                    *)
(***************************************************************************)
VARIABLE part

dataVars == <<marketVars, bookVars>>
mcVars == <<vars, dataVars, copilotVars, part>>

Monitoring == part \in {"overlap", "serial"}

Serial == \A t, u \in Ticks : pc[t] # "idle" /\ pc[u] # "idle" => t = u

\* At most one of: a fault, the switch turned off and, in turn, a close by hand.
Upsets == errors + crashes + (IF enabled THEN 0 ELSE 1)
By(hand) == IF hand = "none" THEN 0 ELSE 1

Within == IF part = "serial" THEN Serial /\ crashes = 0 /\ Upsets + By(manual) <= 1
          ELSE /\ Upsets <= 1
               /\ lastMark \in {Entry, 94, 104}
               /\ \A t \in Ticks : snap[t].mark \in {Entry, 94, 104}

\* The candles are polled or streamed, one backfill at a time is waited for, and two
\* writers overlap.
Candles == part \in {"polled", "streamed"}
Writers == Cardinality({f \in Fills : fills[f].pc # "idle"})
             + Cardinality({p \in Polls : polls[p] # <<>>}) + Len(inbox)
WithinMarket == /\ part = "polled" => link' = "down"
                /\ part = "streamed" => UNCHANGED polls
                /\ Cardinality({r \in Fills : fills'[r].left > 0}) <= 1 /\ Writers' <= 2

TwoLists == {<<"ask", "board">>, <<"board">>}
Used(r) == status[r] # "none" \/ r \in posting
OneRun == /\ Cardinality({r \in Runs : Used(r)}) < 2
          /\ dbErrors + deaths < IF \E r \in ChatRuns : turn[r].round > 0 THEN 1 ELSE 2
          /\ \A r \in PlanRuns : dbErrors + exec[r].approvals < 2
          /\ \A r \in Runs : Cardinality(saving[r]) < 4

MCInit == /\ Init /\ MarketInit /\ BookInit /\ CopilotInit
          /\ part \in {"overlap", "serial", "polled", "streamed", "book", "copilot"}
          /\ Within
          /\ Monitoring \/ policy = LongPolicy
          /\ part = "book" \/ venue = <<Empty>>

MCNext == \/ Monitoring /\ Next /\ UNCHANGED <<dataVars, copilotVars, part>> /\ Within'
          \/ Candles /\ MarketNext /\ UNCHANGED <<vars, bookVars, copilotVars, part>> /\ WithinMarket
          \/ part = "book" /\ BookNext /\ UNCHANGED <<vars, marketVars, copilotVars, part>>
          \/ part = "copilot" /\ CopilotNext /\ UNCHANGED <<vars, dataVars, part>> /\ OneRun'

\* The fairness of each part.
MCFairness ==
  /\ WF_vars(Monitoring /\ ManualStop)
  /\ \A t \in Ticks : WF_vars(Monitoring /\ Advance(t))
  /\ \A t \in Sweeps : SF_vars(Monitoring /\ ReadForSweep(t))
  /\ WF_marketVars(Candles /\ Enqueue)
  /\ \A f \in Fills : WF_marketVars(Candles /\ FillStep(f))
  /\ \A p \in Polls : WF_marketVars(Candles /\ PollWrite(p))
  /\ WF_marketVars(Candles /\ OnKline)
  /\ CopilotFairness

MCSpec == MCInit /\ [][MCNext]_mcVars /\ MCFairness

DeadlineSpec == /\ MCInit /\ part = "overlap"
                /\ [][Next /\ UNCHANGED <<dataVars, copilotVars, part>>]_mcVars
                /\ Fairness

\* When no tick starts while another one runs, the stop of a ratcheting policy moves
\* in the protective direction only (exitPolicy.ts:143, monotonic, never loosens).
StopNeverLoosens ==
  [][part = "serial" /\ (policy.trail.ratchet \/ ~policy.trail.on)
       => AtLeastAsTight(policy, runtime'.stop, runtime.stop)]_runtime

\* Then a take-profit tier is taken at most once, and once one was taken, no mark at or
\* below breakeven is sat through: the position is closed or being closed.
LadderKept ==
  part = "serial" =>
    /\ \A k \in DOMAIN policy.ladder : reduces[k] <= 1
    /\ runtime.cleared # {} /\ (policy.trail.ratchet \/ ~policy.trail.on)
       => AtLeastAsTight(policy, runtime.stop, 100 * Entry)

\* And without a crash it does not outlive its max_hold, even if no mark ever comes
\* (monitor.ts:138-140).
DeadlineClosesInTurn == part = "serial" /\ late ~> state = "closed"

\* Every scan of the candles reports exactly their gaps (gapScanner.ts:55-85).
ScansAreExact == Candles => GapsAreExact
=============================================================================
