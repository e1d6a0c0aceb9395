---------------------------- MODULE MCTradingDesk ----------------------------
(* TradingDesk on small instances: three positions, of which two at most are *)
(* between awaits, with one error, POST /risk or approval, or one at a time; *)
(* or triggers under a risk state that the owner sets, with two fires, or    *)
(* one and a failure, promotion or change: events one after the other, or    *)
(* two evaluations that overlap, in both while plans of fires still execute. *)
EXTENDS TradingDesk

MCReturns == {-30, -12, -5, 4}
MCTypes == <<"volatility_spike", "regime_flip">>
MCEvents == {[symbol |-> "btc", regime |-> "bull", bar |-> 1],
             [symbol |-> "btc", regime |-> "bear", bar |-> 1]}
MCConfigs == {[armed |-> TRUE, live |-> TRUE, cools |-> TRUE],
              [armed |-> TRUE, live |-> FALSE, cools |-> FALSE],
              [armed |-> FALSE, live |-> TRUE, cools |-> FALSE]}

VARIABLE part

Resting == {"none", "refused", "blocked", "failed", "approved", "open", "done"}
Moving == {p \in Positions : pc[p] \notin Resting}

\* The positions are interchangeable: they are asked for in one order.
Order == CHOOSE f \in [1..Cardinality(Positions) -> Positions] : {f[i] : i \in DOMAIN f} = Positions
InOrder == \A i \in 2..Cardinality(Positions) : pc[Order[i]] # "none" => pc[Order[i - 1]] # "none"

\* The evaluations that are under way; failures, promotions and changes by the owner.
Awake == {e \in Evals : eval[e].pc # "asleep"}
Promoted == {i \in DOMAIN rows : rows[i].owner # "none"}
Extras == fails + changes + posts + Cardinality(Promoted)

\* The evaluations are interchangeable, and so are the events: one of each leads.
Lead == CHOOSE e \in Evals : TRUE
LeadsWith == CHOOSE event \in Events : TRUE
Abreast == \/ Lead \in Awake \/ Awake' \subseteq Awake
           \/ rows = <<>> /\ Awake' \subseteq {Lead} /\ eval'[Lead].event = LeadsWith

Within ==
  /\ part = "turns" => Cardinality(Moving') <= 1 /\ (posts' # posts => Moving = {})
  /\ part \in {"turns", "overlap"} => InOrder' /\ UNCHANGED triggerVars
  /\ part = "overlap" => Cardinality(Moving') <= 2 /\ (errors + posts + approvals)' <= 1
  /\ part \in {"events", "crowd"} => UNCHANGED <<pc, closed>>
  /\ part = "events" => /\ Cardinality(Awake') <= 1 /\ (Cool => Awake = {})
                        /\ Extras' <= 1 /\ Extras' + Len(rows') <= 2
  /\ part = "crowd" => Extras' = 0 /\ hot \subseteq hot' /\ Len(rows') <= 2 /\ Abreast

MCInit == /\ DeskInit
          /\ part \in {"turns", "overlap", "events", "crowd"}
          /\ \E c \in Configs : config = [t \in TypeSet |-> c]
          /\ settings.L2
          /\ part # "events" => config = [t \in TypeSet |-> CHOOSE c \in Configs : c.armed /\ c.live]
MCNext == DeskNext /\ Within /\ UNCHANGED part
MCSpec == MCInit /\ [][MCNext]_<<deskVars, part>>

OverlapSpec == MCInit /\ part = "overlap" /\ [][MCNext]_<<deskVars, part>>

(* Where no two exits overlap, a refresh that ends heeds the losses. *)
LossesHalt == [][part = "turns" => \A p \in Positions : HeedsLosses(p)]_deskVars
=============================================================================
