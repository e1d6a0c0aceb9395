----------------------------- MODULE MCAgentExec -----------------------------
(***************************************************************************)
(* The instances that TLC checks of AgentExec, of Evidence and of          *)
(* PaperSessions: what is traded for an owner on the test chains, and what *)
(* is stored, confirmed and published of what an owner tests.              *)
(***************************************************************************)
EXTENDS AgentExec, Evidence, PaperSessions, TLC

Act(kind, sym, amount, side) == [kind |-> kind, sym |-> sym, amount |-> amount, side |-> side]
Leg(kind, sym, weight) == [kind |-> kind, sym |-> sym, weight |-> weight]

Trades_ == {Act("buy", "tsla", 4, 1), Act("sell", "tsla", 2, 1), Act("swap", "usd", 3, 1),
            Act("swap", "usd", 2, 0), Act("lp", "usd", 8, 1), Act("buy", "tsla", 11, 1),
            Act("bridge", "usd", 2, 0), Act("bridge", "usd", 2, 1)}
Twice == <<Leg("buy", "tsla", 1), Leg("buy", "tsla", 1)>>
Plans_ == {<<Leg("buy", "tsla", 2), Leg("lp", "usd", 3)>>, Twice}
Symmetry == UNION {Permutations(S) : S \in {Requests, Keys, Attempts}}

(***************************************************************************)
(* The execution; the evidence of bots, with the book that is recorded, or *)
(* of simple runs and optimizers, with the candles; or the requests of a   *)
(* paper session that is posted once, in turn and without a failure, or    *)
(* any two of them.                                                        *)
(***************************************************************************)
VARIABLE part

mcVars == <<vars, evidenceVars, sessionVars, part>>
InEvidence == part \in {"bots", "simple"}
InSession == part \in {"turns", "overlap"}

\* The trader and the owner of the vault move beside one deal at a time, never a launch;
\* without them, any two requests run beside each other.
Launching(r) == /\ Busy(r)
                /\ running[r].kind = "launch" \/ todo[r] # <<>> \/ answers[r] # <<>>
\* The launch that buys twice, and may leave dollars for a sell to find, runs in turn with
\* the other request.
BuysTwice(r) == \/ running[r].kind = "launch" /\ running[r].legs = Twice
                \/ \E q \in {running[r]} \union ToSet(todo[r]) : q.kind = "buy" /\ q.amount = 5
\* A lookup fails, or a caught read, in a request that ran alone until then.
Failing(r) == \E x \in Roles : lookup[r][x].st = "failed"
Missing(r) == memory[r].missed0 + memory[r].missed1 > 0
WithinExec == /\ moves' > 0 => /\ {r \in Requests : Launching(r)'} = {}
                               /\ Cardinality({r \in Requests : Busy(r)'}) <= 1
              /\ Cardinality({r \in Requests : Busy(r)'}) <= 1
                   \/ {r \in Requests : BuysTwice(r)'} = {}
              /\ \A r \in Requests : (Failing(r)' /\ ~Failing(r)) => alone'[r]
              /\ \A r \in Requests : (Missing(r)' /\ ~Missing(r)) => alone'[r]

\* A bot's run, and the combinations of its options that tell something; a second spec is
\* there to be forked.
Telling(run) == /\ run.kind \in {"backtest", "paper"}
                /\ run.spec = CHOOSE s \in Specs : TRUE
                /\ run.fallback => run.l2
                /\ run.liquidated => ~run.approx /\ ~run.l2
                /\ run.kind = "paper" => ~run.l2

\* A claim of return or tier matters to a simple run.
Worth(claim) == /\ ~claim.verify => claim.passes
                /\ part = "bots" => /\ claim.return = CHOOSE b \in Bars : TRUE
                                    /\ claim.tier = "BACKTEST VERIFIED"

\* One run is asked for, whatever is then done with it; a passport and a card at most, the
\* passport after the attempts.
NewRun(q) == asker[q].pc = "call" /\ asker[q].calls = 0
OneOfEach ==
  /\ \A q \in Askers : NewRun(q)' /\ ~NewRun(q) =>
       runs = <<>> /\ \A j \in Attempts : attempt[j] = NotAsking
  /\ \A q \in Askers : asker'[q].pc = "risk" =>
       /\ passports = {} /\ Worth(asker'[q].claim)
       /\ \A j \in Attempts : attempt[j] = NotAsking
  /\ Cardinality(cards') <= 1

\* What nothing reads before it could change again is not changed.
ReadSoon ==
  /\ book' # book => \/ \E j \in Attempts : attempt[j].pc = "compute"
                     \/ \E q \in Askers : asker[q].pc = "call"
  /\ candles' # candles => \E q \in Askers : asker[q].pc = "verify"
  /\ versions' # versions => runs = <<>> \/ \E q \in Askers : asker[q].pc = "verify"

WithinEvidence ==
  /\ OneOfEach /\ ReadSoon
  /\ part = "bots" =>
       /\ \A v \in Versions : versions'[v] = versions[v]
       /\ candles' = candles
       /\ \A q \in Askers : NewRun(q)' => Telling(asker'[q].run)
       /\ \A s \in Specs : specs'[s] # specs[s] =>
            cards # {} \/ s = CHOOSE t \in Specs : TRUE
  /\ part = "simple" => specs' = specs /\ book' = book

WithinSession ==
  /\ part = "overlap" =>
       /\ usedUp'.ticks <= 2 /\ usedUp'.rebuilds + usedUp'.lost + usedUp'.creates <= 2
       /\ usedUp'.ticks + usedUp'.rebuilds + usedUp'.creates <= 3
  /\ part = "turns" => /\ Cardinality({r \in Handlers : ~Free(r)'}) <= 1
                       /\ usedUp'.lost = 0 /\ usedUp'.creates <= 1

MCInit == /\ Init /\ EvidenceInit /\ SessionsInit
          /\ part \in {"exec", "bots", "simple", "turns", "overlap"}
          /\ part = "bots" \/ book = "none"
          /\ part = "simple" \/ candles = NoBars

MCNext ==
  \/ part = "exec" /\ Next /\ WithinExec /\ UNCHANGED <<evidenceVars, sessionVars, part>>
  \/ InEvidence /\ EvidenceNext /\ WithinEvidence /\ UNCHANGED <<vars, sessionVars, part>>
  \/ InSession /\ SessionsNext /\ WithinSession /\ UNCHANGED <<vars, evidenceVars, part>>

MCSpec == MCInit /\ [][MCNext]_mcVars

\* However the ticks of a paper session overlap, fail and are repeated, its positions are
\* the fills of its log, until a rebuild; and in turn, no tick fills after stale data
\* without the fresh ticks that the session asks for (main.py:777, paper.py:63).
SessionIsSound == TicksKeepBooks /\ (part = "turns" => StaleDataIsWaitedOut)
=============================================================================
