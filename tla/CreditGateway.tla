--------------------------- MODULE CreditGateway ---------------------------
(***************************************************************************)
(* The LLM gateway (llm-gateway/index.ts): estimate, reserve, call the     *)
(* provider, finalize, record the usage event, and the failure paths.      *)
(* Each await of complete() and embedText() is a point where other calls   *)
(* run, so a call advances one database transaction or provider answer at  *)
(* a time.  A slot of Calls serves one call after another.  The faults are *)
(* a provider error, a provider timeout, a database statement that throws  *)
(* (rolled back) and a crash of the process, which drops every call in     *)
(* flight and keeps the database.                                          *)
(***************************************************************************)
EXTENDS CreditLedger

CONSTANTS Calls,         \* concurrent calls of the gateway
          EmbedKeys,     \* the keys embedText makes up, fresh for each call
          StepCap,       \* maxCostPerStepUsd, the per-step cost cap
          MaxDbErrors,   \* bound: database statements that throw
          MaxCrashes     \* bound: crashes of the process

ASSUME EmbedKeysAssumption == EmbedKeys \subseteq Keys
ASSUME StepCapAssumption == StepCap \in Nat
ASSUME FaultBoundsAssumption == MaxDbErrors \in Nat /\ MaxCrashes \in Nat

VARIABLES pc,        \* where a call is
          req,       \* its request: owner, idempotency key, worst-case estimate
          cost,      \* the cost it metered from the provider's answer
          usage,     \* agent_llm_usage_events by (owner, idempotency_key)
          dbErrors,  \* database errors so far
          crashes    \* crashes so far

callVars == <<pc, req, cost>>
faultVars == <<dbErrors, crashes>>
vars == <<status, balance, grants, spend, ledger, resv,
          pc, req, cost, usage, dbErrors, crashes>>

\* The states of complete() and embedText() before an await, in order; those of
\* handleExecuteFailure; and how a call ends.
Entry == {"replayGuard", "ensure", "reserve"}
InTry == {"execute", "finalize", "record", "reply"}
OnTimeout == {"finalizeTimeout", "recordTimeout"}
OnError == {"release", "recordError"}
InFlight == Entry \cup InTry \cup OnTimeout \cup OnError
Ended == {"replayed", "rejected", "failed", "ok", "timedOut", "refunded"}

NoEvent == [status |-> "none", debit |-> 0]
UsageEvent == [status : {"none", "ok", "timeout", "error"}, debit : Nat]

Request == [owner : Owners, key : Keys, est : HoldSizes]

Owner(c) == req[c].owner
Key(c) == req[c].key
IsEmbed(c) == Key(c) \in EmbedKeys

Init ==
  /\ LedgerInit
  /\ pc = [c \in Calls |-> "idle"]
  /\ \E r \in Request : req = [c \in Calls |-> r]
  /\ cost = [c \in Calls |-> 0]
  /\ usage = [o \in Owners |-> [k \in Keys |-> NoEvent]]
  /\ dbErrors = 0
  /\ crashes = 0

Goto(c, where) == pc' = [pc EXCEPT ![c] = where]

\* A caller hands complete() a key of its own, perhaps one that another call has
\* used or is using (a retry; two callers that derive the key from one
\* millisecond).  complete() first looks for a usage event of that key.
SubmitComplete(c, o, k, est) ==
  /\ pc[c] \in {"idle"} \cup Ended
  /\ k \notin EmbedKeys
  /\ req' = [req EXCEPT ![c] = [owner |-> o, key |-> k, est |-> est]]
  /\ Goto(c, "replayGuard")
  /\ UNCHANGED <<ledgerVars, cost, usage, faultVars>>

\* embedText makes up its key and holds at least one micro-USD.
SubmitEmbed(c, o, k, est) ==
  /\ pc[c] \in {"idle"} \cup Ended
  /\ k \in EmbedKeys
  /\ est > 0
  /\ \A p \in Owners : resv[p][k].status = "none"
  /\ \A d \in Calls : pc[d] \in InFlight => Key(d) # k
  /\ req' = [req EXCEPT ![c] = [owner |-> o, key |-> k, est |-> est]]
  /\ Goto(c, "ensure")
  /\ UNCHANGED <<ledgerVars, cost, usage, faultVars>>

\* The replay guard: a key with a usage event is answered from the event.
ReplayGuard(c) ==
  /\ pc[c] = "replayGuard"
  /\ Goto(c, IF usage[Owner(c)][Key(c)] # NoEvent THEN "replayed" ELSE "ensure")
  /\ UNCHANGED <<ledgerVars, req, cost, usage, faultVars>>

\* ensureAccount, then the price and cap checks, which change nothing: without an
\* active price row, or (complete only) over the step cap, the call is refused.
Ensure(c) ==
  /\ pc[c] = "ensure"
  /\ EnsureAccount(Owner(c))
  /\ \/ Goto(c, "rejected")
     \/ (IsEmbed(c) \/ req[c].est <= StepCap) /\ Goto(c, "reserve")
  /\ UNCHANGED <<req, cost, usage, faultVars>>

\* reserve(): the provider is called only on a hold, new or found under the key.
ReserveHold(c) ==
  /\ pc[c] = "reserve"
  /\ Reserve(Owner(c), Key(c), req[c].est)
  /\ Goto(c, "execute")
  /\ UNCHANGED <<req, cost, usage, faultVars>>

\* ACCOUNT_FROZEN or INSUFFICIENT_CREDIT.
ReserveRefused(c) ==
  /\ pc[c] = "reserve"
  /\ ~Reservable(Owner(c), Key(c), req[c].est)
  /\ Goto(c, "rejected")
  /\ UNCHANGED <<ledgerVars, req, cost, usage, faultVars>>

\* The provider answers with the tokens it used.  The estimate counts neither
\* tool schemas nor reasoning tokens: the cost may exceed the hold.
ProviderAnswers(c, amount) ==
  /\ pc[c] = "execute"
  /\ cost' = [cost EXCEPT ![c] = amount]
  /\ Goto(c, "finalize")
  /\ UNCHANGED <<ledgerVars, req, usage, faultVars>>

\* ProviderTimeoutError: complete() bills an estimate with half the output
\* budget, never more than its worst case; embedText treats it as any error.
ProviderTimesOut(c, amount) ==
  /\ pc[c] = "execute"
  /\ ~IsEmbed(c)
  /\ amount <= req[c].est
  /\ cost' = [cost EXCEPT ![c] = amount]
  /\ Goto(c, "finalizeTimeout")
  /\ UNCHANGED <<ledgerVars, req, usage, faultVars>>

\* Mutation: the error goes to the caller past the catch.
ProviderFailsUncaught(c) ==
  /\ pc[c] = "execute"
  /\ Goto(c, "failed")
  /\ UNCHANGED <<ledgerVars, req, cost, usage, faultVars>>

\* Any other error of the provider goes to the catch.
ProviderFails(c) ==
  /\ pc[c] = "execute"
  /\ Goto(c, "release")
  /\ UNCHANGED <<ledgerVars, req, cost, usage, faultVars>>

FinalizeHold(c) ==
  /\ \/ pc[c] = "finalize" /\ Goto(c, "record")
     \/ pc[c] = "finalizeTimeout" /\ Goto(c, "recordTimeout")
  /\ Finalize(Owner(c), Key(c), cost[c])
  /\ UNCHANGED <<req, cost, usage, faultVars>>

\* recordUsage: INSERT ... ON CONFLICT (owner_id, idempotency_key) DO NOTHING.
RecordUsage(o, k, how, debit) ==
  usage' = [usage EXCEPT ![o][k] =
              IF @ = NoEvent THEN [status |-> how, debit |-> debit] ELSE @]

\* Mutation: the part of the cost above the hold is taken from the balance.
RecordAnswerTopsUp(c) ==
  /\ pc[c] = "record"
  /\ RecordUsage(Owner(c), Key(c), "ok", cost[c])
  /\ Goto(c, IF IsEmbed(c) THEN "ok" ELSE "reply")
  /\ balance' = [balance EXCEPT ![Owner(c)] =
                   @ - (cost[c] - resv[Owner(c)][Key(c)].charged)]
  /\ UNCHANGED <<status, grants, spend, ledger, resv, req, cost, faultVars>>

\* The event's debit is the metered cost, not what finalize charged.
RecordAnswer(c) ==
  /\ pc[c] = "record"
  /\ RecordUsage(Owner(c), Key(c), "ok", cost[c])
  /\ Goto(c, IF IsEmbed(c) THEN "ok" ELSE "reply")
  /\ UNCHANGED <<ledgerVars, req, cost, faultVars>>

RecordTimeout(c) ==
  /\ pc[c] = "recordTimeout"
  /\ RecordUsage(Owner(c), Key(c), "timeout", cost[c])
  /\ Goto(c, "timedOut")
  /\ UNCHANGED <<ledgerVars, req, cost, faultVars>>

\* The balance is read for the reply inside the try block.
Reply(c) ==
  /\ pc[c] = "reply"
  /\ Goto(c, "ok")
  /\ UNCHANGED <<ledgerVars, req, cost, usage, faultVars>>

\* Mutation: the failure handler records the error and does not release.
ReleaseHoldSkipped(c) ==
  /\ pc[c] = "release"
  /\ Goto(c, IF IsEmbed(c) THEN "refunded" ELSE "recordError")
  /\ UNCHANGED <<ledgerVars, req, cost, usage, faultVars>>

\* handleExecuteFailure releases and records a zero-cost event; embedText's
\* catch only releases.
ReleaseHold(c) ==
  /\ pc[c] = "release"
  /\ Release(Owner(c), Key(c))
  /\ Goto(c, IF IsEmbed(c) THEN "refunded" ELSE "recordError")
  /\ UNCHANGED <<req, cost, usage, faultVars>>

RecordError(c) ==
  /\ pc[c] = "recordError"
  /\ RecordUsage(Owner(c), Key(c), "error", 0)
  /\ Goto(c, "refunded")
  /\ UNCHANGED <<ledgerVars, req, cost, faultVars>>

\* A statement throws and its transaction rolls back.  Inside the try block the
\* catch treats it as a provider error; elsewhere it ends the call.
DbError(c) ==
  /\ dbErrors < MaxDbErrors
  /\ pc[c] \in InFlight \ {"execute"}
  /\ Goto(c, IF pc[c] \in InTry THEN "release" ELSE "failed")
  /\ dbErrors' = dbErrors + 1
  /\ UNCHANGED <<ledgerVars, req, cost, usage, crashes>>

\* The process dies: the calls in flight are gone, the database stays.
Crash ==
  /\ crashes < MaxCrashes
  /\ \E c \in Calls : pc[c] \in InFlight
  /\ pc' = [c \in Calls |-> IF pc[c] \in InFlight THEN "idle" ELSE pc[c]]
  /\ crashes' = crashes + 1
  /\ UNCHANGED <<ledgerVars, req, cost, usage, dbErrors>>

\* Activation of the Copilot and the admin's grants, from other routes.
Activate(o) ==
  /\ EnsureAccount(o)
  /\ UNCHANGED <<callVars, usage, faultVars>>

AdminGrant(o, g, amount) ==
  /\ RecordGrant(o, g, amount)
  /\ UNCHANGED <<callVars, usage, faultVars>>

OperatorSetsStatus(o, s) ==
  /\ SetStatus(o, s)
  /\ UNCHANGED <<callVars, usage, faultVars>>

Submit(c) ==
  \E o \in Owners, k \in Keys, est \in HoldSizes :
    SubmitComplete(c, o, k, est) \/ SubmitEmbed(c, o, k, est)

\* What the process does for a call on its own, once the caller submitted it.
Advance(c) ==
  \/ ReplayGuard(c) \/ Ensure(c)
  \/ ReserveHold(c) \/ ReserveRefused(c)
  \/ ProviderFails(c)
  \/ \E amount \in Costs : ProviderAnswers(c, amount) \/ ProviderTimesOut(c, amount)
  \/ FinalizeHold(c) \/ RecordAnswer(c) \/ RecordTimeout(c) \/ Reply(c)
  \/ ReleaseHold(c) \/ RecordError(c)

Next ==
  \/ \E c \in Calls : Submit(c) \/ Advance(c) \/ DbError(c)
  \/ Crash
  \/ \E o \in Owners :
       \/ Activate(o)
       \/ \E g \in GrantKeys, amount \in GrantSizes : AdminGrant(o, g, amount)
       \/ \E s \in {"active", "frozen"} : OperatorSetsStatus(o, s)

Spec == Init /\ [][Next]_vars

\* Callers owe nothing.  A submitted call goes on: the event loop runs its
\* continuation, and the provider's fetch ends in an answer, an error or the
\* HTTP client's timeout.
Fairness == \A c \in Calls : WF_vars(Advance(c))

FairSpec == Spec /\ Fairness

-----------------------------------------------------------------------------
(* Properties *)

\* Every variable of the gateway has its type.
GatewayTypeOK ==
  /\ LedgerTypeOK
  /\ pc \in [Calls -> {"idle"} \cup InFlight \cup Ended]
  /\ req \in [Calls -> Request]
  /\ cost \in [Calls -> Nat]
  /\ usage \in [Owners -> [Keys -> UsageEvent]]
  /\ dbErrors \in 0 .. MaxDbErrors
  /\ crashes \in 0 .. MaxCrashes

\* The replay guard refuses a key for ever once it has a usage event, so an
\* event must never be written while the key's hold is outstanding: no retry
\* could settle it any more.  All the paths that write an event, in any
\* interleaving with calls of the same key, settle the hold first.
UsageMeansSettled ==
  \A o \in Owners, k \in Keys :
    usage[o][k] # NoEvent => resv[o][k].status \in Settled

\* A call that came back to its caller with an answer, with a timeout or with
\* the hold refunded has left no money on hold under its key.
ReturnedMeansSettled ==
  \A c \in Calls :
    pc[c] \in {"ok", "timedOut", "refunded"} =>
      resv[Owner(c)][Key(c)].status \in Settled

\* Whoever is told how a call ended, its caller or the usage table, is told after
\* the money was settled.
SettledBeforeTold == UsageMeansSettled /\ ReturnedMeansSettled

\* The gateway never moves credit but through the store's transactions.
ImplementsCreditLedger == LedgerSpec
=============================================================================
