-------------------------- MODULE MCCreditGateway --------------------------
(* CreditGateway on a small instance, in two parts that a behaviour chooses  *)
(* between.  "calls": two calls that share a client's key or embed beside    *)
(* each other, and at most one disturbance of them: a database error, a      *)
(* crash, a grant, or an account that is frozen for a while.  "store": the   *)
(* transactions of the store alone, in any order, for any caller.            *)
EXTENDS CreditGateway, FiniteSets

VARIABLE part

Granted == {<<o, g>> \in Owners \X GrantKeys : Recorded(o, "grant", g)}

Disturbances ==
  dbErrors + crashes + Cardinality({o \in Owners : status[o] = "frozen"})
  + Cardinality(Granted)

OneRequest == \A r \in Request : req = [c \in Calls |-> r] => r = CHOOSE q \in Request : TRUE

\* The calls are interchangeable: one of them comes first.
First == CHOOSE c \in Calls : TRUE
InTurn == pc[First] = "idle" => \A c \in Calls : pc[c] = "idle"

\* A grant commutes with what a call does on its own: it comes while the first
\* call waits for its provider.
GrantsWhileWaiting == Granted' # Granted => pc[First] = "execute"

\* The second call serves one request, beside any number that the first serves in turn.
SecondServesOnce == \A c \in Calls \ {First} : pc[c] \in Ended => pc'[c] = pc[c]

\* A disturbance comes among holds of one size.
OneSizeIfDisturbed ==
  Disturbances > 0 =>
    \A c \in Calls : pc[c] # "idle" => \A size \in HoldSizes : req[c].est <= size

CallsNext == /\ part = "calls" /\ Next
             /\ (Disturbances <= 1 /\ InTurn /\ OneSizeIfDisturbed)'
             /\ SecondServesOnce /\ GrantsWhileWaiting
StoreNext == part = "store" /\ LedgerNext /\ UNCHANGED <<callVars, usage, faultVars>>

MCInit == Init /\ OneRequest /\ part \in {"calls", "store"}

MCSpec ==
  /\ MCInit
  /\ [][(CallsNext \/ StoreNext) /\ UNCHANGED part]_<<vars, part>> /\ Fairness

\* Every hold is settled in the end, but for the one a fault may leave: a
\* balance never stays short of money nobody spent.  (expires_at is written
\* and nothing reads it; only a call of the same key settles what is left.)
HoldsSettle ==
  \A o \in Owners, k \in Keys :
    part = "calls" /\ resv[o][k].status = "reserved" ~>
      resv[o][k].status \in Settled \/ dbErrors + crashes > 0
=============================================================================
