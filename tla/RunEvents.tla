------------------------------ MODULE RunEvents ------------------------------
(***************************************************************************)
(* How the events of a run travel: the in-process bus of chat/bus.ts       *)
(* (numbering, replay buffer, expiry), the durable copy in                 *)
(* agent_run_events, the run's row, and the SSE stream of server.ts that a *)
(* page follows.  JavaScript runs between two awaits without interruption, *)
(* so what is published in one go reaches buffer and streams in one step;  *)
(* the inserts of the durable copy are fired and not awaited.              *)
(***************************************************************************)
EXTENDS Naturals, FiniteSets, SequencesExt

CONSTANTS Runs,
          MaxInFlight   \* bound: inserts of one run's events that are under way at once

VARIABLES status,     \* agent_runs.status, "none" before the run is created
          seqs,       \* the bus: the last number given, 0 when the entry is gone
          buffer,     \* the bus: the events a new subscriber is sent
          timers,     \* the bus: deletions of buffer and number that are due
          saving,     \* inserts under way
          rows,       \* agent_run_events
          published,  \* everything published, in order (history)
          stream,     \* where the stream stands that a page opened for the run
          heard,      \* the places in published of what the page was sent (history)
          lost        \* an insert was lost to a database error or a crash (history)

busVars  == <<seqs, buffer, timers, saving, published>>
eventVars == <<status, busVars, rows, stream, heard, lost>>

Terminal == {"run.done", "run.error"}
Opening == {"asked", "sawRunning", "sawEnd"}

EventsInit ==
    /\ status = [r \in Runs |-> "none"]
    /\ seqs = [r \in Runs |-> 0] /\ timers = [r \in Runs |-> 0]
    /\ buffer = [r \in Runs |-> <<>>] /\ published = [r \in Runs |-> <<>>]
    /\ saving = [r \in Runs |-> {}] /\ rows = [r \in Runs |-> {}]
    /\ stream = [r \in Runs |-> "off"]
    /\ heard = [r \in Runs |-> <<>>]
    /\ lost = FALSE

(* The stream callback: events up to the first terminal one, which ends it. *)
Ends(events) == {i \in DOMAIN events : events[i].type \in Terminal}
UpToEnd(events) ==
    IF Ends(events) = {} THEN events ELSE SubSeq(events, 1, Min(Ends(events)))

(* What the stream of r becomes when these events are written to it. *)
After(events) == IF Ends(events) = {} THEN "open" ELSE "told"

Places(events) == [i \in DOMAIN events |-> events[i].n]

(* publish, of the events of one synchronous stretch of code. *)
Publish(r, types) ==
    LET events == [i \in DOMAIN types |-> [type |-> types[i], seq |-> seqs[r] + i,
                                           n |-> Len(published[r]) + i]]
    IN /\ Cardinality(saving[r]) < MaxInFlight
       /\ seqs' = [seqs EXCEPT ![r] = @ + Len(types)]
       /\ buffer' = [buffer EXCEPT ![r] = @ \o events]
       /\ published' = [published EXCEPT ![r] = @ \o types]
       /\ saving' = [saving EXCEPT ![r] = @ \union ToSet(events)]
       /\ timers' = [timers EXCEPT ![r] =
                       @ + Cardinality({i \in DOMAIN types : types[i] \in Terminal})]
       /\ IF stream[r] = "open"
          THEN /\ stream' = [stream EXCEPT ![r] = After(events)]
               /\ heard' = [heard EXCEPT ![r] = @ \o Places(UpToEnd(events))]
          ELSE UNCHANGED <<stream, heard>>
       /\ UNCHANGED <<rows, lost>>

(* The row an insert writes: ON CONFLICT (run_id, seq) DO NOTHING. *)
Inserted(have, e) ==
    IF \E row \in have : row.seq = e.seq THEN have ELSE have \union {e}

(* persistEvent: the inserts of a pool of connections end in any order; an error *)
(* is swallowed.                                                                 *)
Persist(r) ==
    \E e \in saving[r] :
        /\ saving' = [saving EXCEPT ![r] = @ \ {e}]
        /\ rows' = [rows EXCEPT ![r] = Inserted(@, e)]
        /\ UNCHANGED <<status, seqs, buffer, timers, published, stream, heard, lost>>

PersistFails(r) ==
    \E e \in saving[r] :
        /\ saving' = [saving EXCEPT ![r] = @ \ {e}]
        /\ lost' = TRUE
        /\ UNCHANGED <<status, seqs, buffer, timers, rows, published, stream, heard>>

(* Five minutes after a terminal event, whatever the run does by then; a request *)
(* that opens the stream takes less.                                             *)
Expire(r) ==
    /\ timers[r] > 0
    /\ stream[r] \notin Opening
    /\ timers' = [timers EXCEPT ![r] = @ - 1]
    /\ seqs' = [seqs EXCEPT ![r] = 0]
    /\ buffer' = [buffer EXCEPT ![r] = <<>>]
    /\ UNCHANGED <<status, saving, rows, published, stream, heard, lost>>

-----------------------------------------------------------------------------
(* GET /stream: the run's row is read, then (after the await) a finished run *)
(* without a buffer is answered with an event made from the row, any other   *)
(* is replayed and followed.                                                 *)

StreamReadsRow(r) ==
    /\ stream[r] = "asked"
    /\ stream' = [stream EXCEPT ![r] = IF status[r] = "running" THEN "sawRunning" ELSE "sawEnd"]
    /\ UNCHANGED <<status, busVars, rows, heard, lost>>

StreamSynthesizes(r) ==
    /\ stream[r] = "sawEnd" /\ buffer[r] = <<>>
    /\ stream' = [stream EXCEPT ![r] = "told"]
    /\ UNCHANGED <<status, busVars, rows, heard, lost>>

\* Mutation: a subscriber is not sent what was published before it came.
StreamJoins(r) ==
    /\ stream[r] \in {"sawRunning", "sawEnd"}
    /\ stream[r] = "sawEnd" => buffer[r] # <<>>
    /\ stream' = [stream EXCEPT ![r] = "open"]
    /\ UNCHANGED <<status, busVars, rows, heard, lost>>

StreamFollows(r) ==
    /\ stream[r] \in {"sawRunning", "sawEnd"}
    /\ stream[r] = "sawEnd" => buffer[r] # <<>>
    /\ stream' = [stream EXCEPT ![r] = After(buffer[r])]
    /\ heard' = [heard EXCEPT ![r] = @ \o Places(UpToEnd(buffer[r]))]
    /\ UNCHANGED <<status, busVars, rows, lost>>

(* The inserts under way, by run, and the rows there are when some of them were made. *)
InFlight == UNION {{r} \X saving[r] : r \in Runs}
Made(r, inserts) ==
    rows[r] \union {e \in saving[r] : <<r, e>> \in inserts
                                     /\ \A row \in rows[r] : row.seq # e.seq}

(* The agent's process dies: the bus is gone, streams are cut, and each insert *)
(* under way is made or not.                                                   *)
BusDies ==
    /\ seqs' = [r \in Runs |-> 0] /\ timers' = [r \in Runs |-> 0]
    /\ buffer' = [r \in Runs |-> <<>>] /\ saving' = [r \in Runs |-> {}]
    /\ \E inserts \in SUBSET InFlight :
         /\ \A a, b \in inserts : a[1] = b[1] /\ a[2].seq = b[2].seq => a = b
         /\ rows' = [r \in Runs |-> Made(r, inserts)]
         /\ lost' = (lost \/ inserts # InFlight)
    /\ stream' = [r \in Runs |-> IF stream[r] \in {"off", "told"} THEN stream[r] ELSE "cut"]
    /\ UNCHANGED <<status, published, heard>>
=============================================================================
