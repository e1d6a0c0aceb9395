------------------------------ MODULE OrderBook ------------------------------
(***************************************************************************)
(* The recorder of depth snapshots, _on_orderbook of ingestor/realtime.py: *)
(* one symbol's book kept from the exchange's snapshot and its deltas, and *)
(* stored after each message.  The exchange is external: it numbers its    *)
(* states, sends a snapshot when a connection subscribes and a delta for   *)
(* each change after it, in order, and what is sent to a connection that   *)
(* breaks is lost.  A price's side is part of its name here.               *)
(***************************************************************************)
EXTENDS Integers, Sequences

CONSTANTS Prices,   \* prices of the bids and asks
          Sizes,    \* sizes of a level; 0 is no level
          MaxSeq,   \* bound: changes of the book at the exchange
          MaxWire,  \* bound: messages under way
          MaxBreaks \* bound: connections that break, inserts that throw

ASSUME BookAssumption == 0 \in Sizes /\ {MaxSeq, MaxWire, MaxBreaks} \subseteq Nat

VARIABLES venue,     \* the book at the exchange, at each sequence number so far
          wire,      \* messages to the collector
          connected, \* is it subscribed?
          book,      \* _books: prices that have a level, with their sizes
          lastSeq,   \* _l2_seq, or 0
          snapshot,  \* the row of l2_snapshots stored last
          breaks

bookVars == <<venue, wire, connected, book, lastSeq, snapshot, breaks>>

Books == [Prices -> Sizes]
Empty == [p \in Prices |-> 0]
LastChange == Len(venue)

BookInit ==
  /\ venue \in {<<b>> : b \in Books}
  /\ wire = <<>> /\ connected = FALSE
  /\ book = Empty /\ lastSeq = 0
  /\ snapshot = [seq |-> 0, levels |-> Empty]
  /\ breaks = 0

Message(type, seq, levels) == [type |-> type, seq |-> seq, levels |-> levels]

\* A snapshot has the levels there are, a delta the levels that changed.
LevelsOf(b) == [p \in {q \in Prices : b[q] # 0} |-> b[p]]
Diff(old, new) == [p \in {q \in Prices : old[q] # new[q]} |-> new[p]]

Subscribe ==
  /\ ~connected
  /\ connected' = TRUE
  /\ wire' = <<Message("snapshot", LastChange, LevelsOf(venue[LastChange]))>>
  /\ UNCHANGED <<venue, book, lastSeq, snapshot, breaks>>

\* The book changes at some prices.
Change ==
  /\ LastChange < MaxSeq
  /\ Len(wire) < MaxWire
  /\ \E b \in Books \ {venue[LastChange]} :
       /\ venue' = Append(venue, b)
       /\ wire' = IF connected
                  THEN Append(wire, Message("delta", LastChange + 1, Diff(venue[LastChange], b)))
                  ELSE wire
  /\ UNCHANGED <<connected, book, lastSeq, snapshot, breaks>>

\* Mutation: a snapshot is applied like a delta.
KeepLevels(message) == book

\* The book that a message's levels are applied to.
Base(message) == IF message.type = "snapshot" THEN Empty ELSE book

\* apply(): a size of zero removes the level.
Applied(message) == [p \in Prices |-> IF p \in DOMAIN message.levels THEN message.levels[p]
                                      ELSE Base(message)[p]]

\* A message that is not newer than the last one is dropped; any other is applied, and
\* the book is stored, or the insert throws and the connection is left.
OnOrderbook ==
  /\ wire # <<>>
  /\ LET message == Head(wire) IN
     IF message.seq <= lastSeq
     THEN /\ wire' = Tail(wire)
          /\ UNCHANGED <<connected, book, lastSeq, snapshot, breaks>>
     ELSE /\ book' = Applied(message)
          /\ lastSeq' = message.seq
          /\ \/ /\ snapshot' = [seq |-> message.seq, levels |-> Applied(message)]
                /\ wire' = Tail(wire)
                /\ UNCHANGED <<connected, breaks>>
             \/ /\ breaks < MaxBreaks /\ breaks' = breaks + 1
                /\ connected' = FALSE /\ wire' = <<>>
                /\ UNCHANGED snapshot
  /\ UNCHANGED venue

\* The connection breaks, or is left because the demand changed.
Break ==
  /\ connected
  /\ breaks < MaxBreaks /\ breaks' = breaks + 1
  /\ connected' = FALSE /\ wire' = <<>>
  /\ UNCHANGED <<venue, book, lastSeq, snapshot>>

\* The ingestor starts again with nothing in memory.
Restart ==
  /\ breaks < MaxBreaks /\ breaks' = breaks + 1
  /\ connected' = FALSE /\ wire' = <<>>
  /\ book' = Empty /\ lastSeq' = 0
  /\ UNCHANGED <<venue, snapshot>>

BookNext == Subscribe \/ Change \/ OnOrderbook \/ Break \/ Restart

BookSpec == BookInit /\ [][BookNext]_bookVars

\* Every stored snapshot is the book the exchange had at that number, whatever
\* connections, inserts and the process did between its messages (realtime.py:252-299).
RecordedBookIsTheVenues == snapshot.seq # 0 => snapshot.levels = venue[snapshot.seq]
=============================================================================
