------------------------------ MODULE GapScan ------------------------------
(***************************************************************************)
(* What is missing of a series of candles: scanCoverage of lib/            *)
(* gapScanner.ts, which walks the expected bars, and the counts that the   *)
(* ingestor writes after a backfill.  A time is the number of its bar; a   *)
(* bar has one row, by its unique key.                                     *)
(***************************************************************************)
EXTENDS Integers, SequencesExt, FiniteSetsExt

NoBar == 0

Expected(from, to) == Max({0, to - from + 1})
Seen(stored, from, to) == stored \cap (from..to)

\* One turn of the walk: a range is open from `start` while bars are missing.
WalkBar(seen, walk, bar) ==
  IF bar \notin seen THEN
    [walk EXCEPT !.start = IF @ = NoBar THEN bar ELSE @, !.prev = bar]
  ELSE IF walk.start # NoBar THEN
    [ranges |-> Append(walk.ranges, <<walk.start, walk.prev>>), start |-> NoBar, prev |-> NoBar]
  ELSE walk

Walk(seen, from, to) ==
  FoldLeft(LAMBDA walk, bar : WalkBar(seen, walk, bar),
           [ranges |-> <<>>, start |-> NoBar, prev |-> NoBar],
           [i \in 1..Expected(from, to) |-> from + i - 1])

\* Mutation: a range that is still open at the end is not reported.
ClosedRanges(walk) == walk.ranges

\* The ranges with the one that is open at the end.
Ranges(walk) == IF walk.start # NoBar THEN Append(walk.ranges, <<walk.start, walk.prev>>)
                ELSE walk.ranges

ScanCoverage(stored, from, to) ==
  LET seen == Seen(stored, from, to)
  IN [expectedBars |-> Expected(from, to),
      actualBars |-> Cardinality(seen),
      missingBars |-> Max({0, Expected(from, to) - Cardinality(seen)}),
      missingRanges |-> Ranges(Walk(seen, from, to))]

\* missing_bars of the row that _write_coverage upserts.
MissingBars(stored, from, to) ==
  Max({0, Expected(from, to) - Cardinality(Seen(stored, from, to))})

\* The ranges a scan reports are the gaps, in order, each as long as it can be, and the
\* counts of the API and of the ingestor are theirs (gapScanner.ts:55-85, bybit.py:332-340).
ExactScan(stored, from, to) ==
  LET scan == ScanCoverage(stored, from, to)
      ranges == scan.missingRanges
  IN /\ UNION {ranges[i][1]..ranges[i][2] : i \in DOMAIN ranges} = (from..to) \ stored
     /\ \A i \in DOMAIN ranges : ranges[i][1] <= ranges[i][2]
     /\ \A i \in 2..Len(ranges) : ranges[i - 1][2] + 1 < ranges[i][1]
     /\ scan.missingBars = Cardinality((from..to) \ stored)
     /\ MissingBars(stored, from, to) = scan.missingBars
=============================================================================
