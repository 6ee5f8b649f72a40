---------------------------- MODULE HistoryRange ----------------------------
(***************************************************************************)
(* history with --start-date and --end-date (ibkr/history_range.go): the   *)
(* range is cut into windows, from its end backwards, each window is one   *)
(* request, and the rows are merged by timestamp.  Time is counted in a    *)
(* unit that divides the hour-based steps of the code.                     *)
(*                                                                         *)
(* IBKR is external.  A request for the period p ending at e returns the   *)
(* bars it has with e - p <= t < e, possibly also the bars just outside,   *)
(* and never more rows than its limit.                                     *)
(***************************************************************************)
EXTENDS Integers, FiniteSets

CONSTANTS
  Midnight,    \* Midnight[d]: start of local day d; days may differ in length
  Day,         \* 24 hours
  ShortStep,   \* window of 1min bars (8 hours)
  MaxDays,     \* longest period of daily and longer bars (365)
  MinDays,     \* shortest period of such bars (7)
  MinDaysMonthly,  \* and of monthly bars (31)
  RowLimit,    \* rows at which a response may be truncated (1000)
  Scales,      \* values of the scale metadata
  NoScale      \* a response without that metadata

ASSUME MidnightAssumption ==
  /\ Midnight \in [DOMAIN Midnight -> Nat]
  /\ \E d \in DOMAIN Midnight : DOMAIN Midnight = 0 .. d /\ d \in Nat
  /\ \A d, e \in DOMAIN Midnight : d < e => Midnight[d] < Midnight[e]
ASSUME StepAssumption ==
  /\ Day \in Nat \ {0} /\ ShortStep \in 1 .. Day
  /\ MinDays \in 1 .. MaxDays /\ MinDaysMonthly \in MinDays .. MaxDays
  /\ MaxDays \in Nat \ {0}
ASSUME RowsAssumption == RowLimit \in Nat \ {0} /\ NoScale \notin Scales

VARIABLES
  bar,        \* --bar, as far as the windows tell its values apart
  start, end, \* bounds of the range, the end excluded
  market,     \* timestamps of the bars IBKR has
  cursor,     \* end of the next window
  rows,       \* merged rows: timestamp to the scale of its response
  scale,      \* merged scale metadata
  exit        \* "running", "ok" or "failed"

vars == <<bar, start, end, market, cursor, rows, scale, exit>>

Bars == {"1min", "intraday", "1d", "1m"}
Days == DOMAIN Midnight
Times == 0 .. Midnight[CHOOSE d \in Days : \A e \in Days : e <= d]
NoRows == [t \in {} |-> NoScale]

-----------------------------------------------------------------------------
(* The plan.                                                               *)

\* Bounds: the end date counts whole when it is inclusive.
EndDay(last, inclusive) == IF inclusive THEN last + 1 ELSE last

Step(b) ==
  IF b = "1min" THEN ShortStep ELSE IF b = "intraday" THEN Day ELSE MaxDays * Day

\* The bug of rounding the days down.
PeriodDaysShort(b, span) ==
  LET least == IF b = "1m" THEN MinDaysMonthly ELSE MinDays
      days == span \div Day
  IN  IF days < least THEN least ELSE IF days > MaxDays THEN MaxDays ELSE days

\* Days asked for when span is left, part of a day counting as one.
PeriodDays(b, span) ==
  LET least == IF b = "1m" THEN MinDaysMonthly ELSE MinDays
      days == span \div Day + 1
  IN  IF days < least THEN least ELSE IF days > MaxDays THEN MaxDays ELSE days

Period(b, span) ==
  IF b \in {"1min", "intraday"} THEN Step(b) ELSE PeriodDays(b, span) * Day

Init ==
  /\ bar \in Bars
  /\ \E first, last \in Days, inclusive \in BOOLEAN :
       /\ EndDay(last, inclusive) \in Days
       /\ start = Midnight[first]
       /\ end = Midnight[EndDay(last, inclusive)]
       /\ start < end
  /\ market \in SUBSET Times
  /\ cursor = end
  /\ rows = NoRows
  /\ scale = NoScale
  /\ exit = "running"

-----------------------------------------------------------------------------
(* IBKR's side of a request.                                               *)

Within(e, p) == {t \in market : e - p <= t /\ t < e}
JustOutside(e, p) == market \cap {e - p - 1, e}

\* The response as IBKR would have it, cut at the limit when it is too long.
Responses(e, p) ==
  LET whole == {Within(e, p) \cup more : more \in SUBSET JustOutside(e, p)}
  IN  {r \in SUBSET market :
         \E w \in whole :
           r = w \/ (r \subseteq w /\ Cardinality(w) > RowLimit
                                   /\ Cardinality(r) = RowLimit)}

-----------------------------------------------------------------------------
(* The requests, one after the other.                                      *)

Running == exit = "running" /\ cursor > start

TooLong(r) == Cardinality(r) >= RowLimit

\* The bug of keeping the last scale instead of comparing.
ScaleAlwaysAgrees(s) == TRUE

\* The metadata may be absent, but may not change.
ScaleAgrees(s) == s = NoScale \/ scale \in {NoScale, s}

InRange(t) == start <= t /\ t < end

\* A row for a timestamp that has one is dropped: the first response wins.
Merged(r, s) ==
  [t \in DOMAIN rows \cup {u \in r : InRange(u)} |->
     IF t \in DOMAIN rows THEN rows[t] ELSE s]

\* The bug of paging forward from the end.
NextCursorForward == cursor + Step(bar)

NextCursor == cursor - Step(bar)

Fetch ==
  /\ Running
  /\ \E r \in Responses(cursor, Period(bar, cursor - start)),
        s \in Scales \cup {NoScale} :
       /\ ~TooLong(r)
       /\ ScaleAgrees(s)
       /\ rows' = Merged(r, s)
       /\ scale' = IF s = NoScale THEN scale ELSE s
  /\ cursor' = NextCursor
  /\ UNCHANGED <<bar, start, end, market, exit>>

\* A response that is too long or of another scale ends the command, as does
\* a request that fails or a response that cannot be read.
FetchFailed ==
  /\ Running
  /\ exit' = "failed"
  /\ UNCHANGED <<bar, start, end, market, cursor, rows, scale>>

Finish ==
  /\ exit = "running"
  /\ ~(cursor > start)
  /\ exit' = "ok"
  /\ UNCHANGED <<bar, start, end, market, cursor, rows, scale>>

Next == Fetch \/ FetchFailed \/ Finish

Spec == Init /\ [][Next]_vars

-----------------------------------------------------------------------------
(* Properties.                                                             *)

\* Type invariant.
TypeOK ==
  /\ bar \in Bars
  /\ start \in Times /\ end \in Times /\ start < end
  /\ market \subseteq Times
  /\ cursor \in Int /\ cursor <= end
  /\ DOMAIN rows \subseteq Times
  /\ \A t \in DOMAIN rows : rows[t] \in Scales \cup {NoScale}
  /\ scale \in Scales \cup {NoScale}
  /\ exit \in {"running", "ok", "failed"}

\* README.md:130-134: a range that succeeds has exactly the bars IBKR has from
\* its start to its end, the end excluded: no window leaves a gap (also where a
\* day is longer or shorter than 24 hours), nothing outside gets in and a
\* truncated response is never taken for a whole one.
RangeIsComplete ==
  exit = "ok" => DOMAIN rows = {t \in market : start <= t /\ t < end}

\* All rows of a result were scaled alike, so that its one set of metadata
\* holds for every row that came with metadata (history_range.go:121).
OneScale == \A t \in DOMAIN rows : rows[t] \in {NoScale, scale}

=============================================================================
