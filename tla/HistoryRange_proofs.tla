------------------------- MODULE HistoryRange_proofs -------------------------
(***************************************************************************)
(* Proofs about HistoryRange, for every calendar of local midnights, every *)
(* length of the windows, every row limit and every market.                *)
(***************************************************************************)
EXTENDS HistoryRange, TLAPS

-----------------------------------------------------------------------------
(* Arithmetic of the windows.                                              *)

\* Days, one more than fit, exceed the span.
LEMMA DaysExceedSpan ==
  ASSUME NEW span \in Nat, NEW day \in Nat \ {0}
  PROVE  /\ span \div day + 1 \in Nat
         /\ span < (span \div day + 1) * day
OBVIOUS

LEMMA ProductsGrow ==
  ASSUME NEW m \in Int, NEW n \in Int, m <= n, NEW day \in Nat
  PROVE  m * day <= n * day
OBVIOUS

LEMMA StepsArePositive ==
  ASSUME NEW b
  PROVE  Step(b) \in Nat \ {0}
BY StepAssumption DEF Step

\* A period covers its window as far as the range goes: there is no gap between
\* two windows (history_range.go:57-85).
LEMMA PeriodCoversWindow ==
  ASSUME NEW b \in Bars, NEW span \in Nat, NEW t \in Int, t <= span, t <= Step(b)
  PROVE  Period(b, span) \in Int /\ t <= Period(b, span)
<1>1. CASE b \in {"1min", "intraday"}
  BY <1>1, StepsArePositive DEF Period
<1>2. CASE b \notin {"1min", "intraday"}
  <2> DEFINE days == span \div Day + 1
  <2> DEFINE asked == PeriodDays(b, span)
  <2>1. days \in Nat /\ span < days * Day
    BY DaysExceedSpan, StepAssumption
  <2>2. asked \in Int /\ (asked = MaxDays \/ days <= asked)
    <3> HIDE DEF days
    <3>1. asked = (IF days < (IF b = "1m" THEN MinDaysMonthly ELSE MinDays)
                     THEN IF b = "1m" THEN MinDaysMonthly ELSE MinDays
                     ELSE IF days > MaxDays THEN MaxDays ELSE days)
      BY DEF PeriodDays, days
    <3> HIDE DEF asked
    <3> QED
      BY <2>1, <3>1, StepAssumption
  <2>3. Period(b, span) = asked * Day /\ Step(b) = MaxDays * Day
    BY <1>2 DEF Period, Step
  <2>4. days * Day \in Int /\ asked * Day \in Int /\ MaxDays * Day \in Int
    BY <2>1, <2>2, StepAssumption
  <2> HIDE DEF days, asked
  <2>5. CASE asked = MaxDays
    BY <2>3, <2>4, <2>5
  <2>6. CASE days <= asked
    <3>1. days * Day <= asked * Day
      BY <2>1, <2>2, <2>6, ProductsGrow, StepAssumption
    <3> QED
      BY <2>1, <2>3, <2>4, <3>1
  <2> QED
    BY <2>2, <2>5, <2>6
<1> QED
  BY <1>1, <1>2

LEMMA MidnightsAreTimes ==
  ASSUME NEW d \in Days
  PROVE  Midnight[d] \in Times
<1>1. PICK n \in Days : Days = 0 .. n /\ n \in Nat
  BY MidnightAssumption DEF Days
<1>2. (CHOOSE m \in Days : \A e \in Days : e <= m) = n
  BY <1>1
<1>3. Midnight[d] <= Midnight[n]
  BY <1>1, MidnightAssumption DEF Days
<1> QED
  BY <1>1, <1>2, <1>3, MidnightAssumption DEF Times, Days

LEMMA TimesAreNumbers == Times \subseteq Nat
<1>1. Days = DOMAIN Midnight
  BY DEF Days
<1> QED
  BY DEF Times

LEMMA InitTyped == Init => TypeOK
<1> SUFFICES ASSUME Init PROVE TypeOK
  OBVIOUS
<1>1. PICK first, last \in Days, inclusive \in BOOLEAN :
        /\ EndDay(last, inclusive) \in Days
        /\ start = Midnight[first]
        /\ end = Midnight[EndDay(last, inclusive)]
        /\ start < end
  BY DEF Init
<1>2. start \in Times /\ end \in Times /\ start < end
  BY <1>1, MidnightsAreTimes
<1>3. cursor \in Int /\ cursor <= end
  BY <1>2, TimesAreNumbers DEF Init
<1>4. DOMAIN rows = {}
  BY DEF Init, NoRows
<1>5. market \subseteq Times
  BY DEF Init
<1> QED
  BY <1>2, <1>3, <1>4, <1>5 DEF Init, TypeOK

-----------------------------------------------------------------------------
\* Types of the range, the windows and the merged rows.
THEOREM Typing == Spec => []TypeOK
<1>1. Init => TypeOK
  BY InitTyped
<1>2. TypeOK /\ [Next]_vars => TypeOK'
  <2> SUFFICES ASSUME TypeOK, [Next]_vars
               PROVE  TypeOK'
    OBVIOUS
  <2>1. CASE Fetch
    <3>1. PICK r \in Responses(cursor, Period(bar, cursor - start)), s \in Scales \cup {NoScale} :
            /\ rows' = Merged(r, s)
            /\ scale' = IF s = NoScale THEN scale ELSE s
      BY <2>1 DEF Fetch
    <3>2. r \subseteq Times
      BY <3>1 DEF Responses, TypeOK
    <3>3. /\ DOMAIN rows' \subseteq Times
          /\ \A t \in DOMAIN rows' : rows'[t] \in Scales \cup {NoScale}
      BY <3>1, <3>2 DEF Merged, TypeOK
    <3>4. cursor' \in Int /\ cursor' <= end
      BY <2>1, StepsArePositive, TimesAreNumbers DEF Fetch, NextCursor, TypeOK
    <3> QED
      BY <2>1, <3>1, <3>3, <3>4 DEF Fetch, TypeOK
  <2>2. CASE FetchFailed \/ Finish \/ UNCHANGED vars
    BY <2>2 DEF FetchFailed, Finish, vars, TypeOK
  <2> QED
    BY <2>1, <2>2 DEF Next
<1> QED
  BY <1>1, <1>2, PTL DEF Spec

-----------------------------------------------------------------------------
\* The scale metadata of a result holds for each of its rows: the comparison of
\* history_range.go:121 keeps responses of another scale out.
THEOREM RowsHaveOneScale == Spec => []OneScale
<1>1. Init => OneScale
  BY DEF Init, OneScale, NoRows
<1>2. OneScale /\ [Next]_vars => OneScale'
  <2> SUFFICES ASSUME OneScale, [Next]_vars
               PROVE  OneScale'
    OBVIOUS
  <2>1. CASE Fetch
    <3>1. PICK r, s :
            /\ ScaleAgrees(s)
            /\ rows' = Merged(r, s)
            /\ scale' = IF s = NoScale THEN scale ELSE s
      BY <2>1 DEF Fetch
    <3>2. scale' \in {scale, s} /\ (scale # NoScale => scale' = scale) /\ (s # NoScale => scale' = s)
      BY <3>1 DEF ScaleAgrees
    <3> QED
      BY <3>1, <3>2 DEF OneScale, Merged
  <2>2. CASE FetchFailed \/ Finish \/ UNCHANGED vars
    BY <2>2 DEF FetchFailed, Finish, vars, OneScale
  <2> QED
    BY <2>1, <2>2 DEF Next
<1> QED
  BY <1>1, <1>2, PTL DEF Spec

-----------------------------------------------------------------------------
\* What has been fetched so far: all of the range from the cursor on.
FetchedSoFar ==
  /\ DOMAIN rows \subseteq {t \in market : InRange(t)}
  /\ \A t \in market : InRange(t) /\ cursor <= t => t \in DOMAIN rows
  /\ exit = "ok" => cursor <= start

\* A range that succeeds has exactly the bars IBKR has: the windows leave no
\* gap and take nothing from outside, whatever the lengths of the local days
\* (history_range.go:57-146).
THEOREM RangesAreComplete == Spec => []RangeIsComplete
<1>1. Init => FetchedSoFar
  <2> SUFFICES ASSUME Init PROVE FetchedSoFar
    OBVIOUS
  <2>1. TypeOK
    BY InitTyped
  <2> QED
    BY <2>1, TimesAreNumbers DEF Init, FetchedSoFar, NoRows, InRange, TypeOK
<1>2. TypeOK /\ FetchedSoFar /\ [Next]_vars => FetchedSoFar'
  <2> SUFFICES ASSUME TypeOK, FetchedSoFar, [Next]_vars
               PROVE  FetchedSoFar'
    OBVIOUS
  <2>0. start \in Nat /\ end \in Nat /\ cursor \in Int /\ market \subseteq Nat
    BY TimesAreNumbers DEF TypeOK
  <2>1. CASE Fetch
    <3> DEFINE span == cursor - start
    <3> DEFINE p == Period(bar, span)
    <3>1. PICK r \in Responses(cursor, p), s \in Scales \cup {NoScale} :
            ~TooLong(r) /\ rows' = Merged(r, s)
      BY <2>1 DEF Fetch
    <3>2. r \subseteq market /\ Within(cursor, p) \subseteq r
      <4>1. PICK w \in {Within(cursor, p) \cup more : more \in SUBSET JustOutside(cursor, p)} :
              r = w \/ (r \subseteq w /\ Cardinality(w) > RowLimit /\ Cardinality(r) = RowLimit)
        BY <3>1 DEF Responses
      <4>2. Cardinality(r) # RowLimit
        BY <3>1, RowsAssumption DEF TooLong
      <4> QED
        BY <3>1, <4>1, <4>2 DEF Responses
    <3>3. cursor > start /\ span \in Nat /\ bar \in Bars
      BY <2>0, <2>1 DEF Fetch, Running, TypeOK
    <3>4. ASSUME NEW t \in market, InRange(t), cursor - Step(bar) <= t, t < cursor
          PROVE  t \in r
      <4>1. cursor - t \in Int /\ cursor - t <= span /\ cursor - t <= Step(bar)
        BY <2>0, <3>4, StepsArePositive DEF InRange
      <4>2. p \in Int /\ cursor - t <= p
        BY <3>3, <4>1, PeriodCoversWindow
      <4>3. t \in Within(cursor, p)
        <5> HIDE DEF p
        <5> QED
          BY <2>0, <3>4, <4>2 DEF Within
      <4> QED
        BY <3>2, <4>3
    <3>5. DOMAIN rows' = DOMAIN rows \cup {u \in r : InRange(u)}
      BY <3>1 DEF Merged
    <3>6. UNCHANGED <<start, end, market, exit>> /\ cursor' = cursor - Step(bar) /\ exit = "running"
      BY <2>1 DEF Fetch, NextCursor, Running
    <3>7. ASSUME NEW t \in market, InRange(t), cursor - Step(bar) <= t
          PROVE  t \in DOMAIN rows'
      <4>1. CASE cursor <= t
        BY <3>5, <3>7, <4>1 DEF FetchedSoFar
      <4>2. CASE t < cursor
        BY <3>4, <3>5, <3>7, <4>2
      <4> QED
        BY <2>0, <4>1, <4>2
    <3>8. DOMAIN rows' \subseteq {t \in market : InRange(t)}
      BY <3>2, <3>5 DEF FetchedSoFar
    <3> QED
      BY <3>6, <3>7, <3>8 DEF FetchedSoFar, InRange
  <2>2. CASE FetchFailed \/ UNCHANGED vars
    BY <2>2 DEF FetchFailed, vars, FetchedSoFar, InRange
  <2>3. CASE Finish
    BY <2>0, <2>3 DEF Finish, FetchedSoFar, InRange
  <2> QED
    BY <2>1, <2>2, <2>3 DEF Next
<1>3. TypeOK /\ FetchedSoFar => RangeIsComplete
  <2> SUFFICES ASSUME TypeOK, FetchedSoFar, exit = "ok"
               PROVE  DOMAIN rows = {t \in market : start <= t /\ t < end}
    BY DEF RangeIsComplete
  <2>1. start \in Nat /\ cursor \in Int /\ cursor <= start /\ market \subseteq Nat
    BY TimesAreNumbers DEF TypeOK, FetchedSoFar
  <2>2. \A t \in market : start <= t /\ t < end => t \in DOMAIN rows
    BY <2>1 DEF FetchedSoFar, InRange
  <2> QED
    BY <2>2 DEF FetchedSoFar, InRange
<1> QED
  BY <1>1, <1>2, <1>3, Typing, PTL DEF Spec

=============================================================================
