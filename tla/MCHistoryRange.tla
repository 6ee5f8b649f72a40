--------------------------- MODULE MCHistoryRange ---------------------------
(* A small instance of HistoryRange for TLC.                               *)
EXTENDS HistoryRange

\* Four local midnights: a day of 2 units, one of 3 (clocks go back) and one
\* of 1 (clocks go forward), where 24 hours are 2 units.
MCMidnight == [d \in 0 .. 3 |-> CASE d = 0 -> 1 [] d = 1 -> 3 [] d = 2 -> 6 [] d = 3 -> 7]
=============================================================================
