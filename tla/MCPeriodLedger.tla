---------------------------- MODULE MCPeriodLedger ----------------------------
(* Small instances of PeriodLedger, on a calendar of short months. *)
EXTENDS PeriodLedger

\* Months of 3, 2, 3 and 3 days.
ShortMonths == <<0, 3, 5, 8, 11>>
=============================================================================
