------------------------- MODULE MCMaintenanceJobs -------------------------
(* Two runners, two jobs; the second is asked for a moment after the first. *)
EXTENDS MaintenanceJobs, TLC

CONSTANTS d1, d2

MCInstant == [s \in Submissions |-> s]
=============================================================================
