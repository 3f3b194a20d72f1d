--------------------------- MODULE MCRunScheduler ---------------------------
(* Small instances of RunScheduler. *)
EXTENDS RunScheduler, TLC

MCBackoff == [c \in 1..MaxObservations |-> c]

Assertion(status, reason) == [mandatory |-> TRUE, status |-> status, reason |-> reason]
Look(results, gaps) == [results |-> results, gaps |-> gaps]

Supported    == Look({Assertion("SUPPORTED", "MATCHED")}, {})
Mismatch     == Look({Assertion("CONTRADICTED", "VALUE_MISMATCH"),
                      Assertion("SUPPORTED", "MATCHED")}, {})
NotThere     == Look({Assertion("UNKNOWN", "RECORD_NOT_FOUND")}, {"NOT_FOUND"})
Outage       == Look({Assertion("UNKNOWN", "EVIDENCE_UNAVAILABLE")}, {"PROVIDER_UNAVAILABLE"})
Unauthorised == Look({Assertion("UNKNOWN", "CONNECTION_UNAVAILABLE")}, {"PERMISSION_MISSING"})
NoMandatory  == Look({[mandatory |-> FALSE, status |-> "SUPPORTED", reason |-> "MATCHED"]}, {})

AllLooks == {Supported, Mismatch, NotThere, Outage, Unauthorised, NoMandatory}
FewLooks == {Supported, Outage}
OneLook  == {Supported}

Symmetry == Permutations(Workers)
=============================================================================
