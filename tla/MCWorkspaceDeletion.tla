------------------------ MODULE MCWorkspaceDeletion ------------------------
(***************************************************************************)
(* Small instances of WorkspaceDeletion: a workspace with a member, a      *)
(* connection, a workflow and some history, and more notifications than    *)
(* one pass removes.                                                       *)
(***************************************************************************)
EXTENDS WorkspaceDeletion

MCHolding == [k \in Kinds |-> CASE k = "notification_deliveries" -> 3
                                 [] k = "support_cases" -> 0
                                 [] OTHER -> 1]
=============================================================================
