------------------------- MODULE MCIntegrationOutbox -------------------------
(***************************************************************************)
(* IntegrationOutbox on a small instance: one event enqueued inside its    *)
(* business transaction (a cash advance release) and one enqueued after    *)
(* its commit (a payroll approval), both for the accounting receiver.      *)
(***************************************************************************)
EXTENDS IntegrationOutbox, TLC

CONSTANTS release, approval, accounting

MCDestinationOf == [e \in Events |-> accounting]
=============================================================================
