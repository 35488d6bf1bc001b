------------------------------ MODULE MCSession -----------------------------
(* An instance of Session for TLC.  The clock leaves one tick between what *)
(* the test runs may take and the deadline of the exchange.                *)
EXTENDS Session

MCMaxGeneration == 1
MCMaxResumes == 1
=============================================================================
