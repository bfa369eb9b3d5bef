------------------------------- MODULE MCLedger -------------------------------
(***************************************************************************)
(* The ledger on the small story of MCStory.                               *)
(***************************************************************************)
EXTENDS Ledger, MCStory
=============================================================================
