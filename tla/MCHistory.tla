------------------------------- MODULE MCHistory -------------------------------
(***************************************************************************)
(* The ledger with its history variable on the small story of MCStory.     *)
(***************************************************************************)
EXTENDS LedgerHistory, MCStory
=============================================================================
