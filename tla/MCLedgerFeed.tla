---------------------------- MODULE MCLedgerFeed ----------------------------
(* The Ledger page, with a list of events that is full after two changes.  *)
EXTENDS LedgerFeed
=============================================================================
