--------------------------- MODULE MCSalesLedger ---------------------------
(* Instances of the sales ledger for TLC. *)
EXTENDS SalesBook, TLC

Symmetry == Permutations(Payments) \cup Permutations(Receipts) \cup Permutations(Requests)
=============================================================================
