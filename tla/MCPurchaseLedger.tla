------------------------- MODULE MCPurchaseLedger --------------------------
(* Instances of PurchaseLedger for TLC. *)
EXTENDS PurchaseLedger, TLC

Symmetry == Permutations(Invoices) \cup Permutations(Receipts) \cup Permutations(Requests)
=============================================================================
