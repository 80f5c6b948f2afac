----------------------------- MODULE MCCatalog -----------------------------
(* A small instance of Catalog: requests are interchangeable. *)
EXTENDS Catalog, TLC

MCSymmetry == Permutations(Requests)
=============================================================================
