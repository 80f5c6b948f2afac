---------------------------- MODULE MCJournal ------------------------------
(* Line lists for TLC: amounts in half cents. *)
EXTENDS Journal, TLC

CONSTANTS cash, sales

Dr(a, n) == [account |-> a, debit |-> n, credit |-> 0]
Cr(a, n) == [account |-> a, debit |-> 0, credit |-> n]

\* Balanced as sent; the columns hold two cents against one.
HalfCents == {<<Dr(cash, 2), Cr(sales, 2)>>, <<Dr(cash, 1), Dr(cash, 1), Cr(sales, 2)>>}

\* Sheets that the validation has to refuse as well.
Mixed == HalfCents \cup
    {<<Dr(cash, 2), Cr(sales, 4)>>, <<Dr(cash, 2)>>, <<Dr(cash, 0), Cr(sales, 0)>>,
     <<[account |-> cash, debit |-> 2, credit |-> 2], Cr(sales, 2), Dr(sales, 2)>>}

Symmetry == Permutations(Entries) \cup Permutations(Requests)
=============================================================================
