------------------------------ MODULE MCOrders ------------------------------
(* A small instance of Orders. *)
EXTENDS Orders, TLC

CONSTANTS t1, t2

item(quantity, price, type, discount, taxList) ==
    [product |-> "p", quantity |-> quantity, price |-> price, discountType |-> type,
     discount |-> discount, taxes |-> taxList]

\* Two lines whose cents are rounded, with an exclusive and an inclusive tax
\* and a percentage off; one line that is given away; and a line that is refused.
MCForms ==
    {[lines |-> <<item(3, 33, "percent", 5, <<t1>>), item(1, 101, "amount", 10, <<t1, t2>>)>>,
      disc |-> [type |-> "percent", value |-> 15]],
     [lines |-> <<item(2, 50, "amount", 0, <<t2>>)>>, disc |-> [type |-> "amount", value |-> 50]],
     [lines |-> <<item(2, 50, "amount", 0, <<>>)>>, disc |-> [type |-> "amount", value |-> 51]]}

\* An exclusive and an inclusive tax, or two inclusive ones.
MCMethods == {[t \in {t1, t2} |-> IF t = t1 THEN first ELSE "inclusive"] :
                first \in {"exclusive", "inclusive"}}

MCSymmetry == Permutations(Requests)
=============================================================================
