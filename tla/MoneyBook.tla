------------------------------ MODULE MoneyBook ------------------------------
(***************************************************************************)
(* What a ledger promises, without rows, handlers or statements: a book of *)
(* bills and of documents that hold money on them.  Money moves one        *)
(* document at a time, the balance of every bill moves by exactly what     *)
(* that document gained or gave up on it, and only a bill that is open     *)
(* takes more, up to what is due.                                          *)
(***************************************************************************)
EXTENDS Integers

CONSTANTS Invoices, Documents, MaxAmount

VARIABLES
    terms,  \* per bill: may it take money, and how much is due
    held,   \* per document and bill: the money it holds there
    paid    \* per bill: the balance kept with it

vars == <<terms, held, paid>>

Holdings == [Invoices -> 0 .. MaxAmount]

Init ==
    /\ terms \in [Invoices -> [open : {FALSE}, due : 0 .. MaxAmount]]
    /\ held = [d \in Documents |-> [i \in Invoices |-> 0]]
    /\ paid = [i \in Invoices |-> 0]

\* The terms of one bill change; no money moves.
SetTerms(i, open, due) ==
    /\ terms' = [terms EXCEPT ![i] = [open |-> open, due |-> due]]
    /\ UNCHANGED <<held, paid>>

\* Document d comes to hold h.
Move(d, h) ==
    /\ \A i \in Invoices : h[i] > held[d][i] =>
          /\ terms[i].open
          /\ paid[i] + h[i] - held[d][i] <= terms[i].due
    /\ held' = [held EXCEPT ![d] = h]
    /\ paid' = [i \in Invoices |-> paid[i] + h[i] - held[d][i]]
    /\ UNCHANGED terms

Next ==
    \/ \E i \in Invoices, open \in BOOLEAN, due \in 0 .. MaxAmount : SetTerms(i, open, due)
    \/ \E d \in Documents, h \in Holdings : Move(d, h)

Spec == Init /\ [][Next]_vars
=============================================================================
