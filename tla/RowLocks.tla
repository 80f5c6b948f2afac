------------------------------ MODULE RowLocks ------------------------------
(***************************************************************************)
(* Transactions and the invoice rows they lock: what each still needs, who *)
(* waits for whom, and which transactions wait for each other in a ring.   *)
(* InvoiceLocks says how they run.                                         *)
(***************************************************************************)
EXTENDS Naturals

CONSTANTS
    Ids,    \* invoice ids, as their positions in the sort order
    Txns,   \* transactions, each run once
    NoTxn   \* no transaction

ASSUME IdsAssumption  == Ids \subseteq Nat
ASSUME NoneAssumption == NoTxn \notin Txns

VARIABLES
    kind,       \* what a transaction does, once it has begun
    state,      \* idle, running, committed or rolled_back
    giveBack,   \* invoices still to be locked by reverseReceiptAllocations
    apply,      \* invoices still to be locked by applyReceiptAllocations
    holder      \* which transaction holds the lock of an invoice row

-----------------------------------------------------------------------------
Least(S) == CHOOSE i \in S : \A j \in S : i <= j

\* Faulty variant: the invoices are locked in no particular order.
FaultyIsNext(t, i) == IF giveBack[t] /= {} THEN i \in giveBack[t] ELSE i \in apply[t]

\* The invoice t locks next, if any.
IsNext(t, i) ==
    IF giveBack[t] /= {} THEN i = Least(giveBack[t])
    ELSE apply[t] /= {} /\ i = Least(apply[t])

\* t waits for the transaction u that holds the row t needs next.
WaitsFor(t, u) ==
    /\ state[t] = "running"
    /\ u /= t
    /\ \E i \in Ids : IsNext(t, i) /\ holder[i] = u

Waits(t) == \E u \in Txns : WaitsFor(t, u)

\* A ring of transactions, each waiting for another one of the ring.
Ring(S) ==
    /\ S /= {}
    /\ \A t \in S : \E u \in S : WaitsFor(t, u)
    /\ \A u \in S : \E t \in S : WaitsFor(t, u)

-----------------------------------------------------------------------------
\* Payment verifications, receipt creations and receipt deletions never wait
\* for each other in a ring: wherever there is one, the edit of a receipt is
\* part of it.
RingsNeedAnEdit == \A S \in SUBSET Txns : Ring(S) => \E t \in S : kind[t] = "update"
=============================================================================
