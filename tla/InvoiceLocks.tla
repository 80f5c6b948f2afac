---------------------------- MODULE InvoiceLocks ---------------------------
(***************************************************************************)
(* The row locks that the balance transactions take on invoice rows: in    *)
(* which order, who waits for whom, and how a deadlock ends.               *)
(*                                                                         *)
(* A transaction first gives old allocations back, then applies new ones;  *)
(* each part locks its invoices in the order of their ids (Go sorts the    *)
(* new allocations, SQL orders the old rows).  A lock is held until the    *)
(* transaction commits or rolls back.                                      *)
(***************************************************************************)
EXTENDS RowLocks

vars == <<kind, state, giveBack, apply, holder>>

Kinds == {"verify", "create", "update", "delete"}

TypeOK ==
    /\ kind \in [Txns -> Kinds \cup {"none"}]
    /\ state \in [Txns -> {"idle", "running", "committed", "rolled_back"}]
    /\ giveBack \in [Txns -> SUBSET Ids]
    /\ apply \in [Txns -> SUBSET Ids]
    /\ holder \in [Ids -> Txns \cup {NoTxn}]

Init ==
    /\ kind = [t \in Txns |-> "none"]
    /\ state = [t \in Txns |-> "idle"]
    /\ giveBack = [t \in Txns |-> {}]
    /\ apply = [t \in Txns |-> {}]
    /\ holder = [i \in Ids |-> NoTxn]

----------------------------------------------------------------------------
\* What each kind locks: the old rows of the receipt, the new allocations.
Locks(k, old, new) ==
    CASE k = "verify" -> old = {} /\ \E i \in Ids : new = {i}
      [] k = "create" -> old = {} /\ new /= {}
      [] k = "update" -> old /= {} /\ new /= {}
      [] k = "delete" -> old /= {} /\ new = {}

BeginTx(t, k, old, new) ==
    /\ state[t] = "idle"
    /\ Locks(k, old, new)
    /\ kind' = [kind EXCEPT ![t] = k]
    /\ state' = [state EXCEPT ![t] = "running"]
    /\ giveBack' = [giveBack EXCEPT ![t] = old]
    /\ apply' = [apply EXCEPT ![t] = new]
    /\ UNCHANGED holder

\* SELECT ... FOR UPDATE; a row already locked by t is granted at once.
Lock(t) ==
    /\ state[t] = "running"
    /\ \E i \in Ids :
          /\ IsNext(t, i)
          /\ holder[i] \in {NoTxn, t}
          /\ holder' = [holder EXCEPT ![i] = t]
          /\ IF giveBack[t] /= {}
             THEN giveBack' = [giveBack EXCEPT ![t] = @ \ {i}] /\ UNCHANGED apply
             ELSE apply' = [apply EXCEPT ![t] = @ \ {i}] /\ UNCHANGED giveBack
    /\ UNCHANGED <<kind, state>>

End(t, outcome) ==
    /\ state' = [state EXCEPT ![t] = outcome]
    /\ giveBack' = [giveBack EXCEPT ![t] = {}]
    /\ apply' = [apply EXCEPT ![t] = {}]
    /\ holder' = [i \in Ids |-> IF holder[i] = t THEN NoTxn ELSE holder[i]]
    /\ UNCHANGED kind

Commit(t) ==
    /\ state[t] = "running" /\ giveBack[t] = {} /\ apply[t] = {}
    /\ End(t, "committed")

\* Faulty variant: the lock of the refused transaction stays behind.
FaultyRefuse(t) ==
    /\ state[t] = "running" /\ ~Waits(t)
    /\ state' = [state EXCEPT ![t] = "rolled_back"]
    /\ giveBack' = [giveBack EXCEPT ![t] = {}]
    /\ apply' = [apply EXCEPT ![t] = {}]
    /\ UNCHANGED <<kind, holder>>

\* An invoice that is not confirmed, or an amount past its balance, makes the
\* callback of db.Transaction return an error: everything rolls back.
Refuse(t) ==
    /\ state[t] = "running" /\ ~Waits(t)
    /\ End(t, "rolled_back")

\* PostgreSQL's deadlock detector aborts one transaction of a ring.
DeadlockVictim(t) ==
    /\ \E S \in SUBSET Txns : t \in S /\ Ring(S)
    /\ End(t, "rolled_back")

Next ==
    \E t \in Txns :
        \/ \E k \in Kinds, old, new \in SUBSET Ids : BeginTx(t, k, old, new)
        \/ Lock(t)
        \/ Commit(t)
        \/ Refuse(t)
        \/ DeadlockVictim(t)

\* The database grants a free lock and runs its detector, and a transaction
\* that holds all its locks gets to its commit.
Fairness == \A t \in Txns : WF_vars(Lock(t)) /\ WF_vars(Commit(t)) /\ WF_vars(DeadlockVictim(t))

Spec == Init /\ [][Next]_vars /\ Fairness

----------------------------------------------------------------------------
\* A transaction that is no edit never needs a row below one it already holds,
\* and one that is not running holds nothing: the argument behind the sorting.
Sorted(t) ==
    /\ giveBack[t] = {} \/ apply[t] = {}
    /\ \A i \in Ids : holder[i] = t => \A j \in giveBack[t] \cup apply[t] : i < j

LockOrder ==
    \A t \in Txns :
        /\ kind[t] /= "update" => Sorted(t)
        /\ state[t] /= "running" => \A i \in Ids : holder[i] /= t

\* Every transaction that starts ends, with or without the detector's help:
\* no lock is left behind by one that was refused or chosen as a victim.
EveryTransactionEnds ==
    \A t \in Txns : state[t] = "running" ~> state[t] \in {"committed", "rolled_back"}
=============================================================================
