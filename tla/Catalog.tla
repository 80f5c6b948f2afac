------------------------------ MODULE Catalog ------------------------------
(***************************************************************************)
(* The master data of a company: chart of accounts, taxes with compound    *)
(* taxes, journal books and bank accounts.                                 *)
(*                                                                         *)
(* A request reads, checks and writes in separate statements without a     *)
(* transaction around them: the reads in a row are one action, every write *)
(* is another.  Codes are kept apart by unique indexes and not modelled.   *)
(***************************************************************************)
EXTENDS Integers, FiniteSets

CONSTANTS
    Accounts, Taxes, Books, Banks,      \* ids
    Rates,          \* percentages
    Requests,       \* requests, each served once: the bound of a behaviour
    None

\* Init starts a company with an account and two taxes.
ASSUME CatalogAssumption ==
    /\ Rates \subseteq 0..100
    /\ None \notin Accounts
    /\ Accounts /= {}
    /\ \E p, q \in Taxes : p /= q

VARIABLES
    accounts, taxes, books, banks,      \* the rows of the four tables
    requests,   \* what each request has read so far
    raced,      \* history: what was deleted while a request that names it was served
    drifted     \* history: compounds whose sum was lost or overtaken, bank
                \* accounts whose saving did not clear the others

vars == <<accounts, taxes, books, banks, requests, raced, drifted>>
rows == <<accounts, taxes, books, banks>>

Row == {"absent", "live", "deleted"}
Pairs == {{p, q} : p, q \in Taxes} \ {{p} : p \in Taxes}

Account == [row : Row, system : BOOLEAN, parent : Accounts \cup {None}]

\* The sales and the purchase account of a tax.  A compound tax has none of
\* them, a single tax has no parts.
Sides == {"sales", "purchase"}
NoAccounts == [side \in Sides |-> None]

Tax == [row : Row, system : BOOLEAN, rate : 0..200, parts : Pairs \cup {{}},
        accounts : [Sides -> Accounts \cup {None}]]

JournalBook == [row : Row, system : BOOLEAN, accounts : SUBSET Accounts, used : BOOLEAN]
BankAccount == [row : Row, primary : BOOLEAN, used : BOOLEAN]

Request ==
         [op : {"new", "done"}]
    \cup [op : {"account_insert", "account_update"}, id : Accounts, parent : Accounts \cup {None}]
    \cup [op : {"account_delete"}, id : Accounts]
    \cup [op : {"tax_insert"}, id : Taxes, rate : 0..200, parts : Pairs \cup {{}},
          accounts : [Sides -> Accounts \cup {None}]]
    \cup [op : {"tax_accounts"}, id : Taxes, accounts : UNION {[{side} -> Accounts] : side \in Sides}]
    \cup [op : {"tax_rate"}, id : Taxes, rate : Rates]
    \cup [op : {"tax_parts"}, id : Taxes, rate : 0..200, parts : Pairs]
    \cup [op : {"tax_refresh", "tax_delete"}, id : Taxes]
    \cup [op : {"book_delete"}, id : Books]
    \cup [op : {"bank_reread", "bank_clear", "bank_delete"}, id : Banks]

TypeOK ==
    /\ accounts \in [Accounts -> Account]
    /\ taxes \in [Taxes -> Tax]
    /\ books \in [Books -> JournalBook]
    /\ banks \in [Banks -> BankAccount]
    /\ \A t \in Taxes : \A part \in taxes[t].parts : taxes[part].parts = {}
    /\ requests \in [Requests -> Request]
    /\ raced \subseteq Accounts \cup Taxes
    /\ drifted \subseteq Taxes \cup Banks

Live(table) == {x \in DOMAIN table : table[x].row = "live"}
Absent(table) == {x \in DOMAIN table : table[x].row = "absent"}

Begin(r, m) == requests[r] = [op |-> "new"] /\ requests' = [requests EXCEPT ![r] = m]
Continue(r, m) == requests' = [requests EXCEPT ![r] = m]
Answer(r) == Continue(r, [op |-> "done"])
Serve(r) == requests[r] = [op |-> "new"] /\ Answer(r)
InFlight(r) == requests[r].op \notin {"new", "done"}

----------------------------------------------------------------------------
(* Accounts. *)

validateParent(p) == p = None \/ p \in Live(accounts)

AccountCreate(r) ==
    \E a \in Absent(accounts), p \in Accounts \cup {None} :
        /\ validateParent(p)
        /\ Begin(r, [op |-> "account_insert", id |-> a, parent |-> p])
        /\ UNCHANGED <<rows, drifted>>

AccountInsert(r) ==
    LET m == requests[r] IN
    /\ m.op = "account_insert"
    /\ accounts[m.id].row = "absent"
    /\ accounts' = [accounts EXCEPT ![m.id] = [row |-> "live", system |-> FALSE, parent |-> m.parent]]
    /\ Answer(r)
    /\ UNCHANGED <<taxes, books, banks, drifted>>

\* Another parent, for a built-in account too.
AccountUpdate(r) ==
    \E a \in Live(accounts), p \in Accounts \cup {None} :
        /\ p /= a
        /\ validateParent(p)
        /\ Begin(r, [op |-> "account_update", id |-> a, parent |-> p])
        /\ UNCHANGED <<rows, drifted>>

AccountSave(r) ==
    LET m == requests[r] IN
    /\ m.op = "account_update"
    /\ accounts[m.id].row = "live"
    /\ accounts' = [accounts EXCEPT ![m.id].parent = m.parent]
    /\ Answer(r)
    /\ UNCHANGED <<taxes, books, banks, drifted>>

accountsOf(given) == {given.accounts[side] : side \in DOMAIN given.accounts} \ {None}

HasChildren(a) == \E x \in Live(accounts) : accounts[x].parent = a

\* Faulty variant: taxes are not counted.
FaultyAccountUnused(a) == \A b \in Live(books) : a \notin books[b].accounts

\* Taxes and journal books; journal lines are in Journal.
checkAccountUnused(a) ==
    /\ \A t \in Live(taxes) : a \notin accountsOf(taxes[t])
    /\ \A b \in Live(books) : a \notin books[b].accounts

AccountDeleteCheck(r) ==
    \E a \in Live(accounts) :
        /\ ~accounts[a].system
        /\ ~HasChildren(a)
        /\ checkAccountUnused(a)
        /\ Begin(r, [op |-> "account_delete", id |-> a])
        /\ UNCHANGED <<rows, drifted>>

AccountDelete(r) ==
    LET m == requests[r] IN
    /\ m.op = "account_delete"
    /\ accounts' = [accounts EXCEPT ![m.id].row = "deleted"]
    /\ Answer(r)
    /\ UNCHANGED <<taxes, books, banks, drifted>>

----------------------------------------------------------------------------
(* Taxes. *)

mustAccountExist(given) == \A side \in DOMAIN given : given[side] \in Live(accounts)

\* The components of a compound tax: live, different, and single taxes.
resolveComponents(parts) ==
    parts \in Pairs /\ parts \subseteq Live(taxes) /\ \A p \in parts : taxes[p].parts = {}

\* COALESCE: a component that is gone counts nothing.
sumOfRates(table, parts) ==
    LET rate(p) == IF table[p].row = "live" THEN table[p].rate ELSE 0 IN
    IF parts = {} THEN 0
    ELSE LET p == CHOOSE p \in parts : TRUE
             q == CHOOSE q \in parts : q /= p IN rate(p) + rate(q)

TaxCreate(r) ==
    \E t \in Absent(taxes) :
        /\ \/ \E rate \in Rates, given \in [Sides -> Accounts] :
                /\ mustAccountExist(given)
                /\ Begin(r, [op |-> "tax_insert", id |-> t, rate |-> rate, parts |-> {},
                             accounts |-> given])
           \/ \E parts \in Pairs :
                /\ resolveComponents(parts)
                /\ Begin(r, [op |-> "tax_insert", id |-> t, rate |-> sumOfRates(taxes, parts),
                             parts |-> parts, accounts |-> NoAccounts])
        /\ UNCHANGED <<rows, drifted>>

TaxInsert(r) ==
    LET m == requests[r] IN
    /\ m.op = "tax_insert"
    /\ taxes[m.id].row = "absent"
    /\ taxes' = [taxes EXCEPT ![m.id] = [row |-> "live", system |-> FALSE, rate |-> m.rate,
                                         parts |-> m.parts, accounts |-> m.accounts]]
    /\ Answer(r)
    /\ UNCHANGED <<accounts, books, banks, drifted>>

\* A single tax gets another account, or another rate that its compounds
\* follow; a compound tax gets another pair.
TaxUpdate(r) ==
    \E t \in Live(taxes) :
        /\ \/ \E side \in Sides, a \in Accounts : LET given == [s \in {side} |-> a] IN
                /\ taxes[t].parts = {}
                /\ mustAccountExist(given)
                /\ Begin(r, [op |-> "tax_accounts", id |-> t, accounts |-> given])
           \/ \E rate \in Rates :
                taxes[t].parts = {} /\ Begin(r, [op |-> "tax_rate", id |-> t, rate |-> rate])
           \/ \E parts \in Pairs :
                /\ taxes[t].parts /= {}
                /\ resolveComponents(parts)
                /\ Begin(r, [op |-> "tax_parts", id |-> t, rate |-> sumOfRates(taxes, parts),
                             parts |-> parts])
        /\ UNCHANGED <<rows, drifted>>

\* The compounds about to be written with a sum that contains t's old rate.
overtaken(t) ==
    {requests[r].id : r \in {r \in Requests : /\ requests[r].op \in {"tax_insert", "tax_parts"}
                                              /\ t \in requests[r].parts}}

TaxSave(r) ==
    LET m == requests[r] IN
    /\ m.op \in {"tax_accounts", "tax_rate", "tax_parts"}
    /\ taxes[m.id].row = "live"
    /\ \/ /\ m.op = "tax_accounts"
          /\ taxes' = [taxes EXCEPT ![m.id].accounts =
                [side \in Sides |-> IF side \in DOMAIN m.accounts THEN m.accounts[side] ELSE @[side]]]
          /\ Answer(r) /\ UNCHANGED drifted
       \/ /\ m.op = "tax_rate"
          /\ taxes' = [taxes EXCEPT ![m.id].rate = m.rate]
          /\ Continue(r, [op |-> "tax_refresh", id |-> m.id])
          /\ drifted' = drifted \cup overtaken(m.id)
       \/ /\ m.op = "tax_parts"
          /\ taxes' = [taxes EXCEPT ![m.id].parts = m.parts, ![m.id].rate = m.rate]
          /\ Answer(r) /\ UNCHANGED drifted
    /\ UNCHANGED <<accounts, books, banks>>

\* Faulty variant: only the changed rate is put in.
FaultyRefreshCompoundRates(r) ==
    LET m == requests[r] IN
    /\ m.op = "tax_refresh"
    /\ taxes' = [t \in Taxes |->
          IF t \in Live(taxes) /\ m.id \in taxes[t].parts
          THEN [taxes[t] EXCEPT !.rate = taxes[m.id].rate] ELSE taxes[t]]
    /\ Answer(r)
    /\ UNCHANGED <<accounts, books, banks, drifted>>

\* Every live compound with this component is summed up again.
refreshCompoundRates(r) ==
    LET m == requests[r] IN
    /\ m.op = "tax_refresh"
    /\ taxes' = [t \in Taxes |->
          IF t \in Live(taxes) /\ m.id \in taxes[t].parts
          THEN [taxes[t] EXCEPT !.rate = sumOfRates(taxes, taxes[t].parts)] ELSE taxes[t]]
    /\ Answer(r)
    /\ UNCHANGED <<accounts, books, banks, drifted>>

compoundsOf(t) == {c \in Live(taxes) : t \in taxes[c].parts}

\* A component of a live compound is not deleted; document lines are in Orders.
TaxDeleteCheck(r) ==
    \E t \in Live(taxes) :
        /\ ~taxes[t].system
        /\ compoundsOf(t) = {}
        /\ Begin(r, [op |-> "tax_delete", id |-> t])
        /\ UNCHANGED <<rows, drifted>>

TaxDelete(r) ==
    LET m == requests[r] IN
    /\ m.op = "tax_delete"
    /\ taxes' = [taxes EXCEPT ![m.id].row = "deleted"]
    /\ Answer(r)
    /\ UNCHANGED <<accounts, books, banks, drifted>>

----------------------------------------------------------------------------
(* Journal books.  Their default accounts are not looked up. *)

BookCreate(r) ==
    \E b \in Absent(books), as \in SUBSET Accounts :
        /\ books' = [books EXCEPT ![b] = [row |-> "live", system |-> FALSE, accounts |-> as,
                                          used |-> FALSE]]
        /\ Serve(r)
        /\ UNCHANGED <<accounts, taxes, banks, drifted>>

BookUpdate(r) ==
    \E b \in Live(books), as \in SUBSET Accounts :
        /\ books' = [books EXCEPT ![b].accounts = as]
        /\ Serve(r)
        /\ UNCHANGED <<accounts, taxes, banks, drifted>>

HasEntries(b) == books[b].used

BookDeleteCheck(r) ==
    \E b \in Live(books) :
        /\ ~books[b].system
        /\ ~HasEntries(b)
        /\ Begin(r, [op |-> "book_delete", id |-> b])
        /\ UNCHANGED <<rows, drifted>>

BookDelete(r) ==
    LET m == requests[r] IN
    /\ m.op = "book_delete"
    /\ books' = [books EXCEPT ![m.id].row = "deleted"]
    /\ Answer(r)
    /\ UNCHANGED <<accounts, taxes, banks, drifted>>

----------------------------------------------------------------------------
(* Bank accounts. *)

BankCreate(r) ==
    \E b \in Absent(banks), primary \in BOOLEAN :
        /\ banks' = [banks EXCEPT ![b] = [row |-> "live", primary |-> primary, used |-> FALSE]]
        /\ Begin(r, [op |-> "bank_reread", id |-> b])
        /\ UNCHANGED <<accounts, taxes, books, drifted>>

BankUpdate(r) ==
    \E b \in Live(banks), primary \in BOOLEAN :
        /\ banks' = [banks EXCEPT ![b].primary = primary]
        /\ Begin(r, [op |-> "bank_reread", id |-> b])
        /\ UNCHANGED <<accounts, taxes, books, drifted>>

\* Faulty variant: the others are cleared on creation only, as if the row
\* that was read had just been made.
FaultyBankReread(r) ==
    LET m == requests[r] IN
    /\ m.op = "bank_reread"
    /\ Answer(r)
    /\ UNCHANGED <<rows, drifted>>

\* The row is read again, and as a primary one it clears the others.
BankReread(r) ==
    LET m == requests[r] IN
    /\ m.op = "bank_reread"
    /\ banks[m.id].row = "live"
    /\ IF banks[m.id].primary THEN Continue(r, [op |-> "bank_clear", id |-> m.id]) ELSE Answer(r)
    /\ UNCHANGED <<rows, drifted>>

ClearPrimary(r) ==
    LET m == requests[r] IN
    /\ m.op = "bank_clear"
    /\ banks' = [b \in Banks |-> IF b \in Live(banks) \ {m.id} THEN [banks[b] EXCEPT !.primary = FALSE]
                                                               ELSE banks[b]]
    /\ Answer(r)
    /\ UNCHANGED <<accounts, taxes, books, drifted>>

checkBankAccountUnused(b) == ~banks[b].used

BankDeleteCheck(r) ==
    \E b \in Live(banks) :
        /\ checkBankAccountUnused(b)
        /\ Begin(r, [op |-> "bank_delete", id |-> b])
        /\ UNCHANGED <<rows, drifted>>

BankDelete(r) ==
    LET m == requests[r] IN
    /\ m.op = "bank_delete"
    /\ banks[m.id].row = "live"
    /\ banks' = [banks EXCEPT ![m.id].row = "deleted"]
    /\ Answer(r)
    /\ UNCHANGED <<accounts, taxes, books, drifted>>

----------------------------------------------------------------------------
(* The specification. *)

\* A refused check, a failed statement or a lost connection.  A request that
\* has saved its rate or its primary flag leaves the second statement undone.
Abort(r) ==
    LET m == requests[r] IN
    /\ InFlight(r)
    /\ drifted' = drifted \cup
          CASE m.op = "tax_refresh" -> compoundsOf(m.id)
            [] m.op \in {"bank_reread", "bank_clear"} -> {m.id}
            [] OTHER -> {}
    /\ Answer(r)
    /\ UNCHANGED rows

\* The accounts and taxes a request in flight is about to write into a row,
\* and the ones it is about to delete.
names(r) ==
    LET m == requests[r] IN
    CASE m.op \in {"account_insert", "account_update"} -> {m.parent} \ {None}
      [] m.op = "tax_insert" -> accountsOf(m) \cup m.parts
      [] m.op = "tax_accounts" -> accountsOf(m)
      [] m.op = "tax_parts" -> m.parts
      [] OTHER -> {}

deletes(r) == IF requests[r].op \in {"account_delete", "tax_delete"} THEN {requests[r].id} ELSE {}

overlaps == (UNION {names(r) : r \in Requests}) \cap (UNION {deletes(r) : r \in Requests})

\* A chart with a built-in account, taxes of any rate, perhaps with a
\* compound one, perhaps a journal book, and a primary bank account.
Init ==
    LET root == CHOOSE a \in Accounts : TRUE
        none == [row |-> "absent", system |-> FALSE, rate |-> 0, parts |-> {}, accounts |-> NoAccounts] IN
    /\ \E known \in SUBSET (Accounts \ {root}) :
          accounts = [a \in Accounts |->
            [row |-> IF a \in known \cup {root} THEN "live" ELSE "absent",
             system |-> a = root, parent |-> IF a \in known THEN root ELSE None]]
    /\ LET parts == CHOOSE p \in Pairs : TRUE IN
       \E rate \in Rates \ {0} : \E made \in SUBSET (Taxes \ parts) :
          taxes = [t \in Taxes |->
            CASE t \in parts -> [none EXCEPT !.row = "live", !.rate = rate, !.accounts = [side \in Sides |-> root]]
              [] t \in made -> [none EXCEPT !.row = "live", !.rate = 2 * rate, !.parts = parts]
              [] OTHER -> none]
    /\ \E used, system \in BOOLEAN :
          books = [b \in Books |-> [row |-> IF used \/ system THEN "live" ELSE "absent",
                                    system |-> system, accounts |-> {}, used |-> used]]
    /\ LET first == CHOOSE b \in Banks : TRUE IN
       \E used \in BOOLEAN :
          banks = [b \in Banks |-> [row |-> IF b = first THEN "live" ELSE "absent",
                                    primary |-> b = first, used |-> used /\ b = first]]
    /\ requests = [r \in Requests |-> [op |-> "new"]]
    /\ raced = {}
    /\ drifted = {}

AccountRequest(r) ==
    AccountCreate(r) \/ AccountInsert(r) \/ AccountUpdate(r) \/ AccountSave(r)
        \/ AccountDeleteCheck(r) \/ AccountDelete(r)

TaxRequest(r) ==
    TaxCreate(r) \/ TaxInsert(r) \/ TaxUpdate(r) \/ TaxSave(r) \/ refreshCompoundRates(r)
        \/ TaxDeleteCheck(r) \/ TaxDelete(r)

BookRequest(r) == BookCreate(r) \/ BookUpdate(r) \/ BookDeleteCheck(r) \/ BookDelete(r)

BankRequest(r) ==
    BankCreate(r) \/ BankUpdate(r) \/ BankReread(r) \/ ClearPrimary(r)
        \/ BankDeleteCheck(r) \/ BankDelete(r)

Next ==
    /\ \E r \in Requests :
          AccountRequest(r) \/ TaxRequest(r) \/ BookRequest(r) \/ BankRequest(r) \/ Abort(r)
    /\ raced' = raced \cup overlaps'

Spec == Init /\ [][Next]_vars

----------------------------------------------------------------------------
(* Properties. *)

\* The parent of a live account, the accounts of a live tax and the components
\* of a live compound tax are live, unless the deletion ran while a request
\* that names them was served.
MasterDataLive ==
    /\ \A a \in Live(accounts) : accounts[a].parent \in Live(accounts) \cup raced \cup {None}
    /\ \A t \in Live(taxes) : /\ accountsOf(taxes[t]) \subseteq Live(accounts) \cup raced
                              /\ taxes[t].parts \subseteq Live(taxes) \cup raced

\* A live compound tax charges the sum of its components' rates, except while
\* a component's edit still has to refresh it, and unless that refresh was
\* lost or a component changed or went between its own checks and its save.
CompoundRateIsSum ==
    \A c \in Live(taxes) : LET parts == taxes[c].parts IN
        \/ parts = {} \/ c \in drifted \/ parts \cap raced /= {}
        \/ \E r \in Requests : requests[r].op = "tax_refresh" /\ requests[r].id \in parts
        \/ taxes[c].rate = sumOfRates(taxes, parts)

\* Of the bank accounts nobody is saving, at most one is the primary one,
\* however the saves and the clearing of the others interleave.
OnePrimary ==
    LET saving == {requests[r].id : r \in {r \in Requests :
                        requests[r].op \in {"bank_reread", "bank_clear"}}} IN
    Cardinality({b \in Live(banks) : banks[b].primary} \ (saving \cup drifted)) <= 1
=============================================================================
