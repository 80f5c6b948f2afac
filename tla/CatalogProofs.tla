---------------------------- MODULE CatalogProofs ----------------------------
(* Proofs about Catalog for any number of rows and requests.               *)
EXTENDS Catalog, FiniteSetTheorems, TLAPS

-----------------------------------------------------------------------------
(* The inductive invariant. *)

\* The accounts, and the taxes, a request is about to write into a row.
accountNames(r) ==
    LET m == requests[r] IN
    CASE m.op \in {"account_insert", "account_update"} -> {m.parent} \ {None}
      [] m.op \in {"tax_insert", "tax_accounts"} -> accountsOf(m)
      [] OTHER -> {}

taxNames(r) ==
    IF requests[r].op \in {"tax_insert", "tax_parts"} THEN requests[r].parts ELSE {}

\* What a request is about to write is live, unless its deletion is under way.
NamesLive == \A r \in Requests :
    /\ accountNames(r) \subseteq Live(accounts) \cup raced
    /\ taxNames(r) \subseteq Live(taxes) \cup raced

\* What a request is about to delete is used by no live row, unless a request
\* that names it was served meanwhile.
accountUnused(a) ==
    /\ \A x \in Live(accounts) : accounts[x].parent # a
    /\ \A t \in Live(taxes) : a \notin accountsOf(taxes[t])

DeletesUnused == \A r \in Requests : LET m == requests[r] IN
    /\ m.op = "account_delete" => m.id \in raced \/ accountUnused(m.id)
    /\ m.op = "tax_delete" => m.id \in raced \/ \A c \in Live(taxes) : m.id \notin taxes[c].parts

\* A component, or one that is about to become one, is a row that was made and
\* is no compound tax; only compound taxes charge more than a hundred.
Component(p) == taxes[p].row # "absent" /\ taxes[p].parts = {}

ChangesSound(r) == LET m == requests[r] IN
    /\ \A p \in taxNames(r) : Component(p)
    /\ m.op = "tax_insert" /\ m.parts = {} => m.rate <= 100
    /\ m.op = "tax_rate" => Component(m.id)
    /\ m.op = "tax_parts" => taxes[m.id].row # "absent" /\ taxes[m.id].parts # {}

ComponentsSound ==
    /\ \A t \in Taxes : \A p \in taxes[t].parts : Component(p)
    /\ \A t \in Taxes : taxes[t].parts = {} => taxes[t].rate <= 100
    /\ \A r \in Requests : ChangesSound(r)

\* A request writes the sum of the rates, unless a component changed or went
\* since it was read.
SumsRead == \A r \in Requests : LET m == requests[r] IN
    taxNames(r) # {} =>
        \/ m.id \in drifted \/ m.parts \cap raced # {}
        \/ m.rate = sumOfRates(taxes, m.parts)

\* Two primary bank accounts: one of them is being saved.
saving == {requests[r].id : r \in {r \in Requests : requests[r].op \in {"bank_reread", "bank_clear"}}}

OneIsSaved == \A a, b \in Live(banks) :
    banks[a].primary /\ banks[b].primary /\ a # b => {a, b} \cap (saving \cup drifted) # {}

IInv ==
    /\ TypeOK
    /\ overlaps \subseteq raced
    /\ NamesLive /\ DeletesUnused /\ MasterDataLive
    /\ ComponentsSound /\ SumsRead /\ CompoundRateIsSum
    /\ OneIsSaved

-----------------------------------------------------------------------------
(* Rows, names and sums. *)

LEMMA LiveRows ==
    ASSUME TypeOK
    PROVE  /\ Live(accounts) = {a \in Accounts : accounts[a].row = "live"}
           /\ Live(taxes) = {t \in Taxes : taxes[t].row = "live"}
           /\ Live(banks) = {b \in Banks : banks[b].row = "live"}
           /\ Absent(accounts) = {a \in Accounts : accounts[a].row = "absent"}
           /\ Absent(taxes) = {t \in Taxes : taxes[t].row = "absent"}
           /\ Absent(banks) = {b \in Banks : banks[b].row = "absent"}
  BY DEF TypeOK, Live, Absent

\* Two different taxes.
LEMMA PairElements ==
    ASSUME NEW P \in Pairs
    PROVE  \E p, q \in Taxes : p # q /\ P = {p, q}
  BY DEF Pairs

\* The rate a component counts with.
counted(row) == IF row.row = "live" THEN row.rate ELSE 0

\* Whichever component is looked at first, the sum is the same.
LEMMA SumOfTwo ==
    ASSUME NEW table, NEW p \in Taxes, NEW q \in Taxes, p # q,
           counted(table[p]) \in Int, counted(table[q]) \in Int
    PROVE  sumOfRates(table, {p, q}) = counted(table[p]) + counted(table[q])
<1> DEFINE x == CHOOSE x \in {p, q} : TRUE
<1>1. x \in {p, q}
  OBVIOUS
<1> DEFINE y == CHOOSE y \in {p, q} : y # x
<1>2. y \in {p, q} /\ y # x
  <2> HIDE DEF x
  <2>1. \E z \in {p, q} : z # x
    BY <1>1
  <2> QED
    BY <2>1
<1>3. sumOfRates(table, {p, q}) = counted(table[x]) + counted(table[y])
  BY DEF sumOfRates, counted
<1> HIDE DEF x, y
<1> QED
  BY <1>1, <1>2, <1>3

\* Tables that agree on the components give the same sum.
LEMMA SumSame ==
    ASSUME NEW S, NEW T, NEW P \in Pairs,
           \A p \in P : /\ counted(S[p]) \in Int
                       /\ counted(T[p]) = counted(S[p])
    PROVE  sumOfRates(T, P) = sumOfRates(S, P)
<1>1. PICK p, q \in Taxes : p # q /\ P = {p, q}
  BY PairElements
<1>2. sumOfRates(S, {p, q}) = counted(S[p]) + counted(S[q])
  BY <1>1, SumOfTwo
<1>3. sumOfRates(T, {p, q}) = counted(T[p]) + counted(T[q])
  BY <1>1, SumOfTwo
<1> QED
  BY <1>1, <1>2, <1>3

\* Two components charge two hundred at most.
LEMMA SumType ==
    ASSUME TypeOK, ComponentsSound, NEW P \in Pairs, \A p \in P : Component(p)
    PROVE  sumOfRates(taxes, P) \in 0..200
<1>1. PICK p, q \in Taxes : p # q /\ P = {p, q}
  BY PairElements
<1>2. \A t \in {p, q} : counted(taxes[t]) \in 0..100
  <2> SUFFICES ASSUME NEW t \in {p, q} PROVE counted(taxes[t]) \in 0..100
    OBVIOUS
  <2>1. taxes[t].rate \in 0..200 /\ taxes[t].rate <= 100
    BY <1>1 DEF TypeOK, Tax, ComponentsSound, Component
  <2> QED
    BY <2>1 DEF counted
<1>3. sumOfRates(taxes, {p, q}) = counted(taxes[p]) + counted(taxes[q])
  BY <1>1, <1>2, SumOfTwo
<1> QED
  BY <1>1, <1>2, <1>3

-----------------------------------------------------------------------------
(* Requests. *)

\* What a request carries.
LEMMA RequestFields ==
    ASSUME NEW q \in Request
    PROVE  /\ q.op \in {"account_insert", "account_update", "account_delete"} => q.id \in Accounts
           /\ q.op \in {"account_insert", "account_update"} => q.parent \in Accounts \cup {None}
           /\ q.op \in {"tax_insert", "tax_accounts", "tax_rate", "tax_parts", "tax_refresh",
                       "tax_delete"} => q.id \in Taxes
           /\ q.op \in {"tax_insert", "tax_parts"} => q.rate \in 0..200
           /\ q.op = "tax_insert" => /\ q.parts \in Pairs \cup {{}}
                                    /\ q.accounts \in [Sides -> Accounts \cup {None}]
           /\ q.op = "tax_accounts" => \E side \in Sides : q.accounts \in [{side} -> Accounts]
           /\ q.op = "tax_rate" => q.rate \in Rates
           /\ q.op = "tax_parts" => q.parts \in Pairs
           /\ q.op \in {"bank_reread", "bank_clear", "bank_delete"} => q.id \in Banks
           /\ q.op = "book_delete" => q.id \in Books
<1>2. CASE q \in [op : {"tax_accounts"}, id : Taxes,
                  accounts : UNION {[{side} -> Accounts] : side \in Sides}]
  BY <1>2
<1>3. CASE \/ q \in [op : {"new", "done"}]
           \/ q \in [op : {"account_insert", "account_update"}, id : Accounts,
                     parent : Accounts \cup {None}]
           \/ q \in [op : {"account_delete"}, id : Accounts]
  BY <1>3
<1>4. CASE \/ q \in [op : {"tax_insert"}, id : Taxes, rate : 0..200, parts : Pairs \cup {{}},
                     accounts : [Sides -> Accounts \cup {None}]]
           \/ q \in [op : {"tax_rate"}, id : Taxes, rate : Rates]
           \/ q \in [op : {"tax_parts"}, id : Taxes, rate : 0..200, parts : Pairs]
           \/ q \in [op : {"tax_refresh", "tax_delete"}, id : Taxes]
  BY <1>4
<1>5. CASE \/ q \in [op : {"book_delete"}, id : Books]
           \/ q \in [op : {"bank_reread", "bank_clear", "bank_delete"}, id : Banks]
  BY <1>5
<1> QED
  BY <1>2, <1>3, <1>4, <1>5 DEF Request

LEMMA RequestType ==
    ASSUME TypeOK, NEW r \in Requests
    PROVE  LET q == requests[r] IN
           /\ q \in Request
           /\ q.op \in {"account_insert", "account_update", "account_delete"} => q.id \in Accounts
           /\ q.op \in {"account_insert", "account_update"} => q.parent \in Accounts \cup {None}
           /\ q.op \in {"tax_insert", "tax_accounts", "tax_rate", "tax_parts", "tax_refresh",
                       "tax_delete"} => q.id \in Taxes
           /\ q.op \in {"tax_insert", "tax_parts"} => q.rate \in 0..200
           /\ q.op = "tax_insert" => /\ q.parts \in Pairs \cup {{}}
                                    /\ q.accounts \in [Sides -> Accounts \cup {None}]
           /\ q.op = "tax_accounts" => \E side \in Sides : q.accounts \in [{side} -> Accounts]
           /\ q.op = "tax_rate" => q.rate \in Rates
           /\ q.op = "tax_parts" => q.parts \in Pairs
           /\ q.op \in {"bank_reread", "bank_clear", "bank_delete"} => q.id \in Banks
           /\ q.op = "book_delete" => q.id \in Books
<1>1. requests[r] \in Request
  BY DEF TypeOK
<1> QED
  BY <1>1, RequestFields, Zenon

\* What a request that begins has read.
Started(m) ==
    /\ m \in Request
    /\ m.op \in {"account_insert", "account_update"} => m.parent \in Live(accounts) \cup {None}
    /\ m.op = "account_delete" => accountUnused(m.id)
    /\ m.op \in {"tax_insert", "tax_accounts"} => accountsOf(m) \subseteq Live(accounts)
    /\ m.op \in {"tax_insert", "tax_parts"} =>
          /\ m.parts \subseteq Live(taxes)
          /\ \A p \in m.parts : taxes[p].parts = {}
          /\ m.parts # {} => m.rate = sumOfRates(taxes, m.parts)
    /\ m.op = "tax_insert" /\ m.parts = {} => m.rate <= 100
    /\ m.op = "tax_rate" => m.id \in Live(taxes) /\ taxes[m.id].parts = {}
    /\ m.op = "tax_parts" => m.id \in Live(taxes) /\ taxes[m.id].parts # {}
    /\ m.op = "tax_delete" => \A c \in Live(taxes) : m.id \notin taxes[c].parts
    /\ m.op \notin {"tax_refresh", "bank_reread", "bank_clear"}

Starts(r) == \E m : /\ Started(m)
                    /\ requests[r].op = "new" /\ requests' = [requests EXCEPT ![r] = m]
                    /\ UNCHANGED <<rows, drifted>>

LEMMA Starting ==
    ASSUME NEW r \in Requests, NEW m, Started(m), Begin(r, m), UNCHANGED <<rows, drifted>>
    PROVE  Starts(r)
<1>1. requests[r].op = "new" /\ requests' = [requests EXCEPT ![r] = m]
  BY DEF Begin
<1> QED
  BY <1>1 DEF Starts

LEMMA AccountStarts ==
    ASSUME TypeOK, NEW r \in Requests,
           AccountCreate(r) \/ AccountUpdate(r) \/ AccountDeleteCheck(r)
    PROVE  Starts(r)
<1>1. CASE AccountCreate(r)
  <2>1. PICK a \in Absent(accounts), p \in Accounts \cup {None} :
           /\ validateParent(p)
           /\ Begin(r, [op |-> "account_insert", id |-> a, parent |-> p])
           /\ UNCHANGED <<rows, drifted>>
    BY <1>1 DEF AccountCreate
  <2>2. Started([op |-> "account_insert", id |-> a, parent |-> p])
    BY <2>1, LiveRows DEF Started, Request, validateParent
  <2> QED
    BY <2>1, <2>2, Starting
<1>2. CASE AccountUpdate(r)
  <2>1. PICK a \in Live(accounts), p \in Accounts \cup {None} :
           /\ validateParent(p)
           /\ Begin(r, [op |-> "account_update", id |-> a, parent |-> p])
           /\ UNCHANGED <<rows, drifted>>
    BY <1>2 DEF AccountUpdate
  <2>2. Started([op |-> "account_update", id |-> a, parent |-> p])
    BY <2>1, LiveRows DEF Started, Request, validateParent
  <2> QED
    BY <2>1, <2>2, Starting
<1>3. CASE AccountDeleteCheck(r)
  <2>1. PICK a \in Live(accounts) :
           /\ ~HasChildren(a) /\ checkAccountUnused(a)
           /\ Begin(r, [op |-> "account_delete", id |-> a])
           /\ UNCHANGED <<rows, drifted>>
    BY <1>3 DEF AccountDeleteCheck
  <2>2. accountUnused(a)
    BY <2>1 DEF HasChildren, checkAccountUnused, accountUnused
  <2>3. Started([op |-> "account_delete", id |-> a])
    BY <2>2, LiveRows DEF Started, Request
  <2> QED
    BY <2>1, <2>3, Starting
<1> QED
  BY <1>1, <1>2, <1>3

LEMMA TaxCreateStarts ==
    ASSUME TypeOK, ComponentsSound, NEW r \in Requests, TaxCreate(r)
    PROVE  Starts(r)
<1>1. PICK t \in Absent(taxes) :
         /\ \/ \E rate \in Rates, given \in [Sides -> Accounts] :
                 /\ mustAccountExist(given)
                 /\ Begin(r, [op |-> "tax_insert", id |-> t, rate |-> rate, parts |-> {},
                              accounts |-> given])
            \/ \E parts \in Pairs :
                 /\ resolveComponents(parts)
                 /\ Begin(r, [op |-> "tax_insert", id |-> t, rate |-> sumOfRates(taxes, parts),
                              parts |-> parts, accounts |-> NoAccounts])
         /\ UNCHANGED <<rows, drifted>>
  BY DEF TaxCreate
<1>2. t \in Taxes
  BY LiveRows
<1>3. ASSUME NEW rate \in Rates, NEW given \in [Sides -> Accounts], mustAccountExist(given),
             Begin(r, [op |-> "tax_insert", id |-> t, rate |-> rate, parts |-> {}, accounts |-> given])
      PROVE  Starts(r)
  <2> DEFINE m == [op |-> "tax_insert", id |-> t, rate |-> rate, parts |-> {}, accounts |-> given]
  <2>1. m \in Request /\ rate <= 100
    BY <1>2, CatalogAssumption DEF Request
  <2>2. accountsOf(m) \subseteq Live(accounts)
    BY <1>3 DEF accountsOf, mustAccountExist
  <2>3. Started(m)
    BY <2>1, <2>2 DEF Started
  <2> QED
    BY <1>1, <1>3, <2>3, Starting
<1>4. ASSUME NEW parts \in Pairs, resolveComponents(parts),
             Begin(r, [op |-> "tax_insert", id |-> t, rate |-> sumOfRates(taxes, parts),
                       parts |-> parts, accounts |-> NoAccounts])
      PROVE  Starts(r)
  <2> DEFINE m == [op |-> "tax_insert", id |-> t, rate |-> sumOfRates(taxes, parts),
                   parts |-> parts, accounts |-> NoAccounts]
  <2>1. parts \subseteq Live(taxes) /\ \A p \in parts : Component(p)
    BY <1>4, LiveRows DEF resolveComponents, Component
  <2>2. sumOfRates(taxes, parts) \in 0..200
    BY <2>1, SumType
  <2>3. m \in Request
    BY <1>2, <2>2 DEF Request, NoAccounts
  <2>4. accountsOf(m) \subseteq Live(accounts)
    BY DEF accountsOf, NoAccounts
  <2>5. parts # {}
    BY PairElements
  <2>6. Started(m)
    BY <2>1, <2>3, <2>4, <2>5 DEF Started, Component
  <2> QED
    BY <1>1, <1>4, <2>6, Starting
<1> QED
  BY <1>1, <1>3, <1>4

LEMMA TaxUpdateStarts ==
    ASSUME TypeOK, ComponentsSound, NEW r \in Requests, TaxUpdate(r)
    PROVE  Starts(r)
<1>1. PICK t \in Live(taxes) :
         /\ \/ \E side \in Sides, a \in Accounts : LET given == [s \in {side} |-> a] IN
                 /\ taxes[t].parts = {}
                 /\ mustAccountExist(given)
                 /\ Begin(r, [op |-> "tax_accounts", id |-> t, accounts |-> given])
            \/ \E rate \in Rates :
                 taxes[t].parts = {} /\ Begin(r, [op |-> "tax_rate", id |-> t, rate |-> rate])
            \/ \E parts \in Pairs :
                 /\ taxes[t].parts # {}
                 /\ resolveComponents(parts)
                 /\ Begin(r, [op |-> "tax_parts", id |-> t, rate |-> sumOfRates(taxes, parts),
                              parts |-> parts])
         /\ UNCHANGED <<rows, drifted>>
  BY DEF TaxUpdate
<1>2. t \in Taxes
  BY LiveRows
<1>3. ASSUME NEW side \in Sides, NEW a \in Accounts, mustAccountExist([s \in {side} |-> a]),
             Begin(r, [op |-> "tax_accounts", id |-> t, accounts |-> [s \in {side} |-> a]])
      PROVE  Starts(r)
  <2> DEFINE given == [s \in {side} |-> a]
             m == [op |-> "tax_accounts", id |-> t, accounts |-> given]
  <2>1. given \in [{side} -> Accounts]
    OBVIOUS
  <2>2. accountsOf(m) \subseteq Live(accounts)
    BY <1>3 DEF accountsOf, mustAccountExist
  <2>3. m \in [op : {"tax_accounts"}, id : Taxes,
               accounts : UNION {[{s} -> Accounts] : s \in Sides}]
    <3> HIDE DEF given
    <3> QED
      BY <1>2, <2>1
  <2>4. m \in Request
    BY <2>3 DEF Request
  <2>5. Started(m)
    <3> HIDE DEF given
    <3> QED
      BY <2>2, <2>4 DEF Started
  <2> QED
    BY <1>1, <1>3, <2>5, Starting
<1>4. ASSUME NEW rate \in Rates, taxes[t].parts = {},
             Begin(r, [op |-> "tax_rate", id |-> t, rate |-> rate])
      PROVE  Starts(r)
  <2>1. Started([op |-> "tax_rate", id |-> t, rate |-> rate])
    BY <1>2, <1>4 DEF Started, Request
  <2> QED
    BY <1>1, <1>4, <2>1, Starting
<1>5. ASSUME NEW parts \in Pairs, taxes[t].parts # {}, resolveComponents(parts),
             Begin(r, [op |-> "tax_parts", id |-> t, rate |-> sumOfRates(taxes, parts),
                       parts |-> parts])
      PROVE  Starts(r)
  <2> DEFINE m == [op |-> "tax_parts", id |-> t, rate |-> sumOfRates(taxes, parts), parts |-> parts]
  <2>1. parts \subseteq Live(taxes) /\ \A p \in parts : Component(p)
    BY <1>5, LiveRows DEF resolveComponents, Component
  <2>2. sumOfRates(taxes, parts) \in 0..200
    BY <2>1, SumType
  <2>3. m \in Request
    BY <1>2, <2>2 DEF Request
  <2>4. Started(m)
    BY <1>5, <2>1, <2>3 DEF Started, Component
  <2> QED
    BY <1>1, <1>5, <2>4, Starting
<1> QED
  BY <1>1, <1>3, <1>4, <1>5

LEMMA DeleteStarts ==
    ASSUME TypeOK, NEW r \in Requests,
           TaxDeleteCheck(r) \/ BookDeleteCheck(r) \/ BankDeleteCheck(r)
    PROVE  Starts(r)
<1>1. CASE TaxDeleteCheck(r)
  <2>1. PICK t \in Live(taxes) :
           /\ compoundsOf(t) = {}
           /\ Begin(r, [op |-> "tax_delete", id |-> t])
           /\ UNCHANGED <<rows, drifted>>
    BY <1>1 DEF TaxDeleteCheck
  <2>2. Started([op |-> "tax_delete", id |-> t])
    BY <2>1, LiveRows DEF Started, Request, compoundsOf
  <2> QED
    BY <2>1, <2>2, Starting
<1>2. CASE BookDeleteCheck(r)
  <2>1. PICK b \in Books :
           /\ Begin(r, [op |-> "book_delete", id |-> b])
           /\ UNCHANGED <<rows, drifted>>
    BY <1>2 DEF BookDeleteCheck, Live, TypeOK
  <2>2. Started([op |-> "book_delete", id |-> b])
    BY DEF Started, Request
  <2> QED
    BY <2>1, <2>2, Starting
<1>3. CASE BankDeleteCheck(r)
  <2>1. PICK b \in Live(banks) :
           /\ Begin(r, [op |-> "bank_delete", id |-> b])
           /\ UNCHANGED <<rows, drifted>>
    BY <1>3 DEF BankDeleteCheck
  <2>2. Started([op |-> "bank_delete", id |-> b])
    BY LiveRows DEF Started, Request
  <2> QED
    BY <2>1, <2>2, Starting
<1> QED
  BY <1>1, <1>2, <1>3

-----------------------------------------------------------------------------
(* The kinds of steps. *)

\* A step that leaves accounts and taxes alone, and what it has still to do is
\* about bank accounts.
Elsewhere(r) == \E m :
    /\ m \in Request /\ m.op \in {"done", "bank_reread", "bank_clear"}
    /\ requests' = [requests EXCEPT ![r] = m]
    /\ accounts' = accounts /\ taxes' = taxes
    /\ drifted \subseteq drifted'
    /\ requests[r].op = "tax_refresh" => compoundsOf(requests[r].id) \subseteq drifted'

LEMMA BanksElsewhere ==
    ASSUME TypeOK, NEW r \in Requests,
           \/ BankCreate(r) \/ BankUpdate(r) \/ BankReread(r) \/ ClearPrimary(r) \/ BankDelete(r)
    PROVE  Elsewhere(r)
<1> DEFINE reread(b) == [op |-> "bank_reread", id |-> b]
           clear(b) == [op |-> "bank_clear", id |-> b]
           done == [op |-> "done"]
<1>1. done \in Request /\ done.op = "done"
  BY DEF Request
<1>2. \A b \in Banks : /\ reread(b) \in Request /\ reread(b).op = "bank_reread"
                      /\ clear(b) \in Request /\ clear(b).op = "bank_clear"
  BY DEF Request
<1>3. /\ accounts' = accounts /\ taxes' = taxes /\ drifted' = drifted
      /\ requests[r].op # "tax_refresh"
  BY DEF BankCreate, BankUpdate, BankReread, ClearPrimary, BankDelete, rows, Begin, Serve
<1>4. \/ requests' = [requests EXCEPT ![r] = done]
      \/ \E b \in Banks : requests' = [requests EXCEPT ![r] = reread(b)]
      \/ \E b \in Banks : requests' = [requests EXCEPT ![r] = clear(b)]
  <2>1. CASE BankCreate(r)
    BY <2>1, LiveRows DEF BankCreate, Begin
  <2>2. CASE BankUpdate(r)
    BY <2>2, LiveRows DEF BankUpdate, Begin
  <2>3. CASE BankReread(r)
    BY <2>3, RequestType DEF BankReread, Continue, Answer
  <2>4. CASE ClearPrimary(r)
    BY <2>4 DEF ClearPrimary, Continue, Answer
  <2>5. CASE BankDelete(r)
    BY <2>5 DEF BankDelete, Continue, Answer
  <2> QED
    BY <2>1, <2>2, <2>3, <2>4, <2>5
<1> HIDE DEF reread, clear, done
<1> QED
  BY <1>1, <1>2, <1>3, <1>4 DEF Elsewhere

LEMMA RestElsewhere ==
    ASSUME TypeOK, NEW r \in Requests,
           BookCreate(r) \/ BookUpdate(r) \/ BookDelete(r) \/ Abort(r)
    PROVE  Elsewhere(r)
<1>1. [op |-> "done"] \in Request /\ [op |-> "done"].op = "done"
  BY DEF Request
<1>2. requests' = [requests EXCEPT ![r] = [op |-> "done"]]
  BY DEF BookCreate, BookUpdate, BookDelete, Abort, Serve, Answer, Continue
<1>3. accounts' = accounts /\ taxes' = taxes
  BY DEF BookCreate, BookUpdate, BookDelete, Abort, rows
<1>4. drifted \subseteq drifted'
  BY DEF BookCreate, BookUpdate, BookDelete, Abort
<1>5. requests[r].op = "tax_refresh" => compoundsOf(requests[r].id) \subseteq drifted'
  <2>1. CASE Abort(r)
    BY <2>1 DEF Abort
  <2>2. CASE BookCreate(r) \/ BookUpdate(r) \/ BookDelete(r)
    BY <2>2 DEF BookCreate, BookUpdate, BookDelete, Serve
  <2> QED
    BY <2>1, <2>2
<1> QED
  BY <1>1, <1>2, <1>3, <1>4, <1>5 DEF Elsewhere

\* A step begins a request, is about something else, or writes accounts or taxes.
LEMMA Steps ==
    ASSUME TypeOK, ComponentsSound, NEW r \in Requests,
           AccountRequest(r) \/ TaxRequest(r) \/ BookRequest(r) \/ BankRequest(r) \/ Abort(r)
    PROVE  \/ Starts(r) \/ Elsewhere(r)
           \/ AccountInsert(r) \/ AccountSave(r) \/ AccountDelete(r)
           \/ TaxInsert(r) \/ TaxSave(r) \/ refreshCompoundRates(r) \/ TaxDelete(r)
  BY AccountStarts, TaxCreateStarts, TaxUpdateStarts, DeleteStarts, BanksElsewhere,
     RestElsewhere DEF AccountRequest, TaxRequest, BookRequest, BankRequest

-----------------------------------------------------------------------------
(* What the writes do. *)

\* The request ends, and the other tables stay.
Ended(r) == requests' = [requests EXCEPT ![r] = [op |-> "done"]]

LEMMA AccountWritten ==
    ASSUME TypeOK, NEW r \in Requests, AccountInsert(r) \/ AccountSave(r)
    PROVE  LET m == requests[r] IN
           /\ m.op \in {"account_insert", "account_update"} /\ m.id \in Accounts
           /\ accounts' \in [Accounts -> Account]
           /\ accounts'[m.id].row = "live" /\ accounts'[m.id].parent = m.parent
           /\ \A x \in Accounts \ {m.id} : accounts'[x] = accounts[x]
           /\ Ended(r) /\ taxes' = taxes /\ drifted' = drifted
<1>1. CASE AccountInsert(r)
  <2>1. PICK a \in Accounts, p \in Accounts \cup {None} :
           /\ requests[r].op = "account_insert" /\ requests[r].id = a /\ requests[r].parent = p
           /\ accounts' = [accounts EXCEPT ![a] = [row |-> "live", system |-> FALSE, parent |-> p]]
    BY <1>1, RequestType DEF AccountInsert
  <2>2. [row |-> "live", system |-> FALSE, parent |-> p] \in Account
    BY DEF Account, Row
  <2> QED
    BY <1>1, <2>1, <2>2 DEF AccountInsert, Answer, Continue, Ended, TypeOK
<1>2. CASE AccountSave(r)
  <2>1. PICK a \in Accounts, p \in Accounts \cup {None} :
           /\ requests[r].op = "account_update" /\ requests[r].id = a /\ requests[r].parent = p
           /\ accounts[a].row = "live" /\ accounts' = [accounts EXCEPT ![a].parent = p]
    BY <1>2, RequestType DEF AccountSave
  <2> QED
    BY <1>2, <2>1 DEF AccountSave, Answer, Continue, Ended, TypeOK, Account
<1> QED
  BY <1>1, <1>2

LEMMA AccountGone ==
    ASSUME TypeOK, NEW r \in Requests, AccountDelete(r)
    PROVE  LET m == requests[r] IN
           /\ m.op = "account_delete" /\ m.id \in Accounts
           /\ accounts' \in [Accounts -> Account]
           /\ accounts'[m.id].row = "deleted" /\ accounts'[m.id].parent = accounts[m.id].parent
           /\ \A x \in Accounts \ {m.id} : accounts'[x] = accounts[x]
           /\ Ended(r) /\ taxes' = taxes /\ drifted' = drifted
<1>1. PICK a \in Accounts : /\ requests[r].op = "account_delete" /\ requests[r].id = a
                            /\ accounts' = [accounts EXCEPT ![a].row = "deleted"]
  BY RequestType DEF AccountDelete
<1> QED
  BY <1>1 DEF AccountDelete, Answer, Continue, Ended, TypeOK, Account, Row

LEMMA TaxInserted ==
    ASSUME TypeOK, NEW r \in Requests, TaxInsert(r)
    PROVE  LET m == requests[r] IN
           /\ m.op = "tax_insert" /\ m.id \in Taxes /\ taxes[m.id].row = "absent"
           /\ taxes' \in [Taxes -> Tax]
           /\ taxes'[m.id].row = "live" /\ taxes'[m.id].rate = m.rate
           /\ taxes'[m.id].parts = m.parts /\ taxes'[m.id].accounts = m.accounts
           /\ \A x \in Taxes \ {m.id} : taxes'[x] = taxes[x]
           /\ Ended(r) /\ accounts' = accounts /\ drifted' = drifted
<1>1. PICK t \in Taxes, rate \in 0..200, parts \in Pairs \cup {{}},
           given \in [Sides -> Accounts \cup {None}] :
         /\ requests[r].op = "tax_insert" /\ requests[r].id = t /\ requests[r].rate = rate
         /\ requests[r].parts = parts /\ requests[r].accounts = given
         /\ taxes[t].row = "absent"
         /\ taxes' = [taxes EXCEPT ![t] = [row |-> "live", system |-> FALSE, rate |-> rate,
                                           parts |-> parts, accounts |-> given]]
  BY RequestType DEF TaxInsert
<1>2. [row |-> "live", system |-> FALSE, rate |-> rate, parts |-> parts, accounts |-> given] \in Tax
  BY DEF Tax, Row
<1> QED
  BY <1>1, <1>2 DEF TaxInsert, Answer, Continue, Ended, TypeOK

LEMMA TaxAccountsSaved ==
    ASSUME TypeOK, NEW r \in Requests, TaxSave(r), requests[r].op = "tax_accounts"
    PROVE  LET m == requests[r] IN
           /\ m.id \in Taxes /\ taxes[m.id].row = "live"
           /\ taxes' \in [Taxes -> Tax]
           /\ \A x \in Taxes : /\ taxes'[x].row = taxes[x].row /\ taxes'[x].rate = taxes[x].rate
                               /\ taxes'[x].parts = taxes[x].parts
           /\ accountsOf(taxes'[m.id]) \subseteq accountsOf(taxes[m.id]) \cup accountsOf(m)
           /\ \A x \in Taxes \ {m.id} : taxes'[x] = taxes[x]
           /\ Ended(r) /\ accounts' = accounts /\ drifted' = drifted
<1>0. PICK side \in Sides : requests[r].accounts \in [{side} -> Accounts]
  BY RequestType
<1>1. PICK t \in Taxes, given \in [{side} -> Accounts] :
         requests[r].id = t /\ requests[r].accounts = given
  BY <1>0, RequestType
<1> DEFINE merged == [s \in Sides |-> IF s \in DOMAIN given THEN given[s] ELSE taxes[t].accounts[s]]
<1>2. /\ taxes[t].row = "live" /\ taxes' = [taxes EXCEPT ![t].accounts = merged]
      /\ Ended(r) /\ accounts' = accounts /\ drifted' = drifted
  BY <1>1 DEF TaxSave, Answer, Continue, Ended
<1>3. taxes[t].accounts \in [Sides -> Accounts \cup {None}]
  BY DEF TypeOK, Tax
<1>4. merged \in [Sides -> Accounts \cup {None}]
  BY <1>3
<1>5. \A s \in Sides : \/ merged[s] = taxes[t].accounts[s]
                       \/ s = side /\ merged[s] = given[side]
  BY <1>4
<1> HIDE DEF merged
<1>6. taxes'[t].accounts = merged
  BY <1>2 DEF TypeOK, Tax
<1>7. accountsOf(taxes'[t]) = {merged[s] : s \in Sides} \ {None}
  BY <1>4, <1>6 DEF accountsOf
<1>8. accountsOf(taxes[t]) = {taxes[t].accounts[s] : s \in Sides} \ {None}
  BY <1>3 DEF accountsOf
<1>9. accountsOf(requests[r]) = {given[side]} \ {None}
  BY <1>1 DEF accountsOf
<1>10. accountsOf(taxes'[t]) \subseteq accountsOf(taxes[t]) \cup accountsOf(requests[r])
  BY <1>5, <1>7, <1>8, <1>9
<1>11. taxes' \in [Taxes -> Tax]
  BY <1>2, <1>4 DEF TypeOK, Tax
<1>12. /\ \A x \in Taxes : /\ taxes'[x].row = taxes[x].row /\ taxes'[x].rate = taxes[x].rate
                           /\ taxes'[x].parts = taxes[x].parts
       /\ \A x \in Taxes \ {t} : taxes'[x] = taxes[x]
  BY <1>2 DEF TypeOK, Tax
<1> QED
  BY <1>1, <1>2, <1>10, <1>11, <1>12

LEMMA TaxRateSaved ==
    ASSUME TypeOK, NEW r \in Requests, TaxSave(r), requests[r].op = "tax_rate"
    PROVE  LET m == requests[r] IN
           /\ m.id \in Taxes /\ m.rate \in Rates
           /\ taxes' \in [Taxes -> Tax]
           /\ \A x \in Taxes : /\ taxes'[x].row = taxes[x].row /\ taxes'[x].parts = taxes[x].parts
                               /\ taxes'[x].accounts = taxes[x].accounts
                               /\ taxes'[x].rate = IF x = m.id THEN m.rate ELSE taxes[x].rate
           /\ requests' = [requests EXCEPT ![r] = [op |-> "tax_refresh", id |-> m.id]]
           /\ accounts' = accounts /\ drifted' = drifted \cup overtaken(m.id)
<1>1. PICK t \in Taxes, rate \in Rates : requests[r].id = t /\ requests[r].rate = rate
  BY RequestType
<1>2. /\ taxes' = [taxes EXCEPT ![t].rate = rate]
      /\ requests' = [requests EXCEPT ![r] = [op |-> "tax_refresh", id |-> t]]
      /\ accounts' = accounts /\ drifted' = drifted \cup overtaken(t)
  BY <1>1 DEF TaxSave, Continue
<1>3. rate \in 0..200
  BY CatalogAssumption
<1> QED
  BY <1>1, <1>2, <1>3 DEF TypeOK, Tax

LEMMA TaxPartsSaved ==
    ASSUME TypeOK, NEW r \in Requests, TaxSave(r), requests[r].op = "tax_parts"
    PROVE  LET m == requests[r] IN
           /\ m.id \in Taxes /\ m.parts \in Pairs
           /\ taxes' \in [Taxes -> Tax]
           /\ \A x \in Taxes : /\ taxes'[x].row = taxes[x].row
                               /\ taxes'[x].accounts = taxes[x].accounts
           /\ taxes'[m.id].rate = m.rate /\ taxes'[m.id].parts = m.parts
           /\ \A x \in Taxes \ {m.id} : taxes'[x] = taxes[x]
           /\ Ended(r) /\ accounts' = accounts /\ drifted' = drifted
<1>1. PICK t \in Taxes, rate \in 0..200, parts \in Pairs :
         requests[r].id = t /\ requests[r].rate = rate /\ requests[r].parts = parts
  BY RequestType
<1>2. /\ taxes' = [taxes EXCEPT ![t].parts = parts, ![t].rate = rate]
      /\ Ended(r) /\ accounts' = accounts /\ drifted' = drifted
  BY <1>1 DEF TaxSave, Answer, Continue, Ended
<1>3. taxes \in [Taxes -> Tax] /\ taxes[t] \in Tax
  BY DEF TypeOK
<1> DEFINE row == [taxes[t] EXCEPT !.parts = parts, !.rate = rate]
<1>4. /\ row \in Tax /\ row.parts = parts /\ row.rate = rate
      /\ row.row = taxes[t].row /\ row.accounts = taxes[t].accounts
  BY <1>3 DEF Tax
<1>5. taxes' = [taxes EXCEPT ![t] = row]
  BY <1>2, <1>3 DEF Tax
<1> HIDE DEF row
<1>6. taxes' \in [Taxes -> Tax] /\ taxes'[t] = row /\ \A x \in Taxes \ {t} : taxes'[x] = taxes[x]
  BY <1>3, <1>4, <1>5
<1>7. \A x \in Taxes : taxes'[x].row = taxes[x].row /\ taxes'[x].accounts = taxes[x].accounts
  BY <1>4, <1>6
<1> QED
  BY <1>1, <1>2, <1>4, <1>6, <1>7

LEMMA Refreshed ==
    ASSUME TypeOK, ComponentsSound, NEW r \in Requests, refreshCompoundRates(r)
    PROVE  LET m == requests[r] IN
           /\ m.op = "tax_refresh" /\ m.id \in Taxes
           /\ taxes' \in [Taxes -> Tax]
           /\ \A x \in Taxes : /\ taxes'[x].row = taxes[x].row /\ taxes'[x].parts = taxes[x].parts
                               /\ taxes'[x].accounts = taxes[x].accounts
                               /\ taxes'[x].rate = IF taxes[x].row = "live" /\ m.id \in taxes[x].parts
                                                   THEN sumOfRates(taxes, taxes[x].parts)
                                                   ELSE taxes[x].rate
           /\ Ended(r) /\ accounts' = accounts /\ drifted' = drifted
<1>1. PICK t \in Taxes : requests[r].id = t /\ requests[r].op = "tax_refresh"
  BY RequestType DEF refreshCompoundRates
<1>2. taxes' = [x \in Taxes |->
         IF x \in Live(taxes) /\ t \in taxes[x].parts
         THEN [taxes[x] EXCEPT !.rate = sumOfRates(taxes, taxes[x].parts)] ELSE taxes[x]]
  BY <1>1 DEF refreshCompoundRates
<1>4. ASSUME NEW x \in Taxes
      PROVE  /\ taxes'[x] \in Tax
             /\ taxes'[x].row = taxes[x].row /\ taxes'[x].parts = taxes[x].parts
             /\ taxes'[x].accounts = taxes[x].accounts
             /\ taxes'[x].rate = IF taxes[x].row = "live" /\ t \in taxes[x].parts
                                 THEN sumOfRates(taxes, taxes[x].parts)
                                 ELSE taxes[x].rate
  <2>1. taxes[x] \in Tax /\ (x \in Live(taxes) <=> taxes[x].row = "live")
    BY LiveRows DEF TypeOK
  <2>2. CASE taxes[x].row = "live" /\ t \in taxes[x].parts
    <3>1. taxes[x].parts \in Pairs /\ \A p \in taxes[x].parts : Component(p)
      BY <2>1, <2>2 DEF Tax, ComponentsSound
    <3>2. sumOfRates(taxes, taxes[x].parts) \in 0..200
      BY <3>1, SumType
    <3>3. PICK n \in 0..200 : n = sumOfRates(taxes, taxes[x].parts)
      BY <3>2, Zenon
    <3>4. taxes'[x] = [taxes[x] EXCEPT !.rate = n]
      BY <1>2, <2>1, <2>2, <3>3
    <3>5. /\ taxes'[x] \in Tax
          /\ taxes'[x].row = taxes[x].row /\ taxes'[x].parts = taxes[x].parts
          /\ taxes'[x].accounts = taxes[x].accounts
          /\ taxes'[x].rate = n
      BY <2>1, <3>4 DEF Tax
    <3> QED
      BY <2>2, <3>3, <3>5, Zenon
  <2>3. CASE ~(taxes[x].row = "live" /\ t \in taxes[x].parts)
    <3>1. taxes'[x] = taxes[x]
      BY <1>2, <2>1, <2>3
    <3> QED
      BY <2>1, <2>3, <3>1, Zenon
  <2> QED
    BY <2>2, <2>3
<1>5. taxes' \in [Taxes -> Tax]
  BY <1>2, <1>4
<1> QED
  BY <1>1, <1>4, <1>5 DEF refreshCompoundRates, Answer, Continue, Ended

LEMMA TaxGone ==
    ASSUME TypeOK, NEW r \in Requests, TaxDelete(r)
    PROVE  LET m == requests[r] IN
           /\ m.op = "tax_delete" /\ m.id \in Taxes
           /\ taxes' \in [Taxes -> Tax]
           /\ \A x \in Taxes : /\ taxes'[x].rate = taxes[x].rate /\ taxes'[x].parts = taxes[x].parts
                               /\ taxes'[x].accounts = taxes[x].accounts
                               /\ taxes'[x].row = IF x = m.id THEN "deleted" ELSE taxes[x].row
           /\ Ended(r) /\ accounts' = accounts /\ drifted' = drifted
<1>1. PICK t \in Taxes : /\ requests[r].op = "tax_delete" /\ requests[r].id = t
                         /\ taxes' = [taxes EXCEPT ![t].row = "deleted"]
  BY RequestType DEF TaxDelete
<1> QED
  BY <1>1 DEF TaxDelete, Answer, Continue, Ended, TypeOK, Tax, Row

-----------------------------------------------------------------------------
(* What a step may do to references. *)

\* Rows disappear only when their deletion is carried out, and a row names what
\* it named before or what the request was about to write.
AccountEffect(r) ==
    /\ accounts' \in [Accounts -> Account]
    /\ \A a \in Live(accounts) :
          \/ accounts'[a].row = "live"
          \/ (requests[r].op = "account_delete" /\ requests[r].id = a)
    /\ \A a \in Accounts : accounts'[a].row = "live" =>
          \/ (accounts[a].row = "live" /\ accounts'[a].parent = accounts[a].parent)
          \/ accounts'[a].parent \in accountNames(r) \cup {None}

TaxEffect(r) ==
    /\ taxes' \in [Taxes -> Tax]
    /\ \A t \in Live(taxes) :
          \/ taxes'[t].row = "live"
          \/ (requests[r].op = "tax_delete" /\ requests[r].id = t)
    /\ \A t \in Taxes : taxes'[t].row = "live" =>
          /\ \A n \in accountsOf(taxes'[t]) :
                \/ n \in accountNames(r)
                \/ (taxes[t].row = "live" /\ n \in accountsOf(taxes[t]))
          /\ \A p \in taxes'[t].parts :
                \/ p \in taxNames(r)
                \/ (taxes[t].row = "live" /\ p \in taxes[t].parts)

\* A request that begins names and deletes what it has checked, any other step
\* leaves its request with nothing to name or delete.
RequestEffect(r) == \E m \in Request :
    /\ requests' = [requests EXCEPT ![r] = m]
    /\ \/ Started(m) /\ UNCHANGED <<rows, drifted>>
       \/ m.op \in {"done", "tax_refresh", "bank_reread", "bank_clear"}

LEMMA AccountsUnchanged ==
    ASSUME TypeOK, accounts' = accounts
    PROVE  \A r \in Requests : AccountEffect(r)
  BY LiveRows DEF TypeOK, AccountEffect

LEMMA TaxesUnchanged ==
    ASSUME TypeOK, taxes' = taxes
    PROVE  \A r \in Requests : TaxEffect(r)
  BY LiveRows DEF TypeOK, TaxEffect

LEMMA AccountEffects ==
    ASSUME TypeOK, NEW r \in Requests,
           AccountInsert(r) \/ AccountSave(r) \/ AccountDelete(r)
    PROVE  AccountEffect(r)
<1>1. CASE AccountInsert(r) \/ AccountSave(r)
  <2>1. requests[r].parent \in accountNames(r) \cup {None}
    BY <1>1, AccountWritten DEF accountNames
  <2> QED
    BY <1>1, <2>1, AccountWritten, LiveRows DEF AccountEffect
<1>2. CASE AccountDelete(r)
  BY <1>2, AccountGone, LiveRows DEF AccountEffect
<1> QED
  BY <1>1, <1>2

LEMMA TaxEffects ==
    ASSUME TypeOK, ComponentsSound, NEW r \in Requests,
           TaxInsert(r) \/ TaxSave(r) \/ refreshCompoundRates(r) \/ TaxDelete(r)
    PROVE  TaxEffect(r)
<1>1. CASE TaxInsert(r)
  <2>1. /\ accountNames(r) = accountsOf(requests[r]) /\ taxNames(r) = requests[r].parts
        /\ requests[r].op # "tax_delete"
    BY <1>1, TaxInserted DEF accountNames, taxNames
  <2>2. /\ taxes'[requests[r].id].accounts = requests[r].accounts
        /\ taxes'[requests[r].id].parts = requests[r].parts
    BY <1>1, TaxInserted
  <2>3. accountsOf(taxes'[requests[r].id]) = accountsOf(requests[r])
    BY <2>2 DEF accountsOf
  <2>4. /\ requests[r].id \in Taxes /\ taxes[requests[r].id].row = "absent"
        /\ taxes'[requests[r].id].row = "live"
        /\ \A x \in Taxes \ {requests[r].id} : taxes'[x] = taxes[x]
        /\ taxes' \in [Taxes -> Tax]
    BY <1>1, TaxInserted
  <2>5. \A t \in Live(taxes) : taxes'[t].row = "live"
    BY <2>4, LiveRows
  <2>6. ASSUME NEW t \in Taxes, taxes'[t].row = "live"
        PROVE  /\ \A n \in accountsOf(taxes'[t]) :
                     \/ n \in accountNames(r)
                     \/ (taxes[t].row = "live" /\ n \in accountsOf(taxes[t]))
               /\ \A p \in taxes'[t].parts :
                     \/ p \in taxNames(r)
                     \/ (taxes[t].row = "live" /\ p \in taxes[t].parts)
    BY <2>1, <2>2, <2>3, <2>4, <2>6
  <2> QED
    BY <2>4, <2>5, <2>6 DEF TaxEffect
<1>2. CASE TaxSave(r) /\ requests[r].op = "tax_accounts"
  <2>1. accountNames(r) = accountsOf(requests[r])
    BY <1>2 DEF accountNames
  <2> QED
    BY <1>2, <2>1, TaxAccountsSaved, LiveRows DEF TaxEffect
<1>3. CASE TaxSave(r) /\ requests[r].op = "tax_rate"
  <2>1. \A t \in Taxes : accountsOf(taxes'[t]) = accountsOf(taxes[t])
    BY <1>3, TaxRateSaved DEF accountsOf
  <2> QED
    BY <1>3, <2>1, TaxRateSaved, LiveRows DEF TaxEffect
<1>4. CASE TaxSave(r) /\ requests[r].op = "tax_parts"
  <2>1. \A t \in Taxes : accountsOf(taxes'[t]) = accountsOf(taxes[t])
    BY <1>4, TaxPartsSaved DEF accountsOf
  <2>2. taxNames(r) = requests[r].parts
    BY <1>4 DEF taxNames
  <2> QED
    BY <1>4, <2>1, <2>2, TaxPartsSaved, LiveRows DEF TaxEffect
<1>5. CASE refreshCompoundRates(r)
  <2>1. \A t \in Taxes : accountsOf(taxes'[t]) = accountsOf(taxes[t])
    BY <1>5, Refreshed DEF accountsOf
  <2>2. taxes' \in [Taxes -> Tax]
    BY <1>5, Refreshed
  <2>3. \A t \in Taxes : taxes'[t].row = taxes[t].row /\ taxes'[t].parts = taxes[t].parts
    BY <1>5, Refreshed
  <2> QED
    BY <2>1, <2>2, <2>3, LiveRows DEF TaxEffect
<1>6. CASE TaxDelete(r)
  <2>1. \A t \in Taxes : accountsOf(taxes'[t]) = accountsOf(taxes[t])
    BY <1>6, TaxGone DEF accountsOf
  <2> QED
    BY <1>6, <2>1, TaxGone, LiveRows DEF TaxEffect
<1> QED
  BY <1>1, <1>2, <1>3, <1>4, <1>5, <1>6 DEF TaxSave

LEMMA RequestEffects ==
    ASSUME TypeOK, ComponentsSound, NEW r \in Requests,
           \/ Starts(r) \/ Elsewhere(r)
           \/ AccountInsert(r) \/ AccountSave(r) \/ AccountDelete(r)
           \/ TaxInsert(r) \/ TaxSave(r) \/ refreshCompoundRates(r) \/ TaxDelete(r)
    PROVE  RequestEffect(r)
<1>1. CASE Starts(r)
  BY <1>1 DEF Starts, Started, RequestEffect
<1>2. CASE Elsewhere(r)
  BY <1>2 DEF Elsewhere, RequestEffect
<1>3. [op |-> "done"] \in Request /\ [op |-> "done"].op = "done"
  BY DEF Request
<1>4. CASE \/ AccountInsert(r) \/ AccountSave(r) \/ AccountDelete(r) \/ TaxInsert(r)
           \/ refreshCompoundRates(r) \/ TaxDelete(r)
  <2>1. Ended(r)
    BY <1>4, AccountWritten, AccountGone, TaxInserted, Refreshed, TaxGone
  <2> QED
    BY <1>3, <2>1 DEF Ended, RequestEffect
<1>5. CASE TaxSave(r)
  <2>1. CASE requests[r].op = "tax_rate"
    <3> DEFINE m == [op |-> "tax_refresh", id |-> requests[r].id]
    <3>1. requests[r].id \in Taxes
      BY <1>5, <2>1, TaxRateSaved
    <3>2. m \in Request /\ m.op = "tax_refresh"
      BY <3>1 DEF Request
    <3>3. requests' = [requests EXCEPT ![r] = m]
      BY <1>5, <2>1, TaxRateSaved
    <3> HIDE DEF m
    <3> QED
      BY <3>2, <3>3 DEF RequestEffect
  <2>2. CASE requests[r].op # "tax_rate"
    <3>1. Ended(r)
      BY <1>5, <2>2, TaxAccountsSaved, TaxPartsSaved DEF TaxSave
    <3> QED
      BY <1>3, <3>1 DEF Ended, RequestEffect
  <2> QED
    BY <2>1, <2>2
<1> QED
  BY <1>1, <1>2, <1>4, <1>5

\* Every step has these effects.
LEMMA Effects ==
    ASSUME TypeOK, ComponentsSound, NEW r \in Requests,
           \/ Starts(r) \/ Elsewhere(r)
           \/ AccountInsert(r) \/ AccountSave(r) \/ AccountDelete(r)
           \/ TaxInsert(r) \/ TaxSave(r) \/ refreshCompoundRates(r) \/ TaxDelete(r)
    PROVE  AccountEffect(r) /\ TaxEffect(r) /\ RequestEffect(r)
<1>1. RequestEffect(r)
  BY RequestEffects
<1>2. CASE Starts(r) \/ Elsewhere(r)
  <2>1. accounts' = accounts /\ taxes' = taxes
    BY <1>2 DEF Starts, Elsewhere, rows
  <2> QED
    BY <1>1, <2>1, AccountsUnchanged, TaxesUnchanged
<1>3. CASE AccountInsert(r) \/ AccountSave(r) \/ AccountDelete(r)
  <2>1. taxes' = taxes
    BY <1>3, AccountWritten, AccountGone
  <2> QED
    BY <1>1, <1>3, <2>1, AccountEffects, TaxesUnchanged
<1>4. CASE TaxInsert(r) \/ TaxSave(r) \/ refreshCompoundRates(r) \/ TaxDelete(r)
  <2>1. accounts' = accounts
    BY <1>4 DEF TaxInsert, TaxSave, refreshCompoundRates, TaxDelete
  <2> QED
    BY <1>1, <1>4, <2>1, TaxEffects, AccountsUnchanged
<1> QED
  BY <1>2, <1>3, <1>4

\* The request of the step, and the others.
LEMMA RequestAfter ==
    ASSUME TypeOK, NEW r \in Requests, RequestEffect(r)
    PROVE  /\ requests' \in [Requests -> Request]
           /\ \A q \in Requests \ {r} : requests'[q] = requests[q]
           /\ \/ Started(requests'[r]) /\ UNCHANGED <<rows, drifted>>
              \/ requests'[r].op \in {"done", "tax_refresh", "bank_reread", "bank_clear"}
<1>1. PICK m \in Request :
         /\ requests' = [requests EXCEPT ![r] = m]
         /\ \/ Started(m) /\ UNCHANGED <<rows, drifted>>
            \/ m.op \in {"done", "tax_refresh", "bank_reread", "bank_clear"}
  BY DEF RequestEffect
<1>2. requests \in [Requests -> Request]
  BY DEF TypeOK
<1>3. requests'[r] = m
  BY <1>1, <1>2
<1> QED
  BY <1>1, <1>2, <1>3

\* What a request names after the step.
LEMMA NamesAfter ==
    ASSUME TypeOK, NEW r \in Requests, RequestEffect(r), NEW q \in Requests
    PROVE  \/ /\ q # r /\ requests'[q] = requests[q]
              /\ accountNames(q)' = accountNames(q) /\ taxNames(q)' = taxNames(q)
           \/ /\ q = r /\ Started(requests'[r]) /\ UNCHANGED <<rows, drifted>>
              /\ accountNames(r)' \subseteq Live(accounts) /\ taxNames(r)' \subseteq Live(taxes)
           \/ /\ q = r /\ accountNames(r)' = {} /\ taxNames(r)' = {}
              /\ requests'[r].op \in {"done", "tax_refresh", "bank_reread", "bank_clear"}
<1>1. CASE q # r
  <2>1. requests'[q] = requests[q]
    BY <1>1, RequestAfter
  <2> QED
    BY <1>1, <2>1 DEF accountNames, taxNames
<1>2. CASE q = r /\ Started(requests'[r]) /\ UNCHANGED <<rows, drifted>>
  <2>1. accountNames(r)' \subseteq Live(accounts)
    BY <1>2 DEF accountNames, Started
  <2>2. taxNames(r)' \subseteq Live(taxes)
    BY <1>2 DEF taxNames, Started
  <2> QED
    BY <1>2, <2>1, <2>2
<1>3. CASE /\ q = r
           /\ requests'[r].op \in {"done", "tax_refresh", "bank_reread", "bank_clear"}
  BY <1>3 DEF accountNames, taxNames
<1> QED
  BY <1>1, <1>2, <1>3, RequestAfter

-----------------------------------------------------------------------------
(* References stay live. *)

\* What one request names and another one deletes is in raced.
LEMMA Overlap ==
    ASSUME overlaps \subseteq raced, NEW r \in Requests, NEW q \in Requests,
           requests[q].op \in {"account_delete", "tax_delete"},
           requests[q].id \in accountNames(r) \cup taxNames(r)
    PROVE  requests[q].id \in raced
<1>1. requests[q].id \in names(r)
  BY DEF names, accountNames, taxNames
<1>2. requests[q].id \in deletes(q)
  BY DEF deletes
<1> QED
  BY <1>1, <1>2 DEF overlaps

LEMMA RacedGrows ==
    ASSUME Next
    PROVE  raced \subseteq raced' /\ overlaps' \subseteq raced'
  BY DEF Next

LEMMA NamesLiveStep ==
    ASSUME TypeOK, overlaps \subseteq raced, NamesLive, raced \subseteq raced', NEW r \in Requests,
           AccountEffect(r), TaxEffect(r), RequestEffect(r)
    PROVE  NamesLive'
<1> SUFFICES ASSUME NEW q \in Requests
             PROVE  /\ accountNames(q)' \subseteq Live(accounts)' \cup raced'
                    /\ taxNames(q)' \subseteq Live(taxes)' \cup raced'
  BY DEF NamesLive
<1>1. /\ Live(accounts)' = {a \in Accounts : accounts'[a].row = "live"}
      /\ Live(taxes)' = {t \in Taxes : taxes'[t].row = "live"}
  BY DEF AccountEffect, TaxEffect, Live
<1>2. CASE q = r /\ UNCHANGED rows /\ accountNames(r)' \subseteq Live(accounts)
             /\ taxNames(r)' \subseteq Live(taxes)
  BY <1>2 DEF rows, Live
<1>3. CASE q = r /\ accountNames(r)' = {} /\ taxNames(r)' = {}
  BY <1>3
<1>4. CASE q # r /\ accountNames(q)' = accountNames(q) /\ taxNames(q)' = taxNames(q)
  <2>1. ASSUME NEW a \in accountNames(q) PROVE a \in Live(accounts)' \cup raced'
    <3>1. a \in Live(accounts) \/ a \in raced
      BY <2>1 DEF NamesLive
    <3>2. CASE a \in Live(accounts)
      BY <1>1, <2>1, <3>2, Overlap, LiveRows DEF AccountEffect
    <3> QED
      BY <3>1, <3>2
  <2>2. ASSUME NEW t \in taxNames(q) PROVE t \in Live(taxes)' \cup raced'
    <3>1. t \in Live(taxes) \/ t \in raced
      BY <2>2 DEF NamesLive
    <3>2. CASE t \in Live(taxes)
      BY <1>1, <2>2, <3>2, Overlap, LiveRows DEF TaxEffect
    <3> QED
      BY <3>1, <3>2
  <2> QED
    BY <1>4, <2>1, <2>2
<1> QED
  BY <1>2, <1>3, <1>4, NamesAfter

LEMMA MasterDataLiveStep ==
    ASSUME TypeOK, NamesLive, DeletesUnused, MasterDataLive, raced \subseteq raced', NEW r \in Requests,
           AccountEffect(r), TaxEffect(r)
    PROVE  MasterDataLive'
<1>1. /\ Live(accounts)' = {a \in Accounts : accounts'[a].row = "live"}
      /\ Live(taxes)' = {t \in Taxes : taxes'[t].row = "live"}
  BY DEF AccountEffect, TaxEffect, Live
<1>2. ASSUME NEW a \in Live(accounts), requests[r].op = "account_delete", requests[r].id = a
      PROVE  a \in raced \/ accountUnused(a)
  BY <1>2 DEF DeletesUnused
<1>3. ASSUME requests[r].op \in {"account_delete", "tax_delete"}
      PROVE  accountNames(r) = {} /\ taxNames(r) = {}
  BY <1>3 DEF accountNames, taxNames
\* What the request of the step names is still live.
<1>4. accountNames(r) \subseteq Live(accounts)' \cup raced'
  BY <1>1, <1>3, LiveRows DEF NamesLive, AccountEffect
<1>5. taxNames(r) \subseteq Live(taxes)' \cup raced'
  BY <1>1, <1>3, LiveRows DEF NamesLive, TaxEffect
<1>6. ASSUME NEW a \in Live(accounts)'
      PROVE  accounts'[a].parent \in Live(accounts)' \cup raced' \cup {None}
  <2>1. CASE accounts'[a].parent \in accountNames(r) \cup {None}
    BY <1>4, <2>1
  <2>2. CASE accounts[a].row = "live" /\ accounts'[a].parent = accounts[a].parent
    <3>1. PICK p : p = accounts[a].parent
      OBVIOUS
    <3>2. a \in Live(accounts) /\ p \in Live(accounts) \cup raced \cup {None}
      BY <1>1, <1>6, <2>2, <3>1, LiveRows DEF MasterDataLive
    <3>3. CASE p \in Live(accounts)
      <4>1. accounts'[p].row = "live" \/ p \in raced
        BY <1>2, <3>1, <3>2, <3>3 DEF AccountEffect, accountUnused
      <4> QED
        BY <1>1, <2>2, <3>1, <3>3, <4>1, LiveRows
    <3> QED
      BY <2>2, <3>1, <3>2, <3>3
  <2> QED
    BY <1>1, <1>6, <2>1, <2>2 DEF AccountEffect
<1>7. ASSUME NEW t \in Live(taxes)', NEW n \in accountsOf(taxes'[t])
      PROVE  n \in Live(accounts)' \cup raced'
  <2>1. CASE n \in accountNames(r)
    BY <1>4, <2>1
  <2>2. CASE taxes[t].row = "live" /\ n \in accountsOf(taxes[t])
    <3>1. t \in Live(taxes) /\ n \in Live(accounts) \cup raced
      BY <1>1, <1>7, <2>2, LiveRows DEF MasterDataLive
    <3>2. CASE n \in Live(accounts)
      <4>1. accounts'[n].row = "live" \/ n \in raced
        BY <1>2, <2>2, <3>1, <3>2 DEF AccountEffect, accountUnused
      <4> QED
        BY <1>1, <3>2, <4>1, LiveRows
    <3> QED
      BY <3>1, <3>2
  <2> QED
    BY <1>1, <1>7, <2>1, <2>2 DEF TaxEffect
<1>8. ASSUME NEW t \in Live(taxes)', NEW p \in taxes'[t].parts
      PROVE  p \in Live(taxes)' \cup raced'
  <2>1. CASE p \in taxNames(r)
    BY <1>5, <2>1
  <2>2. CASE taxes[t].row = "live" /\ p \in taxes[t].parts
    <3>1. t \in Live(taxes) /\ p \in Live(taxes) \cup raced
      BY <1>1, <1>8, <2>2, LiveRows DEF MasterDataLive
    <3>2. CASE p \in Live(taxes)
      <4>1. taxes'[p].row = "live" \/ p \in raced
        BY <2>2, <3>1, <3>2 DEF TaxEffect, DeletesUnused
      <4> QED
        BY <1>1, <3>2, <4>1, LiveRows
    <3> QED
      BY <3>1, <3>2
  <2> QED
    BY <1>1, <1>8, <2>1, <2>2 DEF TaxEffect
<1> QED
  BY <1>6, <1>7, <1>8 DEF MasterDataLive

LEMMA DeletesUnusedStep ==
    ASSUME TypeOK, overlaps \subseteq raced, DeletesUnused, raced \subseteq raced', NEW r \in Requests,
           AccountEffect(r), TaxEffect(r), RequestEffect(r)
    PROVE  DeletesUnused'
<1>1. /\ Live(accounts)' = {a \in Accounts : accounts'[a].row = "live"}
      /\ Live(taxes)' = {t \in Taxes : taxes'[t].row = "live"}
  BY DEF AccountEffect, TaxEffect, Live
<1>2. ASSUME NEW q \in Requests, requests'[q].op = "account_delete", NEW a, requests'[q].id = a
      PROVE  a \in raced' \/ accountUnused(a)'
  <2>1. CASE q = r
    <3>1. Started(requests'[r]) /\ UNCHANGED rows
      BY <1>2, <2>1, NamesAfter
    <3> QED
      BY <1>2, <2>1, <3>1 DEF Started, rows, accountUnused, Live
  <2>2. CASE q # r
    <3>1. requests[q].op = "account_delete" /\ requests[q].id = a
      BY <1>2, <2>2, NamesAfter
    <3>2. a \in Accounts /\ a # None
      BY <3>1, RequestType, CatalogAssumption
    <3>3. a \in raced \/ accountUnused(a)
      BY <3>1 DEF DeletesUnused
    <3>4. a \in raced \/ a \notin accountNames(r)
      BY <3>1, Overlap
    <3>5. ASSUME accountUnused(a), a \notin accountNames(r)
          PROVE  accountUnused(a)'
      <4>1. \A x \in Live(accounts)' : accounts'[x].parent # a
        BY <1>1, <3>2, <3>5, LiveRows DEF accountUnused, AccountEffect
      <4>2. \A t \in Live(taxes)' : a \notin accountsOf(taxes'[t])
        BY <1>1, <3>5, LiveRows DEF accountUnused, TaxEffect
      <4> QED
        BY <4>1, <4>2 DEF accountUnused
    <3> QED
      BY <3>3, <3>4, <3>5
  <2> QED
    BY <2>1, <2>2
<1>3. ASSUME NEW q \in Requests, requests'[q].op = "tax_delete", NEW t, requests'[q].id = t
      PROVE  t \in raced' \/ \A c \in Live(taxes)' : t \notin taxes'[c].parts
  <2>1. CASE q = r
    <3>1. Started(requests'[r]) /\ UNCHANGED rows
      BY <1>3, <2>1, NamesAfter
    <3> QED
      BY <1>3, <2>1, <3>1 DEF Started, rows, Live
  <2>2. CASE q # r
    <3>1. requests[q].op = "tax_delete" /\ requests[q].id = t
      BY <1>3, <2>2, NamesAfter
    <3>2. t \in raced \/ \A c \in Live(taxes) : t \notin taxes[c].parts
      BY <3>1 DEF DeletesUnused
    <3>3. t \in raced \/ t \notin taxNames(r)
      BY <3>1, Overlap
    <3> QED
      BY <1>1, <3>2, <3>3, LiveRows DEF TaxEffect
  <2> QED
    BY <2>1, <2>2
<1> QED
  BY <1>2, <1>3 DEF DeletesUnused

-----------------------------------------------------------------------------
(* Single and compound taxes. *)

\* A row that was made stays made, single or compound.
KindsEffect(r) ==
    /\ \A t \in Taxes : taxes[t].row # "absent" =>
          taxes'[t].row # "absent" /\ (taxes'[t].parts = {} <=> taxes[t].parts = {})
    /\ \A t \in Taxes : \A p \in taxes'[t].parts : p \in taxes[t].parts \cup taxNames(r)
    /\ \A t \in Taxes : taxes'[t].parts = {} => taxes'[t].rate <= 100

LEMMA KindsEffects ==
    ASSUME TypeOK, ComponentsSound, NEW r \in Requests,
           \/ taxes' = taxes
           \/ TaxInsert(r) \/ TaxSave(r) \/ refreshCompoundRates(r) \/ TaxDelete(r)
    PROVE  KindsEffect(r)
<1>1. CASE taxes' = taxes
  BY <1>1 DEF KindsEffect, ComponentsSound
<1>2. CASE TaxInsert(r)
  <2>1. /\ taxNames(r) = requests[r].parts
        /\ requests[r].parts = {} => requests[r].rate <= 100
    BY <1>2, TaxInserted DEF taxNames, ComponentsSound, ChangesSound
  <2>2. PICK t \in Taxes :
           /\ requests[r].id = t /\ taxes[t].row = "absent"
           /\ taxes'[t].parts = requests[r].parts /\ taxes'[t].rate = requests[r].rate
           /\ \A x \in Taxes \ {t} : taxes'[x] = taxes[x]
    BY <1>2, TaxInserted
  <2> QED
    BY <2>1, <2>2 DEF KindsEffect, ComponentsSound
<1>3. CASE TaxSave(r) /\ requests[r].op = "tax_accounts"
  BY <1>3, TaxAccountsSaved DEF KindsEffect, ComponentsSound
<1>4. CASE TaxSave(r) /\ requests[r].op = "tax_rate"
  <2>1. PICK t \in Taxes, rate \in Rates :
           \A x \in Taxes : /\ taxes'[x].row = taxes[x].row /\ taxes'[x].parts = taxes[x].parts
                            /\ taxes'[x].rate = IF x = t THEN rate ELSE taxes[x].rate
    BY <1>4, TaxRateSaved
  <2>2. rate <= 100
    BY CatalogAssumption
  <2> QED
    BY <2>1, <2>2 DEF KindsEffect, ComponentsSound
<1>5. CASE TaxSave(r) /\ requests[r].op = "tax_parts"
  <2>1. PICK t \in Taxes, parts \in Pairs :
           /\ requests[r].id = t /\ requests[r].parts = parts
           /\ taxes'[t].row = taxes[t].row /\ taxes'[t].parts = parts
           /\ \A x \in Taxes \ {t} : taxes'[x] = taxes[x]
    BY <1>5, TaxPartsSaved
  <2>2. taxNames(r) = parts /\ parts # {}
    BY <1>5, <2>1, PairElements DEF taxNames
  <2>3. taxes[t].parts # {}
    BY <1>5, <2>1 DEF ComponentsSound, ChangesSound
  <2> QED
    BY <2>1, <2>2, <2>3 DEF KindsEffect, ComponentsSound
<1>6. CASE refreshCompoundRates(r)
  <2>1. PICK t \in Taxes :
           \A x \in Taxes : /\ taxes'[x].row = taxes[x].row /\ taxes'[x].parts = taxes[x].parts
                            /\ taxes'[x].rate = IF taxes[x].row = "live" /\ t \in taxes[x].parts
                                                THEN sumOfRates(taxes, taxes[x].parts)
                                                ELSE taxes[x].rate
    BY <1>6, Refreshed, Zenon
  <2>2. \A x \in Taxes : taxes'[x].parts = {} => taxes'[x].rate = taxes[x].rate
    BY <2>1
  <2> QED
    BY <2>1, <2>2 DEF KindsEffect, ComponentsSound
<1>7. CASE TaxDelete(r)
  BY <1>7, TaxGone DEF KindsEffect, ComponentsSound
<1> QED
  BY <1>1, <1>2, <1>3, <1>4, <1>5, <1>6, <1>7 DEF TaxSave

LEMMA ComponentsInTaxes ==
    ASSUME TypeOK
    PROVE  /\ \A t \in Taxes : taxes[t].parts \subseteq Taxes
           /\ \A r \in Requests : taxNames(r) \subseteq Taxes
<1>1. \A P \in Pairs \cup {{}} : P \subseteq Taxes
  BY PairElements
<1>2. \A t \in Taxes : taxes[t].parts \in Pairs \cup {{}}
  BY DEF TypeOK, Tax
<1>3. \A r \in Requests : taxNames(r) \in Pairs \cup {{}}
  BY RequestType DEF taxNames
<1> QED
  BY <1>1, <1>2, <1>3

LEMMA ComponentsSoundStep ==
    ASSUME TypeOK, ComponentsSound, NEW r \in Requests, KindsEffect(r), RequestEffect(r)
    PROVE  ComponentsSound'
<1>1. \A p \in Taxes : Component(p) => Component(p)'
  BY DEF Component, KindsEffect
<1>2. ASSUME NEW t \in Taxes, NEW p \in taxes'[t].parts
      PROVE  Component(p)'
  <2>1. \A x \in taxNames(r) : Component(x)
    BY DEF ComponentsSound, ChangesSound
  <2>2. p \in taxes[t].parts \cup taxNames(r)
    BY <1>2 DEF KindsEffect
  <2>3. Component(p) /\ p \in Taxes
    BY <2>1, <2>2, ComponentsInTaxes DEF ComponentsSound
  <2> QED
    BY <1>1, <2>3
<1>3. \A t \in Taxes : taxes'[t].parts = {} => taxes'[t].rate <= 100
  BY DEF KindsEffect
<1>4. ASSUME NEW q \in Requests, q # r
      PROVE  ChangesSound(q)'
  <2>1. requests'[q] = requests[q] /\ taxNames(q)' = taxNames(q)
    BY <1>4, NamesAfter
  <2>2. ChangesSound(q)
    BY DEF ComponentsSound
  <2>3. \A p \in taxNames(q) : Component(p)'
    BY <1>1, <2>2, ComponentsInTaxes DEF ChangesSound
  <2>4. requests[q].op \in {"tax_rate", "tax_parts"} => requests[q].id \in Taxes
    BY RequestType
  <2>5. requests[q].op = "tax_rate" => Component(requests[q].id)
    BY <2>2 DEF ChangesSound
  <2>6. requests[q].op = "tax_rate" =>
           taxes'[requests[q].id].row # "absent" /\ taxes'[requests[q].id].parts = {}
    BY <2>4, <2>5 DEF Component, KindsEffect
  <2>7. requests[q].op = "tax_parts" =>
           taxes'[requests[q].id].row # "absent" /\ taxes'[requests[q].id].parts # {}
    BY <2>2, <2>4 DEF ChangesSound, KindsEffect
  <2>8. requests[q].op = "tax_insert" /\ requests[q].parts = {} => requests[q].rate <= 100
    BY <2>2 DEF ChangesSound
  <2> QED
    BY <2>1, <2>3, <2>6, <2>7, <2>8 DEF ChangesSound, Component
<1>5. ChangesSound(r)'
  <2>1. CASE Started(requests'[r]) /\ UNCHANGED <<rows, drifted>>
    <3>1. taxes' = taxes
      BY <2>1 DEF rows
    <3>2. \A p \in taxNames(r)' : taxes[p].row = "live" /\ taxes[p].parts = {}
      BY <2>1, LiveRows DEF taxNames, Started
    <3>3. \A t \in Live(taxes) : taxes[t].row = "live"
      BY LiveRows
    <3>4. LET m == requests'[r] IN
          /\ m.op = "tax_insert" /\ m.parts = {} => m.rate <= 100
          /\ m.op = "tax_rate" => taxes[m.id].row = "live" /\ taxes[m.id].parts = {}
          /\ m.op = "tax_parts" => taxes[m.id].row = "live" /\ taxes[m.id].parts # {}
      BY <2>1, <3>3 DEF Started
    <3> QED
      BY <3>1, <3>2, <3>4 DEF Component, ChangesSound
  <2>2. CASE requests'[r].op \in {"done", "tax_refresh", "bank_reread", "bank_clear"}
    BY <2>2 DEF taxNames, ChangesSound
  <2> QED
    BY <2>1, <2>2, RequestAfter
<1>6. \A q \in Requests : ChangesSound(q)'
  BY <1>4, <1>5
<1> QED
  BY <1>2, <1>3, <1>6 DEF ComponentsSound

-----------------------------------------------------------------------------
(* What a step may do to sums. *)

\* A component gets another rate: its refresh is still to come, and whoever was
\* about to write a sum with the old rate is in drifted.
RateChange(r, p) ==
    /\ requests[r].op = "tax_rate" /\ requests[r].id = p
    /\ requests'[r].op = "tax_refresh" /\ requests'[r].id = p
    /\ overtaken(p) \subseteq drifted'

\* The sum of two components stays, or one of them is changed or deleted.
SumEffect(r, P) ==
    \/ sumOfRates(taxes', P) = sumOfRates(taxes, P)
    \/ \E p \in P : RateChange(r, p)
    \/ \E p \in P : requests[r].op = "tax_delete" /\ requests[r].id = p

LEMMA CountedAlike ==
    ASSUME TypeOK, NEW r \in Requests, NEW P \in Pairs,
           \A p \in P : taxes'[p].row = taxes[p].row /\ taxes'[p].rate = taxes[p].rate
    PROVE  SumEffect(r, P)
<1>1. \A p \in P : p \in Taxes
  BY PairElements
<1>2. \A p \in P : counted(taxes[p]) \in Int
  <2>1. \A t \in Taxes : taxes[t].rate \in Int
    BY DEF TypeOK, Tax
  <2> QED
    BY <1>1, <2>1 DEF counted
<1>3. \A p \in P : counted(taxes'[p]) = counted(taxes[p])
  BY DEF counted
<1>4. sumOfRates(taxes', P) = sumOfRates(taxes, P)
  BY <1>2, <1>3, SumSame
<1> QED
  BY <1>4 DEF SumEffect

LEMMA SumEffects ==
    ASSUME TypeOK, ComponentsSound, NEW r \in Requests, NEW P \in Pairs, \A p \in P : Component(p),
           \/ taxes' = taxes
           \/ TaxInsert(r) \/ TaxSave(r) \/ refreshCompoundRates(r) \/ TaxDelete(r)
    PROVE  SumEffect(r, P)
<1>1. \A p \in P : p \in Taxes /\ taxes[p].row # "absent" /\ taxes[p].parts = {}
  BY PairElements DEF Component
<1>2. CASE taxes' = taxes
  BY <1>2, CountedAlike
<1>3. CASE TaxInsert(r)
  <2>1. PICK t \in Taxes :
           /\ taxes[t].row = "absent"
           /\ \A x \in Taxes \ {t} : taxes'[x] = taxes[x]
    BY <1>3, TaxInserted
  <2> QED
    BY <1>1, <2>1, CountedAlike
<1>4. CASE TaxSave(r) /\ requests[r].op = "tax_accounts"
  <2>1. \A x \in Taxes : taxes'[x].row = taxes[x].row /\ taxes'[x].rate = taxes[x].rate
    BY <1>4, TaxAccountsSaved
  <2> QED
    BY <1>1, <2>1, CountedAlike
<1>5. CASE TaxSave(r) /\ requests[r].op = "tax_rate"
  <2>1. PICK t \in Taxes :
           /\ requests[r].id = t
           /\ \A x \in Taxes \ {t} : taxes'[x].row = taxes[x].row /\ taxes'[x].rate = taxes[x].rate
           /\ requests' = [requests EXCEPT ![r] = [op |-> "tax_refresh", id |-> t]]
           /\ drifted' = drifted \cup overtaken(t)
    BY <1>5, TaxRateSaved
  <2>2. CASE t \notin P
    BY <1>1, <2>1, <2>2, CountedAlike
  <2>3. CASE t \in P
    <3>1. requests'[r].op = "tax_refresh" /\ requests'[r].id = t
      BY <2>1 DEF TypeOK
    <3>2. RateChange(r, t)
      BY <1>5, <2>1, <3>1 DEF RateChange
    <3> QED
      BY <2>3, <3>2 DEF SumEffect
  <2> QED
    BY <2>2, <2>3
<1>6. CASE TaxSave(r) /\ requests[r].op = "tax_parts"
  <2>1. PICK t \in Taxes :
           /\ requests[r].id = t
           /\ \A x \in Taxes \ {t} : taxes'[x] = taxes[x]
    BY <1>6, TaxPartsSaved
  <2>2. taxes[t].parts # {}
    BY <1>6, <2>1 DEF ComponentsSound, ChangesSound
  <2> QED
    BY <1>1, <2>1, <2>2, CountedAlike
<1>7. CASE refreshCompoundRates(r)
  <2>1. PICK t \in Taxes :
           \A x \in Taxes : /\ taxes'[x].row = taxes[x].row
                            /\ taxes'[x].rate = IF taxes[x].row = "live" /\ t \in taxes[x].parts
                                                THEN sumOfRates(taxes, taxes[x].parts)
                                                ELSE taxes[x].rate
    BY <1>7, Refreshed, Zenon
  <2> QED
    BY <1>1, <2>1, CountedAlike
<1>8. CASE TaxDelete(r)
  <2>1. PICK t \in Taxes :
           /\ requests[r].op = "tax_delete" /\ requests[r].id = t
           /\ \A x \in Taxes \ {t} : taxes'[x].row = taxes[x].row /\ taxes'[x].rate = taxes[x].rate
    BY <1>8, TaxGone
  <2>2. CASE t \notin P
    BY <1>1, <2>1, <2>2, CountedAlike
  <2>3. CASE t \in P
    BY <2>1, <2>3 DEF SumEffect
  <2> QED
    BY <2>2, <2>3
<1> QED
  BY <1>2, <1>3, <1>4, <1>5, <1>6, <1>7, <1>8 DEF TaxSave

LEMMA SumsReadStep ==
    ASSUME TypeOK, ComponentsSound, overlaps \subseteq raced, SumsRead,
           raced \subseteq raced', drifted \subseteq drifted',
           NEW r \in Requests, RequestEffect(r),
           \A P \in Pairs : (\A p \in P : Component(p)) => SumEffect(r, P)
    PROVE  SumsRead'
<1> SUFFICES ASSUME NEW q \in Requests, taxNames(q)' # {}
             PROVE  LET m == requests'[q] IN
                    \/ m.id \in drifted' \/ m.parts \cap raced' # {}
                    \/ m.rate = sumOfRates(taxes', m.parts)
  BY DEF SumsRead
<1>1. CASE q = r /\ Started(requests'[r]) /\ UNCHANGED <<rows, drifted>>
  <2>1. taxes' = taxes
    BY <1>1 DEF rows
  <2>2. requests'[r].rate = sumOfRates(taxes, requests'[r].parts)
    BY <1>1 DEF taxNames, Started
  <2> QED
    BY <1>1, <2>1, <2>2
<1>2. CASE q # r /\ requests'[q] = requests[q] /\ taxNames(q)' = taxNames(q)
  <2>1. /\ requests[q].op \in {"tax_insert", "tax_parts"}
        /\ taxNames(q) = requests[q].parts /\ requests[q].parts # {}
    BY <1>2 DEF taxNames
  <2>2. PICK P \in Pairs : P = requests[q].parts
    BY <2>1, RequestType
  <2>3. PICK t, n : t = requests[q].id /\ n = requests[q].rate
    OBVIOUS
  <2>4. \A p \in P : Component(p)
    BY <2>1, <2>2 DEF ComponentsSound, ChangesSound
  <2>5. CASE t \in drifted \/ P \cap raced # {}
    BY <1>2, <2>2, <2>3, <2>5
  <2>6. CASE n = sumOfRates(taxes, P)
    <3>1. CASE sumOfRates(taxes', P) = sumOfRates(taxes, P)
      BY <1>2, <2>2, <2>3, <2>6, <3>1
    <3>2. CASE \E p \in P : RateChange(r, p)
      <4>1. PICK p \in P : overtaken(p) \subseteq drifted'
        BY <3>2 DEF RateChange
      <4>2. t \in overtaken(p)
        BY <2>1, <2>2, <2>3 DEF overtaken
      <4> QED
        BY <1>2, <2>3, <4>1, <4>2
    <3>3. CASE \E p \in P : requests[r].op = "tax_delete" /\ requests[r].id = p
      <4>1. requests[r].id \in raced
        BY <2>1, <2>2, <3>3, Overlap
      <4> QED
        BY <1>2, <2>2, <3>3, <4>1
    <3> QED
      BY <2>4, <3>1, <3>2, <3>3 DEF SumEffect
  <2> QED
    BY <1>2, <2>1, <2>2, <2>3, <2>5, <2>6 DEF SumsRead
<1> QED
  BY <1>1, <1>2, NamesAfter

\* A compound tax charges what it charged, what a request has summed up before,
\* or what the refresh sums up now.
RateEffect(r) == \A c \in Taxes : taxes'[c].row = "live" /\ taxes'[c].parts # {} =>
    \/ /\ taxes[c].row = "live"
       /\ taxes'[c].parts = taxes[c].parts /\ taxes'[c].rate = taxes[c].rate
       /\ requests[r].op = "tax_refresh" /\ requests[r].id \in taxes[c].parts => c \in drifted'
    \/ /\ requests[r].op \in {"tax_insert", "tax_parts"} /\ requests[r].id = c
       /\ taxes'[c].parts = requests[r].parts /\ taxes'[c].rate = requests[r].rate
    \/ /\ requests[r].op = "tax_refresh"
       /\ taxes[c].row = "live" /\ taxes'[c].parts = taxes[c].parts
       /\ taxes'[c].rate = sumOfRates(taxes, taxes[c].parts)

LEMMA RateEffects ==
    ASSUME TypeOK, ComponentsSound, NEW r \in Requests,
           \/ Starts(r) \/ Elsewhere(r)
           \/ AccountInsert(r) \/ AccountSave(r) \/ AccountDelete(r)
           \/ TaxInsert(r) \/ TaxSave(r) \/ refreshCompoundRates(r) \/ TaxDelete(r)
    PROVE  RateEffect(r)
<1>1. CASE \/ Starts(r) \/ AccountInsert(r) \/ AccountSave(r) \/ AccountDelete(r)
  <2>1. taxes' = taxes /\ requests[r].op # "tax_refresh"
    BY <1>1, AccountWritten, AccountGone DEF Starts, rows
  <2> QED
    BY <2>1 DEF RateEffect
<1>2. CASE Elsewhere(r)
  <2>1. taxes' = taxes /\ (requests[r].op = "tax_refresh" => compoundsOf(requests[r].id) \subseteq drifted')
    BY <1>2 DEF Elsewhere
  <2> QED
    BY <2>1, LiveRows DEF RateEffect, compoundsOf
<1>3. CASE TaxInsert(r)
  <2>1. PICK t \in Taxes :
           /\ requests[r].op = "tax_insert" /\ requests[r].id = t
           /\ taxes'[t].parts = requests[r].parts /\ taxes'[t].rate = requests[r].rate
           /\ \A x \in Taxes \ {t} : taxes'[x] = taxes[x]
    BY <1>3, TaxInserted
  <2> QED
    BY <2>1 DEF RateEffect
<1>4. CASE TaxSave(r) /\ requests[r].op = "tax_accounts"
  <2>1. \A x \in Taxes : /\ taxes'[x].row = taxes[x].row /\ taxes'[x].rate = taxes[x].rate
                         /\ taxes'[x].parts = taxes[x].parts
    BY <1>4, TaxAccountsSaved
  <2> QED
    BY <1>4, <2>1 DEF RateEffect
<1>5. CASE TaxSave(r) /\ requests[r].op = "tax_rate"
  <2>1. PICK t \in Taxes :
           /\ requests[r].id = t
           /\ \A x \in Taxes : taxes'[x].row = taxes[x].row /\ taxes'[x].parts = taxes[x].parts
           /\ \A x \in Taxes \ {t} : taxes'[x].rate = taxes[x].rate
    BY <1>5, TaxRateSaved
  <2>2. taxes[t].parts = {}
    BY <1>5, <2>1 DEF ComponentsSound, ChangesSound, Component
  <2> QED
    BY <1>5, <2>1, <2>2 DEF RateEffect
<1>6. CASE TaxSave(r) /\ requests[r].op = "tax_parts"
  <2>1. PICK t \in Taxes :
           /\ requests[r].id = t
           /\ taxes'[t].parts = requests[r].parts /\ taxes'[t].rate = requests[r].rate
           /\ \A x \in Taxes \ {t} : taxes'[x] = taxes[x]
    BY <1>6, TaxPartsSaved
  <2> QED
    BY <1>6, <2>1 DEF RateEffect
<1>7. CASE refreshCompoundRates(r)
  <2>1. PICK t \in Taxes :
           /\ requests[r].op = "tax_refresh" /\ requests[r].id = t
           /\ \A x \in Taxes : /\ taxes'[x].row = taxes[x].row /\ taxes'[x].parts = taxes[x].parts
                               /\ taxes'[x].rate = IF taxes[x].row = "live" /\ t \in taxes[x].parts
                                                   THEN sumOfRates(taxes, taxes[x].parts)
                                                   ELSE taxes[x].rate
    BY <1>7, Refreshed, Zenon
  <2> QED
    BY <2>1 DEF RateEffect
<1>8. CASE TaxDelete(r)
  <2>1. PICK t \in Taxes :
           /\ requests[r].op = "tax_delete" /\ taxes'[t].row = "deleted"
           /\ \A x \in Taxes : taxes'[x].rate = taxes[x].rate /\ taxes'[x].parts = taxes[x].parts
           /\ \A x \in Taxes \ {t} : taxes'[x].row = taxes[x].row
    BY <1>8, TaxGone
  <2> QED
    BY <2>1 DEF RateEffect
<1> QED
  BY <1>1, <1>2, <1>3, <1>4, <1>5, <1>6, <1>7, <1>8 DEF TaxSave

LEMMA CompoundRateStep ==
    ASSUME TypeOK, ComponentsSound, DeletesUnused, SumsRead, CompoundRateIsSum,
           raced \subseteq raced', drifted \subseteq drifted',
           NEW r \in Requests, TaxEffect(r), KindsEffect(r), RequestEffect(r), RateEffect(r),
           \A P \in Pairs : (\A p \in P : Component(p)) => SumEffect(r, P)
    PROVE  CompoundRateIsSum'
<1> DEFINE excused(c, P) == \/ c \in drifted' \/ P \cap raced' # {}
                            \/ \E q \in Requests : requests'[q].op = "tax_refresh" /\ requests'[q].id \in P
                            \/ taxes'[c].rate = sumOfRates(taxes', P)
<1>1. ASSUME NEW c \in Live(taxes)', NEW P, P = taxes'[c].parts, P # {}
      PROVE  excused(c, P)
  <2>1. c \in Taxes /\ taxes'[c].row = "live" /\ P \in Pairs
    BY <1>1 DEF TaxEffect, Live, Tax
  <2>2. CASE /\ taxes[c].row = "live" /\ P = taxes[c].parts /\ taxes'[c].rate = taxes[c].rate
             /\ requests[r].op = "tax_refresh" /\ requests[r].id \in P => c \in drifted'
    <3>1. c \in Live(taxes) /\ \A p \in P : Component(p)
      BY <2>1, <2>2, LiveRows DEF ComponentsSound
    <3>2. SumEffect(r, P)
      BY <2>1, <3>1
    <3>3. \/ c \in drifted \/ P \cap raced # {}
          \/ \E q \in Requests : requests[q].op = "tax_refresh" /\ requests[q].id \in P
          \/ taxes[c].rate = sumOfRates(taxes, P)
      BY <1>1, <2>2, <3>1 DEF CompoundRateIsSum
    <3>4. CASE c \in drifted \/ P \cap raced # {}
      BY <3>4
    <3>5. CASE \E q \in Requests : requests[q].op = "tax_refresh" /\ requests[q].id \in P
      BY <2>2, <3>5, RequestAfter
    <3>6. CASE taxes[c].rate = sumOfRates(taxes, P)
      <4>1. CASE sumOfRates(taxes', P) = sumOfRates(taxes, P)
        BY <2>2, <3>6, <4>1
      <4>2. CASE \E p \in P : RateChange(r, p)
        BY <4>2 DEF RateChange
      <4>3. CASE \E p \in P : requests[r].op = "tax_delete" /\ requests[r].id = p
        <5>1. requests[r].id \in raced
          BY <2>2, <3>1, <4>3 DEF DeletesUnused
        <5> QED
          BY <4>3, <5>1
      <4> QED
        BY <3>2, <4>1, <4>2, <4>3 DEF SumEffect
    <3> QED
      BY <3>3, <3>4, <3>5, <3>6
  <2>3. CASE /\ requests[r].op \in {"tax_insert", "tax_parts"} /\ requests[r].id = c
             /\ P = requests[r].parts /\ taxes'[c].rate = requests[r].rate
    <3>1. taxNames(r) = P
      BY <2>3 DEF taxNames
    <3>2. \A p \in P : Component(p)
      BY <3>1 DEF ComponentsSound, ChangesSound
    <3>3. sumOfRates(taxes', P) = sumOfRates(taxes, P)
      BY <2>1, <2>3, <3>2 DEF SumEffect, RateChange
    <3>4. c \in drifted \/ P \cap raced # {} \/ taxes'[c].rate = sumOfRates(taxes, P)
      BY <1>1, <2>3, <3>1 DEF SumsRead
    <3> QED
      BY <3>3, <3>4
  <2>4. CASE /\ requests[r].op = "tax_refresh"
             /\ taxes[c].row = "live" /\ P = taxes[c].parts
             /\ taxes'[c].rate = sumOfRates(taxes, P)
    <3>1. \A p \in P : Component(p)
      BY <2>1, <2>4 DEF ComponentsSound
    <3>2. sumOfRates(taxes', P) = sumOfRates(taxes, P)
      BY <2>1, <2>4, <3>1 DEF SumEffect, RateChange
    <3> QED
      BY <2>4, <3>2
  <2> QED
    BY <1>1, <2>1, <2>2, <2>3, <2>4 DEF RateEffect
<1> QED
  BY <1>1 DEF CompoundRateIsSum

-----------------------------------------------------------------------------
(* One primary bank account. *)

primaries == {b \in Live(banks) : banks[b].primary}

\* A primary row was one before or is being saved.  The save of a row that ends
\* leaves it without the mark, or leaves no other row with it.
PrimaryEffect(r) ==
    /\ primaries' \subseteq saving' \cup primaries
    /\ requests[r].op \in {"bank_reread", "bank_clear"} =>
          \/ requests[r].id \in saving' \cup drifted'
          \/ requests[r].id \notin primaries'
          \/ primaries' \subseteq {requests[r].id}

LEMMA OneIsSavedStep ==
    ASSUME TypeOK, OneIsSaved, drifted \subseteq drifted', NEW r \in Requests,
           RequestEffect(r), PrimaryEffect(r)
    PROVE  OneIsSaved'
<1>2. ASSUME NEW b \in saving
      PROVE  \/ b \in saving'
             \/ (requests[r].op \in {"bank_reread", "bank_clear"} /\ requests[r].id = b)
  BY RequestAfter DEF saving
<1>3. ASSUME NEW a \in primaries', NEW b \in primaries', a # b,
             a \notin saving' \cup drifted', b \notin saving' \cup drifted'
      PROVE  FALSE
  <2>1. a \in primaries /\ b \in primaries
    BY <1>3 DEF PrimaryEffect
  <2>2. {a, b} \cap (saving \cup drifted) # {}
    BY <1>3, <2>1 DEF primaries, OneIsSaved
  <2>3. /\ requests[r].op \in {"bank_reread", "bank_clear"}
        /\ requests[r].id \in {a, b}
    BY <1>2, <1>3, <2>2
  <2> QED
    BY <1>3, <2>3 DEF PrimaryEffect
<1> QED
  BY <1>3 DEF OneIsSaved, primaries

LEMMA SavingAfter ==
    ASSUME TypeOK, NEW r \in Requests, NEW m, requests' = [requests EXCEPT ![r] = m],
           m.op \in {"bank_reread", "bank_clear"}
    PROVE  m.id \in saving'
<1>1. requests'[r] = m
  BY DEF TypeOK
<1> QED
  BY <1>1 DEF saving

\* A step that saves no bank account.
LEMMA BanksUnchanged ==
    ASSUME NEW r \in Requests, banks' = banks, requests[r].op \notin {"bank_reread", "bank_clear"}
    PROVE  PrimaryEffect(r)
  BY DEF PrimaryEffect, primaries, Live

LEMMA BankEffects ==
    ASSUME TypeOK, NEW r \in Requests, BankRequest(r)
    PROVE  PrimaryEffect(r) /\ banks' \in [Banks -> BankAccount]
<1> DEFINE reread(b) == [op |-> "bank_reread", id |-> b]
<1>0. banks \in [Banks -> BankAccount]
  BY DEF TypeOK
<1>1. CASE BankCreate(r) \/ BankUpdate(r)
  <2>1. PICK b \in Banks, primary \in BOOLEAN :
           /\ \/ banks' = [banks EXCEPT ![b] = [row |-> "live", primary |-> primary, used |-> FALSE]]
              \/ banks' = [banks EXCEPT ![b].primary = primary]
           /\ requests[r].op = "new" /\ requests' = [requests EXCEPT ![r] = reread(b)]
    BY <1>1, LiveRows DEF BankCreate, BankUpdate, Begin
  <2>2. reread(b).op = "bank_reread" /\ reread(b).id = b
    OBVIOUS
  <2> HIDE DEF reread
  <2>3. b \in saving'
    BY <2>1, <2>2, SavingAfter
  <2>4. banks' \in [Banks -> BankAccount] /\ \A x \in Banks \ {b} : banks'[x] = banks[x]
    <3>1. [row |-> "live", primary |-> primary, used |-> FALSE] \in BankAccount
      BY DEF BankAccount, Row
    <3>2. [banks[b] EXCEPT !.primary = primary] \in BankAccount
      BY <1>0 DEF BankAccount
    <3>3. \E row \in BankAccount : banks' = [banks EXCEPT ![b] = row]
      BY <2>1, <3>1, <3>2
    <3> QED
      BY <1>0, <3>3
  <2>5. primaries' \subseteq primaries \cup {b}
    BY <1>0, <2>4 DEF primaries, Live
  <2> QED
    BY <2>1, <2>3, <2>4, <2>5 DEF PrimaryEffect
<1>2. CASE BankReread(r)
  <2>1. PICK b \in Banks : requests[r].op = "bank_reread" /\ requests[r].id = b
    BY <1>2, RequestType DEF BankReread
  <2>2. banks' = banks
    BY <1>2 DEF BankReread, rows
  <2>3. primaries' = primaries
    BY <2>2 DEF primaries, Live
  <2>4. CASE banks[b].primary
    <3> DEFINE m == [op |-> "bank_clear", id |-> b]
    <3>1. requests' = [requests EXCEPT ![r] = m] /\ m.op = "bank_clear" /\ m.id = b
      BY <1>2, <2>1, <2>4 DEF BankReread, Continue
    <3> HIDE DEF m
    <3>2. b \in saving'
      BY <3>1, SavingAfter
    <3> QED
      BY <1>0, <2>1, <2>2, <2>3, <3>2 DEF PrimaryEffect
  <2>5. CASE ~banks[b].primary
    <3>1. b \notin primaries'
      BY <2>3, <2>5 DEF primaries
    <3> QED
      BY <1>0, <2>1, <2>2, <2>3, <3>1 DEF PrimaryEffect
  <2> QED
    BY <2>4, <2>5
<1>3. CASE ClearPrimary(r)
  <2>1. PICK b \in Banks : requests[r].op = "bank_clear" /\ requests[r].id = b
    BY <1>3, RequestType DEF ClearPrimary
  <2>2. banks' = [x \in Banks |-> IF x \in Live(banks) \ {b} THEN [banks[x] EXCEPT !.primary = FALSE]
                                                            ELSE banks[x]]
    BY <1>3, <2>1 DEF ClearPrimary
  <2>3. \A x \in Banks : x \in Live(banks) <=> banks[x].row = "live"
    BY LiveRows
  <2>4. \A x \in Banks : banks'[x] \in BankAccount /\ banks'[x].row = banks[x].row
    BY <1>0, <2>2 DEF BankAccount
  <2>5. banks' \in [Banks -> BankAccount]
    BY <2>2, <2>4
  <2>6. ASSUME NEW x \in Banks, x # b, banks'[x].row = "live"
        PROVE  banks'[x].primary = FALSE
    BY <1>0, <2>2, <2>3, <2>4, <2>6 DEF BankAccount
  <2>7. primaries' \subseteq {b}
    BY <2>5, <2>6 DEF primaries, Live
  <2>8. b \in primaries' => b \in primaries
    BY <1>0, <2>2, <2>3 DEF primaries, Live
  <2> QED
    BY <2>1, <2>5, <2>7, <2>8 DEF PrimaryEffect
<1>4. CASE BankDeleteCheck(r)
  <2>1. banks' = banks /\ requests[r].op = "new"
    BY <1>4 DEF BankDeleteCheck, Begin, rows
  <2> QED
    BY <1>0, <2>1, BanksUnchanged
<1>5. CASE BankDelete(r)
  <2>1. PICK b \in Banks : /\ requests[r].op = "bank_delete" /\ requests[r].id = b
                           /\ banks' = [banks EXCEPT ![b].row = "deleted"]
    BY <1>5, RequestType DEF BankDelete
  <2>2. banks' \in [Banks -> BankAccount]
    BY <1>0, <2>1 DEF BankAccount, Row
  <2>3. \A x \in Banks \ {b} : banks'[x] = banks[x]
    BY <1>0, <2>1
  <2>4. banks'[b].row = "deleted"
    BY <1>0, <2>1 DEF BankAccount
  <2>5. primaries' \subseteq primaries
    BY <1>0, <2>2, <2>3, <2>4 DEF primaries, Live
  <2> QED
    BY <2>1, <2>2, <2>5 DEF PrimaryEffect
<1> QED
  BY <1>1, <1>2, <1>3, <1>4, <1>5 DEF BankRequest

\* Nobody else saves a bank account or writes one.
LEMMA OtherRequests ==
    ASSUME NEW r \in Requests, AccountRequest(r) \/ TaxRequest(r) \/ BookRequest(r)
    PROVE  banks' = banks /\ requests[r].op \notin {"bank_reread", "bank_clear"}
<1>1. CASE AccountRequest(r)
  BY <1>1 DEF AccountRequest, AccountCreate, AccountInsert, AccountUpdate, AccountSave,
              AccountDeleteCheck, AccountDelete, Begin, rows
<1>2. CASE TaxRequest(r)
  <2>1. CASE TaxCreate(r)
    BY <2>1 DEF TaxCreate, Begin, rows
  <2>2. CASE TaxUpdate(r)
    <3>1. ASSUME NEW m, Begin(r, m) PROVE requests[r].op = "new"
      BY <3>1 DEF Begin
    <3>2. requests[r].op = "new"
      BY <2>2, <3>1, Zenon DEF TaxUpdate
    <3>3. banks' = banks
      BY <2>2 DEF TaxUpdate, rows
    <3> QED
      BY <3>2, <3>3
  <2>3. CASE TaxDeleteCheck(r)
    BY <2>3 DEF TaxDeleteCheck, Begin, rows
  <2>4. CASE TaxInsert(r) \/ TaxSave(r) \/ refreshCompoundRates(r) \/ TaxDelete(r)
    BY <2>4 DEF TaxInsert, TaxSave, refreshCompoundRates, TaxDelete
  <2> QED
    BY <1>2, <2>1, <2>2, <2>3, <2>4 DEF TaxRequest
<1>3. CASE BookRequest(r)
  BY <1>3 DEF BookRequest, BookCreate, BookUpdate, BookDeleteCheck, BookDelete, Begin, Serve, rows
<1> QED
  BY <1>1, <1>2, <1>3

LEMMA PrimaryEffects ==
    ASSUME TypeOK, NEW r \in Requests,
           AccountRequest(r) \/ TaxRequest(r) \/ BookRequest(r) \/ BankRequest(r) \/ Abort(r)
    PROVE  PrimaryEffect(r) /\ banks' \in [Banks -> BankAccount]
<1>1. CASE AccountRequest(r) \/ TaxRequest(r) \/ BookRequest(r)
  BY <1>1, OtherRequests, BanksUnchanged DEF TypeOK
<1>2. CASE Abort(r)
  <2>1. banks' = banks
    BY <1>2 DEF Abort, rows
  <2>2. requests[r].op \in {"bank_reread", "bank_clear"} => requests[r].id \in drifted'
    BY <1>2 DEF Abort
  <2>3. primaries' = primaries
    BY <2>1 DEF primaries, Live
  <2> QED
    BY <2>1, <2>2, <2>3 DEF PrimaryEffect, TypeOK
<1> QED
  BY <1>1, <1>2, BankEffects

-----------------------------------------------------------------------------
(* Types. *)

LEMMA BooksType ==
    ASSUME TypeOK, NEW r \in Requests, BookRequest(r)
    PROVE  books' \in [Books -> JournalBook]
<1>0. books \in [Books -> JournalBook]
  BY DEF TypeOK
<1>1. CASE BookCreate(r) \/ BookUpdate(r)
  <2>1. PICK b \in Live(books) \cup Absent(books), as \in SUBSET Accounts :
           \/ books' = [books EXCEPT ![b] = [row |-> "live", system |-> FALSE, accounts |-> as,
                                             used |-> FALSE]]
           \/ books' = [books EXCEPT ![b].accounts = as]
    BY <1>1 DEF BookCreate, BookUpdate
  <2>2. b \in Books
    BY <1>0, <2>1 DEF Live, Absent
  <2>3. [row |-> "live", system |-> FALSE, accounts |-> as, used |-> FALSE] \in JournalBook
    BY DEF JournalBook, Row
  <2>4. [books[b] EXCEPT !.accounts = as] \in JournalBook
    BY <1>0, <2>2 DEF JournalBook
  <2>5. \E row \in JournalBook : books' = [books EXCEPT ![b] = row]
    BY <2>1, <2>3, <2>4
  <2> QED
    BY <1>0, <2>2, <2>5
<1>2. CASE BookDeleteCheck(r)
  BY <1>0, <1>2 DEF BookDeleteCheck, rows
<1>3. CASE BookDelete(r)
  <2>1. PICK b \in Books : books' = [books EXCEPT ![b].row = "deleted"]
    BY <1>3, RequestType DEF BookDelete
  <2>2. [books[b] EXCEPT !.row = "deleted"] \in JournalBook
    BY <1>0 DEF JournalBook, Row
  <2> QED
    BY <1>0, <2>1, <2>2
<1> QED
  BY <1>1, <1>2, <1>3 DEF BookRequest

LEMMA BooksElsewhere ==
    ASSUME NEW r \in Requests, AccountRequest(r) \/ TaxRequest(r) \/ BankRequest(r) \/ Abort(r)
    PROVE  books' = books
<1>1. CASE AccountRequest(r)
  BY <1>1 DEF AccountRequest, AccountCreate, AccountInsert, AccountUpdate, AccountSave,
              AccountDeleteCheck, AccountDelete, rows
<1>2. CASE TaxRequest(r)
  BY <1>2 DEF TaxRequest, TaxCreate, TaxInsert, TaxUpdate, TaxSave, refreshCompoundRates,
              TaxDeleteCheck, TaxDelete, rows
<1>3. CASE BankRequest(r) \/ Abort(r)
  BY <1>3 DEF BankRequest, BankCreate, BankUpdate, BankReread, ClearPrimary, BankDeleteCheck,
              BankDelete, Abort, rows
<1> QED
  BY <1>1, <1>2, <1>3

\* A step only adds to drifted: compounds and bank accounts.
LEMMA DriftedType ==
    ASSUME TypeOK, NEW r \in Requests,
           AccountRequest(r) \/ TaxRequest(r) \/ BookRequest(r) \/ BankRequest(r) \/ Abort(r)
    PROVE  drifted \subseteq drifted' /\ drifted' \subseteq Taxes \cup Banks
<1>0. drifted \subseteq Taxes \cup Banks
  BY DEF TypeOK
<1>1. CASE AccountRequest(r) \/ BookRequest(r) \/ BankRequest(r)
  <2>1. drifted' = drifted
    BY <1>1 DEF AccountRequest, AccountCreate, AccountInsert, AccountUpdate, AccountSave,
                AccountDeleteCheck, AccountDelete, BookRequest, BookCreate, BookUpdate,
                BookDeleteCheck, BookDelete, BankRequest, BankCreate, BankUpdate, BankReread,
                ClearPrimary, BankDeleteCheck, BankDelete
  <2> QED
    BY <1>0, <2>1
<1>2. CASE TaxRequest(r)
  <2>1. drifted' = drifted \/ (requests[r].op = "tax_rate" /\ drifted' = drifted \cup overtaken(requests[r].id))
    BY <1>2 DEF TaxRequest, TaxCreate, TaxInsert, TaxUpdate, TaxSave, refreshCompoundRates,
                TaxDeleteCheck, TaxDelete
  <2>2. \A t : overtaken(t) \subseteq Taxes
    BY RequestType DEF overtaken
  <2> QED
    BY <1>0, <2>1, <2>2
<1>3. CASE Abort(r)
  <2>1. compoundsOf(requests[r].id) \subseteq Taxes
    BY LiveRows DEF compoundsOf
  <2>2. requests[r].op \in {"bank_reread", "bank_clear"} => requests[r].id \in Banks
    BY RequestType
  <2> QED
    BY <1>0, <1>3, <2>1, <2>2 DEF Abort
<1> QED
  BY <1>1, <1>2, <1>3

LEMMA RacedType ==
    ASSUME TypeOK, Next, requests' \in [Requests -> Request]
    PROVE  raced' \subseteq Accounts \cup Taxes
<1>1. \A q \in Requests : requests'[q].op \in {"account_delete", "tax_delete"} =>
         requests'[q].id \in Accounts \cup Taxes
  BY RequestFields
<1>2. overlaps' \subseteq Accounts \cup Taxes
  BY <1>1 DEF overlaps, deletes
<1> QED
  BY <1>2 DEF Next, TypeOK

-----------------------------------------------------------------------------
(* The invariant holds. *)

LEMMA InitInvariant == Init => IInv
<1> SUFFICES ASSUME Init PROVE IInv
  OBVIOUS
<1> DEFINE root == CHOOSE a \in Accounts : TRUE
           none == [row |-> "absent", system |-> FALSE, rate |-> 0, parts |-> {}, accounts |-> NoAccounts]
           parts == CHOOSE p \in Pairs : TRUE
           first == CHOOSE b \in Banks : TRUE
           rooted == [side \in Sides |-> root]
           single(rate) == [none EXCEPT !.row = "live", !.rate = rate, !.accounts = rooted]
           compound(rate) == [none EXCEPT !.row = "live", !.rate = 2 * rate, !.parts = parts]
<1>1. root \in Accounts
  BY CatalogAssumption
<1>2. parts \in Pairs
  <2>1. PICK p, q \in Taxes : p # q
    BY CatalogAssumption
  <2>2. {p, q} \in Pairs
    BY <2>1 DEF Pairs
  <2> QED
    BY <2>2
<1>3. NoAccounts \in [Sides -> Accounts \cup {None}] /\ rooted \in [Sides -> Accounts \cup {None}]
  BY <1>1 DEF NoAccounts
<1>4. PICK known \in SUBSET (Accounts \ {root}) :
         accounts = [a \in Accounts |->
            [row |-> IF a \in known \cup {root} THEN "live" ELSE "absent",
             system |-> a = root, parent |-> IF a \in known THEN root ELSE None]]
  BY DEF Init
<1>5. PICK rate \in Rates \ {0} : \E made \in SUBSET (Taxes \ parts) :
         taxes = [t \in Taxes |-> CASE t \in parts -> single(rate)
                                    [] t \in made -> compound(rate)
                                    [] OTHER -> none]
  BY DEF Init
<1>6. PICK made \in SUBSET (Taxes \ parts) :
         taxes = [t \in Taxes |-> CASE t \in parts -> single(rate)
                                    [] t \in made -> compound(rate)
                                    [] OTHER -> none]
  BY <1>5
<1>7. \E used, system \in BOOLEAN :
         books = [b \in Books |-> [row |-> IF used \/ system THEN "live" ELSE "absent",
                                   system |-> system, accounts |-> {}, used |-> used]]
  BY DEF Init
<1>8. \E used \in BOOLEAN :
         banks = [b \in Banks |-> [row |-> IF b = first THEN "live" ELSE "absent",
                                   primary |-> b = first, used |-> used /\ b = first]]
  BY DEF Init
<1>9. requests = [r \in Requests |-> [op |-> "new"]] /\ raced = {} /\ drifted = {}
  BY DEF Init
<1>10. rate \in 0..100 /\ 2 * rate \in 0..200
  BY CatalogAssumption
<1> HIDE DEF root, parts, first, rooted
<1>11. PICK p, q \in Taxes : p # q /\ parts = {p, q}
  BY <1>2, PairElements
<1>12. none \in Tax /\ single(rate) \in Tax /\ compound(rate) \in Tax
  <2>1. none \in Tax
    BY <1>3 DEF Tax, Row
  <2>2. PICK n \in 0..200 : n = 2 * rate
    BY <1>10
  <2>3. rate \in 0..200
    BY <1>10
  <2> HIDE DEF none
  <2>4. single(rate) \in Tax
    BY <1>3, <2>1, <2>3 DEF Tax, Row
  <2>5. [none EXCEPT !.row = "live", !.rate = n, !.parts = parts] \in Tax
    BY <1>2, <2>1, <2>2 DEF Tax, Row
  <2> QED
    BY <2>1, <2>2, <2>4, <2>5
\* The rows.
<1>13. accounts \in [Accounts -> Account]
  BY <1>1, <1>4 DEF Account, Row
<1>14. /\ Live(accounts) = known \cup {root}
       /\ \A a \in Live(accounts) : accounts[a].parent \in {root, None}
  BY <1>1, <1>4 DEF Live
<1>15. taxes \in [Taxes -> Tax]
  BY <1>6, <1>12
<1>16. /\ \A t \in parts : taxes[t] = single(rate)
       /\ \A t \in made : taxes[t] = compound(rate)
       /\ \A t \in Taxes \ (parts \cup made) : taxes[t] = none
  BY <1>6, <1>11
<1>17. /\ \A t \in parts : /\ taxes[t].row = "live" /\ taxes[t].rate = rate /\ taxes[t].parts = {}
                           /\ taxes[t].accounts = rooted
       /\ \A t \in made : /\ taxes[t].row = "live" /\ taxes[t].rate = 2 * rate /\ taxes[t].parts = parts
                          /\ taxes[t].accounts = NoAccounts
       /\ \A t \in Taxes \ (parts \cup made) :
             taxes[t].row = "absent" /\ taxes[t].rate = 0 /\ taxes[t].parts = {}
  <2>1. /\ single(rate).row = "live" /\ single(rate).rate = rate /\ single(rate).parts = {}
        /\ single(rate).accounts = rooted
    OBVIOUS
  <2>2. /\ compound(rate).row = "live" /\ compound(rate).rate = 2 * rate
        /\ compound(rate).parts = parts /\ compound(rate).accounts = NoAccounts
    OBVIOUS
  <2>3. none.row = "absent" /\ none.rate = 0 /\ none.parts = {}
    OBVIOUS
  <2> HIDE DEF none, single, compound
  <2> QED
    BY <1>16, <2>1, <2>2, <2>3
<1>18. Live(taxes) = parts \cup made
  BY <1>11, <1>15, <1>17 DEF Live
<1>19. books \in [Books -> JournalBook] /\ banks \in [Banks -> BankAccount]
  <2>1. books \in [Books -> JournalBook]
    BY <1>7 DEF JournalBook, Row
  <2>2. banks \in [Banks -> BankAccount]
    BY <1>8 DEF BankAccount, Row
  <2> QED
    BY <2>1, <2>2
<1>20. requests \in [Requests -> Request] /\ \A r \in Requests : requests[r].op = "new"
  BY <1>9 DEF Request
<1>21. \A r \in Requests : accountNames(r) = {} /\ taxNames(r) = {}
  BY <1>20 DEF accountNames, taxNames
<1>22. TypeOK
  BY <1>9, <1>11, <1>13, <1>15, <1>17, <1>19, <1>20 DEF TypeOK
<1>23. overlaps \subseteq raced
  <2>1. \A r \in Requests : deletes(r) = {}
    BY <1>20 DEF deletes
  <2> QED
    BY <2>1 DEF overlaps
<1>24. NamesLive /\ DeletesUnused /\ SumsRead
  BY <1>20, <1>21 DEF NamesLive, DeletesUnused, SumsRead
<1>25. MasterDataLive
  <2>1. \A t \in parts : accountsOf(taxes[t]) \subseteq {root}
    BY <1>17 DEF accountsOf, rooted
  <2>2. \A t \in made : accountsOf(taxes[t]) = {}
    BY <1>17 DEF accountsOf, NoAccounts
  <2> QED
    BY <1>14, <1>17, <1>18, <2>1, <2>2 DEF MasterDataLive
<1>26. ComponentsSound
  <2>1. \A r \in Requests : ChangesSound(r)
    BY <1>20, <1>21 DEF ChangesSound
  <2>2. \A t \in Taxes : \A x \in taxes[t].parts : Component(x)
    BY <1>17 DEF Component
  <2>3. \A t \in Taxes : taxes[t].parts = {} => taxes[t].rate <= 100
    BY <1>10, <1>11, <1>17
  <2> QED
    BY <2>1, <2>2, <2>3 DEF ComponentsSound
<1>27. CompoundRateIsSum
  <2>1. counted(taxes[p]) = rate /\ counted(taxes[q]) = rate
    BY <1>11, <1>17 DEF counted
  <2>2. sumOfRates(taxes, {p, q}) = counted(taxes[p]) + counted(taxes[q])
    BY <1>10, <1>11, <2>1, SumOfTwo
  <2>3. sumOfRates(taxes, parts) = 2 * rate
    BY <1>10, <1>11, <2>1, <2>2
  <2> QED
    BY <1>17, <1>18, <2>3 DEF CompoundRateIsSum
<1>28. OneIsSaved
  <2>1. PICK used \in BOOLEAN :
           banks = [b \in Banks |-> [row |-> IF b = first THEN "live" ELSE "absent",
                                     primary |-> b = first, used |-> used /\ b = first]]
    BY <1>8
  <2>2. \A b \in Banks : banks[b].primary = (b = first)
    BY <2>1
  <2> QED
    BY <1>22, <2>2, LiveRows DEF OneIsSaved
<1> QED
  BY <1>22, <1>23, <1>24, <1>25, <1>26, <1>27, <1>28 DEF IInv

LEMMA StepInvariant == IInv /\ Next => IInv'
<1> SUFFICES ASSUME IInv, Next PROVE IInv'
  OBVIOUS
<1> USE DEF IInv
<1>1. PICK r \in Requests :
         AccountRequest(r) \/ TaxRequest(r) \/ BookRequest(r) \/ BankRequest(r) \/ Abort(r)
  BY DEF Next
<1>2. \/ Starts(r) \/ Elsewhere(r)
      \/ AccountInsert(r) \/ AccountSave(r) \/ AccountDelete(r)
      \/ TaxInsert(r) \/ TaxSave(r) \/ refreshCompoundRates(r) \/ TaxDelete(r)
  BY <1>1, Steps
<1>3. raced \subseteq raced' /\ overlaps' \subseteq raced'
  BY RacedGrows
<1>4. drifted \subseteq drifted' /\ drifted' \subseteq Taxes \cup Banks
  BY <1>1, DriftedType
<1>5. AccountEffect(r) /\ TaxEffect(r) /\ RequestEffect(r)
  BY <1>2, Effects
<1>6. \/ taxes' = taxes
      \/ TaxInsert(r) \/ TaxSave(r) \/ refreshCompoundRates(r) \/ TaxDelete(r)
  BY <1>2, AccountWritten, AccountGone DEF Starts, Elsewhere, rows
<1>7. KindsEffect(r)
  BY <1>6, KindsEffects
<1>8. \A P \in Pairs : (\A p \in P : Component(p)) => SumEffect(r, P)
  BY <1>6, SumEffects
<1>9. RateEffect(r)
  BY <1>2, RateEffects
<1>10. PrimaryEffect(r) /\ banks' \in [Banks -> BankAccount]
  BY <1>1, PrimaryEffects
<1>11. ComponentsSound'
  BY <1>5, <1>7, ComponentsSoundStep
<1>12. NamesLive' /\ MasterDataLive' /\ DeletesUnused'
  BY <1>3, <1>5, NamesLiveStep, MasterDataLiveStep, DeletesUnusedStep
<1>13. SumsRead' /\ CompoundRateIsSum'
  BY <1>3, <1>4, <1>5, <1>7, <1>8, <1>9, SumsReadStep, CompoundRateStep
<1>14. OneIsSaved'
  BY <1>4, <1>5, <1>10, OneIsSavedStep
<1>15. TypeOK'
  <2>1. requests' \in [Requests -> Request]
    BY <1>5, RequestAfter
  <2>2. books' \in [Books -> JournalBook]
    BY <1>1, BooksType, BooksElsewhere DEF TypeOK
  <2>3. \A t \in Taxes : \A p \in taxes'[t].parts : taxes'[p].parts = {}
    BY <1>11 DEF ComponentsSound, Component
  <2>4. raced' \subseteq Accounts \cup Taxes
    BY <2>1, RacedType
  <2> QED
    BY <1>4, <1>5, <1>10, <2>1, <2>2, <2>3, <2>4 DEF TypeOK, AccountEffect, TaxEffect
<1> QED
  BY <1>3, <1>11, <1>12, <1>13, <1>14, <1>15

LEMMA StutterInvariant == IInv /\ UNCHANGED vars => IInv'
<1> SUFFICES ASSUME IInv, UNCHANGED vars PROVE IInv'
  OBVIOUS
<1>1. /\ accounts' = accounts /\ taxes' = taxes /\ books' = books /\ banks' = banks
      /\ requests' = requests /\ raced' = raced /\ drifted' = drifted
  BY DEF vars
<1>2. TypeOK'
  BY <1>1 DEF IInv, TypeOK
<1>3. \A r \in Requests : /\ accountNames(r)' = accountNames(r) /\ taxNames(r)' = taxNames(r)
                          /\ names(r)' = names(r) /\ deletes(r)' = deletes(r)
  BY <1>1 DEF accountNames, taxNames, names, deletes
<1>4. overlaps' \subseteq raced'
  BY <1>1, <1>3 DEF IInv, overlaps
<1>5. /\ Live(accounts)' = Live(accounts) /\ Live(taxes)' = Live(taxes)
      /\ Live(banks)' = Live(banks)
  BY <1>1 DEF Live
<1>6. NamesLive'
  BY <1>1, <1>3, <1>5 DEF IInv, NamesLive
<1>7. \A a : accountUnused(a)' <=> accountUnused(a)
  BY <1>1, <1>5 DEF accountUnused
<1>8. DeletesUnused'
  BY <1>1, <1>5, <1>7 DEF IInv, DeletesUnused
<1>9. MasterDataLive'
  BY <1>1, <1>5 DEF IInv, MasterDataLive
<1>10. ComponentsSound'
  BY <1>1, <1>3 DEF IInv, ComponentsSound, ChangesSound, Component
<1>11. SumsRead' /\ CompoundRateIsSum'
  BY <1>1, <1>3, <1>5 DEF IInv, SumsRead, CompoundRateIsSum
<1>12. OneIsSaved'
  BY <1>1, <1>5 DEF IInv, OneIsSaved, saving
<1> QED
  BY <1>2, <1>4, <1>6, <1>8, <1>9, <1>10, <1>11, <1>12 DEF IInv

THEOREM Invariance == Spec => []IInv
<1>1. IInv /\ [Next]_vars => IInv'
  BY StepInvariant, StutterInvariant
<1> QED
  BY <1>1, InitInvariant, PTL DEF Spec

\* Every row and every request has its type: no request is carried on with
\* another one's payload, no compound tax becomes part of one.
THEOREM TypeCorrect == Spec => []TypeOK
<1>1. IInv => TypeOK
  BY DEF IInv
<1> QED
  BY <1>1, Invariance, PTL

\* What a live row refers to is live, unless it was deleted while a request
\* that names it was served.
THEOREM MasterDataStaysLive == Spec => []MasterDataLive
<1>1. IInv => MasterDataLive
  BY DEF IInv
<1> QED
  BY <1>1, Invariance, PTL

\* A live compound tax charges the sum of its components, but for the races and
\* the lost refresh that CompoundRateIsSum names.
THEOREM CompoundRateAlwaysSum == Spec => []CompoundRateIsSum
<1>1. IInv => CompoundRateIsSum
  BY DEF IInv
<1> QED
  BY <1>1, Invariance, PTL

LEMMA OneIsEnough == IInv => OnePrimary
<1> SUFFICES ASSUME IInv PROVE OnePrimary
  OBVIOUS
<1> DEFINE S == {b \in Live(banks) : banks[b].primary} \ (saving \cup drifted)
<1>1. \A a, b \in S : a = b
  BY DEF IInv, OneIsSaved
<1>2. Cardinality(S) <= 1
  <2> HIDE DEF S
  <2>1. CASE S = {}
    BY <2>1, FS_EmptySet
  <2>2. CASE S # {}
    <3>1. \E x : S = {x}
      BY <1>1, <2>2
    <3>2. Cardinality(S) = 1
      BY <3>1, FS_Singleton, Zenon
    <3> QED
      BY <3>2
  <2> QED
    BY <2>1, <2>2
<1> QED
  BY <1>2 DEF OnePrimary, saving

\* Of the bank accounts nobody is saving at most one is the primary one, in any
\* number of accounts and saves.
THEOREM OnePrimaryHolds == Spec => []OnePrimary
  BY Invariance, OneIsEnough, PTL

=============================================================================
