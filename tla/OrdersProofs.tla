---------------------------- MODULE OrdersProofs ----------------------------
(* Proofs about Orders for any number of rows and requests.                *)
EXTENDS Orders, NumberedTable, SumTheorems, WellFoundedInduction

-----------------------------------------------------------------------------
(* What the rows and the requests are.  The amounts on an order are left to *)
(* what is known of the save they come from.                                *)

Saving == {"create_rates", "create_insert", "update_rates", "update_find",
           "update_header", "update_lines"}
Calced == {"create_insert", "update_find", "update_header", "update_lines"}
Editing == {"update_header", "update_lines"}
Noting == {"note_insert", "note_update"}

\* Contact rows that a document may refer to.
Real == {"live", "deleted"}

FormTaxes(form) == UNION {ToSet(form.lines[i].taxes) : i \in DOMAIN form.lines}

LEMMA FormTaxesTyped == \A form \in Forms : FormTaxes(form) \subseteq Taxes
<1> SUFFICES ASSUME NEW form \in Forms, NEW i \in DOMAIN form.lines
             PROVE  ToSet(form.lines[i].taxes) \subseteq Taxes
  BY DEF FormTaxes
<1> DEFINE Item == [product : STRING, quantity : Int, price : Int, taxes : Seq(Taxes),
                    discountType : {"amount", "percent"}, discount : Int]
<1>1. form.lines \in Seq(Item)
  BY FormsAssumption
<1>2. form.lines[i] \in Item
  <2> HIDE DEF Item
  <2> QED
    BY <1>1
<1> QED
  BY <1>2 DEF ToSet

Snapshot == [keep : BOOLEAN, contact : Contacts \cup {None}, copy : Details \cup {None}]

OrderOK(o) ==
    /\ DOMAIN o = {"row", "mitra", "status", "contact", "copy", "disc", "additional", "grandTotal"}
    /\ o.row \in {"absent", "live", "deleted"}
    /\ o.mitra \in Partners \cup {None}
    /\ o.row = "live" => o.mitra \in Partners
    /\ o.status \in {"draft", "confirmed", "cancelled"}
    /\ o.contact \in Contacts \cup {None}
    /\ o.copy \in Details \cup {None}

RequestOK(m) ==
    /\ m.op \in Saving => m.order \in OrderIds /\ m.mitra \in Partners /\ m.form \in Forms
    /\ m.op \in Saving \ Editing => m.contact \in Contacts \cup {None}
    /\ m.op \in Calced => \A i \in DOMAIN m.calc.lines : m.calc.lines[i].taxes \subseteq FormTaxes(m.form)
    /\ m.op \in Editing => m.snap \in Snapshot
    /\ m.op \in Noting => m.note \in NoteIds /\ m.mitra \in Partners
    /\ m.op = "mitra_delete" => m.mitra \in Partners
    /\ m.op = "tax_delete" => m.tax \in Taxes
    /\ m.op = "set_status" => m.order \in OrderIds /\ m.status \in {"draft", "confirmed", "cancelled"}

ContactsOK ==
    /\ contacts \in [Contacts -> ContactPerson]
    /\ \A c \in Contacts : contacts[c].row \in Real => contacts[c].details \in Details

OrdersOK == DOMAIN orders = OrderIds /\ \A o \in OrderIds : OrderOK(orders[o])

LinesOK ==
    /\ DOMAIN lines = OrderIds
    /\ \A o \in OrderIds : \A b \in lines[o] : \A i \in DOMAIN b.rows : b.rows[i].taxes \subseteq Taxes

NotesOK ==
    /\ notes \in [NoteIds -> DeliveryNote]
    /\ \A n \in NoteIds : notes[n].row = "live" => notes[n].mitra \in Partners

RequestsOK == DOMAIN requests = Requests /\ \A r \in Requests : RequestOK(requests[r])

Shape ==
    /\ partners \in [Partners -> Mitra]
    /\ ContactsOK
    /\ taxes \in [Taxes -> Tax]
    /\ OrdersOK
    /\ LinesOK
    /\ NotesOK
    /\ locks \in [OrderIds -> Requests \cup {None}]
    /\ RequestsOK
    /\ seen \in [Contacts -> SUBSET Details]

\* One request changes, the others stay.
LEMMA RequestChange ==
    ASSUME RequestsOK, NEW r \in Requests, NEW m, RequestOK(m), requests' = [requests EXCEPT ![r] = m]
    PROVE  RequestsOK'
  BY DEF RequestsOK

\* A request that is served or waits for nothing more to do.
LEMMA DoneOK == RequestOK([op |-> "done"]) /\ RequestOK([op |-> "new"])
  BY DEF RequestOK, Saving, Editing, Calced, Noting

\* The rows a calculation returns have the taxes of the lines of the form.
LEMMA CalcTaxes ==
    ASSUME NEW form, NEW rates
    PROVE  \A i \in DOMAIN CalcLines(form.lines, rates, form.disc).lines :
              CalcLines(form.lines, rates, form.disc).lines[i].taxes \subseteq FormTaxes(form)
<1> DEFINE rows == [i \in DOMAIN form.lines |-> LineResult(form.lines[i], rates)]
<1>1. CalcLines(form.lines, rates, form.disc).lines = rows
  BY DEF CalcLines
<1>2. \A i \in DOMAIN rows : rows[i].taxes = ToSet(form.lines[i].taxes)
  BY DEF LineResult
<1>3. \A i \in DOMAIN rows : rows[i].taxes \subseteq FormTaxes(form)
  BY <1>2 DEF FormTaxes
<1> HIDE DEF rows
<1> QED
  BY <1>1, <1>3
-----------------------------------------------------------------------------
(* The fold over a contact list.                                           *)

\* Among indices of a list, one is the last.
LEMMA LastIndex ==
    ASSUME NEW n \in Nat, NEW S \in SUBSET (1..n), S # {}
    PROVE  Max(S) \in S /\ \A i \in S : i <= Max(S)
<1> DEFINE D == {n - i : i \in S}
<1>1. D \in SUBSET Nat /\ D # {}
  <2>1. \A i \in S : n - i \in Nat
    OBVIOUS
  <2> QED
    BY <2>1
<1>2. PICK d \in D : \A e \in D : d <= e
  <2> HIDE DEF D
  <2> QED
    BY <1>1, LeastOfNaturals
<1>3. PICK j \in S : d = n - j
  BY <1>2
<1>4. \A i \in S : j >= i
  BY <1>2, <1>3
<1> QED
  BY <1>4 DEF Max

\* A list has finitely many indices.
LEMMA IndicesFinite == ASSUME NEW n \in Nat PROVE IsFiniteSet(1..n)
<1>1. 1 \in Int /\ n \in Int
  OBVIOUS
<1> QED
  BY <1>1, FS_Interval

\* A save of partner p.m with the list p.list and the permissions p.perms:
\* what it makes of entry i, and of the entries at the indices in S, in order.
SyncEntry(p, i, state) == syncContact(p.m, p.perms, p.list[i], state)

SyncRecursion(p, S, g) ==
    g = [s \in SUBSET S |-> IF s = {} THEN p.base ELSE SyncEntry(p, Max(s), g[s \ {Max(s)}])]

Synced(p, S) == (CHOOSE g : SyncRecursion(p, S, g))[S]

LEMMA SyncIsFold ==
    ASSUME NEW m, NEW list, NEW perms, NEW start
    PROVE  FoldLeft(LAMBDA state, entry : syncContact(m, perms, entry, state), start, list)
             = Synced([m |-> m, perms |-> perms, list |-> list, base |-> start], DOMAIN list)
  BY DEF FoldLeft, MapThenFoldSet, Synced, SyncRecursion, SyncEntry

\* The fold unfolds by the last entry.
SyncUnfolds(p, s) ==
    Synced(p, s) = IF s = {} THEN p.base ELSE SyncEntry(p, Max(s), Synced(p, s \ {Max(s)}))

LEMMA SyncAgrees ==
    ASSUME NEW p, NEW n \in Nat, NEW T \in SUBSET (1..n), NEW g, SyncRecursion(p, T, g),
           \A s \in SUBSET T : s # T => SyncUnfolds(p, s)
    PROVE  \A s \in SUBSET T : s # T => g[s] = Synced(p, s)
<1> DEFINE Bad == {s \in SUBSET T : s # T /\ g[s] # Synced(p, s)}
<1> SUFFICES ASSUME Bad # {} PROVE FALSE
  OBVIOUS
<1>1. Bad \in SUBSET (SUBSET (1..n)) /\ Bad # {}
  OBVIOUS
<1>2. PICK s \in Bad : \A u \in Bad : ~(u \subseteq s /\ u # s)
  <2> HIDE DEF Bad
  <2> DEFINE I == 1..n
  <2>1. IsFiniteSet(I)
    BY IndicesFinite
  <2>2. Bad \in SUBSET (SUBSET I) /\ Bad # {}
    BY <1>1
  <2> HIDE DEF I
  <2> QED
    BY <2>1, <2>2, MinimalSubset
<1>3. s \in SUBSET T /\ s # T /\ SyncUnfolds(p, s)
  OBVIOUS
<1>4. g[s] = IF s = {} THEN p.base ELSE SyncEntry(p, Max(s), g[s \ {Max(s)}])
  BY <1>3 DEF SyncRecursion
<1>5. CASE s = {}
  BY <1>3, <1>4, <1>5 DEF SyncUnfolds
<1>6. CASE s # {}
  <2> DEFINE u == s \ {Max(s)}
  <2>1. u \in SUBSET T /\ u # T /\ u \subseteq s /\ u # s
    BY <1>3, <1>6, LastIndex
  <2>2. g[u] = Synced(p, u)
    BY <1>2, <2>1
  <2> QED
    BY <1>3, <1>4, <1>6, <2>2 DEF SyncUnfolds
<1> QED
  BY <1>5, <1>6

LEMMA SyncUnfolding ==
    ASSUME NEW p, NEW n \in Nat
    PROVE  \A T \in SUBSET (1..n) : SyncUnfolds(p, T)
<1> DEFINE Bad == {T \in SUBSET (1..n) : ~SyncUnfolds(p, T)}
<1> SUFFICES ASSUME Bad # {} PROVE FALSE
  OBVIOUS
<1>1. Bad \in SUBSET (SUBSET (1..n)) /\ Bad # {}
  OBVIOUS
<1>2. PICK T \in Bad : \A U \in Bad : ~(U \subseteq T /\ U # T)
  <2> HIDE DEF Bad
  <2> DEFINE I == 1..n
  <2>1. IsFiniteSet(I)
    BY IndicesFinite
  <2>2. Bad \in SUBSET (SUBSET I) /\ Bad # {}
    BY <1>1
  <2> HIDE DEF I
  <2> QED
    BY <2>1, <2>2, MinimalSubset
<1> DEFINE W == (SUBSET T) \ {T}
<1>3. \A s \in W : SyncUnfolds(p, s)
  BY <1>2
<1> DEFINE h == [s \in SUBSET T |-> IF s = {} THEN p.base ELSE SyncEntry(p, Max(s), Synced(p, s \ {Max(s)}))]
<1>4. ASSUME NEW s \in SUBSET T, s # {}
      PROVE  s \ {Max(s)} \in W /\ h[s \ {Max(s)}] = Synced(p, s \ {Max(s)})
  <2>1. Max(s) \in s
    BY <1>4, LastIndex
  <2>2. s \ {Max(s)} \in W
    BY <2>1
  <2>3. SyncUnfolds(p, s \ {Max(s)})
    BY <1>3, <2>2
  <2>4. h[s \ {Max(s)}] = IF s \ {Max(s)} = {} THEN p.base
          ELSE SyncEntry(p, Max(s \ {Max(s)}), Synced(p, (s \ {Max(s)}) \ {Max(s \ {Max(s)})}))
    BY <2>2
  <2> QED
    BY <2>2, <2>3, <2>4 DEF SyncUnfolds
<1>5. SyncRecursion(p, T, h)
  <2>1. \A s \in SUBSET T : h[s] = IF s = {} THEN p.base ELSE SyncEntry(p, Max(s), h[s \ {Max(s)}])
    BY <1>4
  <2>2. h = [s \in SUBSET T |-> h[s]]
    OBVIOUS
  <2> HIDE DEF h
  <2>3. h = [s \in SUBSET T |-> IF s = {} THEN p.base ELSE SyncEntry(p, Max(s), h[s \ {Max(s)}])]
    BY <2>1, <2>2, Zenon
  <2> QED
    BY <2>3 DEF SyncRecursion
<1> DEFINE g == CHOOSE g : SyncRecursion(p, T, g)
<1>6. SyncRecursion(p, T, g)
  BY <1>5
<1>7. Synced(p, T) = g[T]
  BY DEF Synced
<1> HIDE DEF g, h
<1>8. \A s \in SUBSET T : s # T => g[s] = Synced(p, s)
  <2>1. \A s \in SUBSET T : s # T => SyncUnfolds(p, s)
    BY <1>3
  <2>2. T \in SUBSET (1..n)
    OBVIOUS
  <2> HIDE DEF Bad, W
  <2> QED
    BY <1>6, <2>1, <2>2, SyncAgrees
<1>9. g[T] = IF T = {} THEN p.base ELSE SyncEntry(p, Max(T), g[T \ {Max(T)}])
  BY <1>6 DEF SyncRecursion
<1>10. T # {} => g[T \ {Max(T)}] = Synced(p, T \ {Max(T)})
  <2>1. T # {} => Max(T) \in T
    BY LastIndex
  <2> QED
    BY <1>8, <2>1
<1> QED
  BY <1>7, <1>9, <1>10 DEF SyncUnfolds

-----------------------------------------------------------------------------
(* What a save does to the contacts.                                       *)

\* A save keeps the rows there are, and every row has details.
RowsKept(old, rows) ==
    /\ rows \in [Contacts -> ContactPerson]
    /\ \A c \in Contacts : old[c].row \in Real => rows[c].row \in Real
    /\ \A c \in Contacts : rows[c].row \in Real => rows[c].details \in Details

LEMMA EntryKeeps ==
    ASSUME NEW m \in Partners, NEW perms, NEW entry \in Entry, NEW state, NEW old,
           RowsKept(old, state.rows)
    PROVE  RowsKept(old, syncContact(m, perms, entry, state).rows)
<1> DEFINE c == IF entry.id # None THEN entry.id ELSE CHOOSE x \in Contacts : state.rows[x].row = "absent"
           new == newContact(m, entry.details)
<1>1. \/ syncContact(m, perms, entry, state) = state
      \/ syncContact(m, perms, entry, state).rows = [state.rows EXCEPT ![c] = new]
  BY DEF syncContact
<1>2. new \in ContactPerson /\ new.row = "live" /\ new.details \in Details
  BY DEF newContact, ContactPerson, Entry
<1> HIDE DEF c, new
<1>3. RowsKept(old, [state.rows EXCEPT ![c] = new])
  BY <1>2 DEF RowsKept, Real
<1> QED
  BY <1>1, <1>3

LEMMA SyncKeeps ==
    ASSUME NEW p, NEW n \in Nat, p.m \in Partners, p.list \in [1..n -> Entry], NEW old,
           RowsKept(old, p.base.rows)
    PROVE  \A S \in SUBSET (1..n) : RowsKept(old, Synced(p, S).rows)
<1> DEFINE I == 1..n
           Bad == {S \in SUBSET I : ~RowsKept(old, Synced(p, S).rows)}
<1> SUFFICES ASSUME Bad # {} PROVE FALSE
  OBVIOUS
<1>1. Bad \in SUBSET (SUBSET I)
  OBVIOUS
<1>2. PICK S \in Bad : \A U \in Bad : ~(U \subseteq S /\ U # S)
  <2>1. IsFiniteSet(I)
    BY IndicesFinite
  <2> HIDE DEF I, Bad
  <2> QED
    BY <1>1, <2>1, MinimalSubset
<1>3. S \in SUBSET (1..n) /\ ~RowsKept(old, Synced(p, S).rows)
  OBVIOUS
<1>4. Synced(p, S) = IF S = {} THEN p.base ELSE SyncEntry(p, Max(S), Synced(p, S \ {Max(S)}))
  BY <1>3, SyncUnfolding DEF SyncUnfolds
<1>5. S # {}
  BY <1>3, <1>4
<1>6. Max(S) \in S
  BY <1>3, <1>5, LastIndex
<1>7. RowsKept(old, Synced(p, S \ {Max(S)}).rows)
  BY <1>2, <1>3, <1>6
<1>8. p.list[Max(S)] \in Entry
  BY <1>3, <1>6
<1> QED
  BY <1>3, <1>4, <1>5, <1>7, <1>8, EntryKeeps DEF SyncEntry

\* The same of syncContacts.
LEMMA SyncContactsKeeps ==
    ASSUME NEW m \in Partners, NEW list \in Lists, NEW perms, ContactsOK
    PROVE  RowsKept(contacts, syncContacts(m, list, perms).rows)
<1> DEFINE gone == liveContacts(m) \ listed(list)
           kept == [c \in Contacts |-> IF c \in gone THEN [contacts[c] EXCEPT !.row = "deleted"]
                                                      ELSE contacts[c]]
           start == [rows |-> kept, ok |-> gone = {} \/ "delete" \in perms]
           p == [m |-> m, perms |-> perms, list |-> list, base |-> start]
<1>1. syncContacts(m, list, perms) = Synced(p, DOMAIN list)
  <2>1. syncContacts(m, list, perms)
          = FoldLeft(LAMBDA state, entry : syncContact(m, perms, entry, state), start, list)
    BY DEF syncContacts
  <2> HIDE DEF start
  <2> QED
    BY <2>1, SyncIsFold
<1>2. PICK n \in Nat : list \in [1..n -> Entry]
  BY DEF Lists
<1>3. RowsKept(contacts, kept)
  BY DEF ContactsOK, RowsKept, Real, ContactPerson, liveContacts
<1>4. p.m \in Partners /\ p.list \in [1..n -> Entry] /\ p.base.rows = kept
  BY <1>2
<1> HIDE DEF p, kept
<1>5. RowsKept(contacts, Synced(p, 1..n).rows)
  BY <1>3, <1>4, SyncKeeps
<1>6. DOMAIN list = 1..n
  BY <1>2
<1> QED
  BY <1>1, <1>5, <1>6

-----------------------------------------------------------------------------
(* The steps.                                                              *)

OrderStep(r, ids) ==
    \/ OrderCreate(r, ids) \/ OrderUpdate(r, ids) \/ OrderDelete(r, ids)
    \/ OrderConfirm(r, ids) \/ OrderBackToDraft(r, ids) \/ OrderCancel(r, ids)
    \/ OrderCalc(r, ids) \/ OrderInsert(r, ids) \/ SetStatus(r, ids)
    \/ OrderUpdateFind(r, ids) \/ OrderUpdateHeader(r, ids) \/ OrderUpdateCommit(r, ids)

NoteStep(r, ids) ==
    \/ NoteCreate(r, ids) \/ NoteInsert(r, ids) \/ NoteUpdate(r, ids)
    \/ NoteReplace(r, ids) \/ NoteDelete(r, ids)

\* Both kinds of order, and of note, take the same steps.
LEMMA Steps ==
    ASSUME Next
    PROVE  \/ \E r \in Requests, ids \in SUBSET OrderIds : OrderStep(r, ids)
           \/ \E r \in Requests, ids \in SUBSET NoteIds : NoteStep(r, ids)
           \/ \E r \in Requests : PartnerRequest(r) \/ TaxRequest(r) \/ Abort(r)
           \/ RemovePICBackfilledContacts
<1>1. SalesOrders \in SUBSET OrderIds /\ PurchaseOrders \in SUBSET OrderIds
  BY DEF OrderIds
<1>2. DeliveryNotes \in SUBSET NoteIds /\ GoodsReceipts \in SUBSET NoteIds
  BY DEF NoteIds
<1>3. ASSUME NEW r \in Requests, SalesOrderRequest(r) PROVE OrderStep(r, SalesOrders)
  BY <1>3 DEF SalesOrderRequest, OrderStep, SalesOrderCreate, SalesOrderUpdate, SalesOrderDelete,
       SalesOrderConfirm, SalesOrderBackToDraft, SalesOrderCancel, SalesOrderCalc, SalesOrderInsert,
       SalesOrderSetStatus, SalesOrderUpdateFind, SalesOrderUpdateHeader, SalesOrderUpdateCommit
<1>4. ASSUME NEW r \in Requests, PurchaseOrderRequest(r) PROVE OrderStep(r, PurchaseOrders)
  BY <1>4 DEF PurchaseOrderRequest, OrderStep, PurchaseOrderCreate, PurchaseOrderUpdate,
       PurchaseOrderDelete, PurchaseOrderConfirm, PurchaseOrderBackToDraft, PurchaseOrderCancel,
       PurchaseOrderCalc, PurchaseOrderInsert, PurchaseOrderSetStatus, PurchaseOrderUpdateFind,
       PurchaseOrderUpdateHeader, PurchaseOrderUpdateCommit
<1>5. ASSUME NEW r \in Requests, NoteRequest(r)
      PROVE  NoteStep(r, DeliveryNotes) \/ NoteStep(r, GoodsReceipts)
  BY <1>5 DEF NoteRequest, NoteStep, DeliveryNoteCreate, DeliveryNoteInsert, DeliveryNoteUpdate,
       DeliveryNoteReplace, DeliveryNoteDelete, GoodsReceiptCreate, GoodsReceiptInsert,
       GoodsReceiptUpdate, GoodsReceiptReplace, GoodsReceiptDelete
<1> QED
  BY <1>1, <1>2, <1>3, <1>4, <1>5 DEF Next

-----------------------------------------------------------------------------
(* Every step keeps the shape.                                             *)

\* A request that begins, continues or ends.
LEMMA RequestMoves ==
    ASSUME RequestsOK, NEW r \in Requests, NEW m, RequestOK(m),
           Begin(r, m) \/ Continue(r, m) \/ Serve(r) \/ Answer(r)
    PROVE  RequestsOK'
<1>1. CASE Begin(r, m) \/ Continue(r, m)
  BY <1>1, RequestChange DEF Begin, Continue
<1>2. CASE Serve(r) \/ Answer(r)
  BY <1>2, RequestChange, DoneOK DEF Serve, Answer, Continue
<1> QED
  BY <1>1, <1>2

\* What a copy of a contact looks like.
LEMMA SnapshotOK ==
    ASSUME ContactsOK, NEW c \in Contacts \cup {None}, NEW current
    PROVE  contactSnapshot(c, current) \in Snapshot
  BY IdsAssumption DEF ContactsOK, ContactPerson, contactSnapshot, Snapshot

\* Beginning to edit, calculating and looking up change the request only.
LEMMA OrderReadsKeepShape ==
    ASSUME Shape, NEW r \in Requests, NEW ids \in SUBSET OrderIds,
           \/ OrderCreate(r, ids) \/ OrderUpdate(r, ids) \/ OrderCalc(r, ids)
           \/ OrderUpdateFind(r, ids) \/ OrderConfirm(r, ids)
           \/ OrderBackToDraft(r, ids) \/ OrderCancel(r, ids)
    PROVE  Shape'
<1>1. UNCHANGED <<partners, contacts, taxes, orders, lines, notes, locks, seen>>
  BY DEF OrderCreate, OrderUpdate, OrderCalc, OrderUpdateFind, OrderConfirm, OrderBackToDraft, OrderCancel
<1>2. RequestsOK'
  <2>1. CASE OrderCreate(r, ids) \/ OrderUpdate(r, ids)
    <3>1. PICK o \in ids, m \in Partners, c \in Contacts \cup {None}, form \in Forms, op \in {"create_rates", "update_rates"} :
            Begin(r, [op |-> op, order |-> o, mitra |-> m, contact |-> c, form |-> form])
      BY <2>1 DEF OrderCreate, OrderUpdate
    <3>2. RequestOK([op |-> op, order |-> o, mitra |-> m, contact |-> c, form |-> form])
      BY DEF RequestOK, Saving, Editing, Calced, Noting
    <3> QED
      BY <3>1, <3>2, RequestMoves DEF Shape
  <2>2. CASE OrderCalc(r, ids)
    <3> DEFINE m == requests[r]
               rates == resolveTaxRates(m.form.lines)
               calc == CalcLines(m.form.lines, rates, m.form.disc)
               n == [op |-> IF m.op = "create_rates" THEN "create_insert" ELSE "update_find",
                     order |-> m.order, mitra |-> m.mitra, contact |-> m.contact, form |-> m.form,
                     calc |-> calc]
    <3>1. Continue(r, n) /\ m.op \in {"create_rates", "update_rates"}
      BY <2>2 DEF OrderCalc
    <3>2. \A i \in DOMAIN calc.lines : calc.lines[i].taxes \subseteq FormTaxes(m.form)
      BY CalcTaxes
    <3> HIDE DEF calc
    <3>3. RequestOK(m)
      BY DEF Shape, RequestsOK
    <3>4. RequestOK(n)
      BY <3>1, <3>2, <3>3 DEF RequestOK, Saving, Editing, Calced, Noting
    <3> QED
      BY <3>1, <3>4, RequestMoves DEF Shape
  <2>3. CASE OrderUpdateFind(r, ids)
    <3> DEFINE m == requests[r]
               snap == contactSnapshot(m.contact, orders[m.order].contact)
               n == [op |-> "update_header", order |-> m.order, mitra |-> m.mitra,
                     form |-> m.form, calc |-> m.calc, snap |-> snap]
    <3>1. Continue(r, n) /\ m.op = "update_find"
      BY <2>3 DEF OrderUpdateFind
    <3>2. RequestOK(m)
      BY DEF Shape, RequestsOK
    <3>3. snap \in Snapshot
      BY <3>1, <3>2, SnapshotOK DEF Shape, RequestOK, Saving, Editing
    <3> HIDE DEF snap
    <3>4. RequestOK(n)
      BY <3>1, <3>2, <3>3 DEF RequestOK, Saving, Editing, Calced, Noting
    <3> QED
      BY <3>1, <3>4, RequestMoves DEF Shape
  <2>4. CASE OrderConfirm(r, ids) \/ OrderBackToDraft(r, ids) \/ OrderCancel(r, ids)
    <3>1. PICK o \in ids, status \in {"draft", "confirmed", "cancelled"} :
            Begin(r, [op |-> "set_status", order |-> o, status |-> status])
      BY <2>4 DEF OrderConfirm, OrderBackToDraft, OrderCancel
    <3>2. RequestOK([op |-> "set_status", order |-> o, status |-> status])
      BY DEF RequestOK, Saving, Editing, Calced, Noting
    <3> QED
      BY <3>1, <3>2, RequestMoves DEF Shape
  <2> QED
    BY <2>1, <2>2, <2>3, <2>4
<1> QED
  BY <1>1, <1>2 DEF Shape, ContactsOK, OrdersOK, LinesOK, NotesOK

\* Saving an order, in its two transactions, and deleting it.
LEMMA OrderWritesKeepShape ==
    ASSUME Shape, NEW r \in Requests, NEW ids \in SUBSET OrderIds,
           \/ OrderInsert(r, ids) \/ OrderUpdateHeader(r, ids) \/ OrderUpdateCommit(r, ids)
           \/ OrderDelete(r, ids) \/ SetStatus(r, ids)
    PROVE  Shape'
<1> DEFINE m == requests[r]
<1>1. RequestOK(m) /\ RequestsOK
  BY DEF Shape, RequestsOK
<1>2. UNCHANGED <<partners, contacts, taxes, notes, seen>>
  BY DEF OrderInsert, OrderUpdateHeader, OrderUpdateCommit, OrderDelete, SetStatus
<1>3. m.op \in Calced => \A i \in DOMAIN m.calc.lines : m.calc.lines[i].taxes \subseteq Taxes
  BY <1>1, FormTaxesTyped DEF RequestOK, Calced, Saving
<1>4. ASSUME NEW o \in OrderIds, NEW row, OrderOK(row), orders' = [orders EXCEPT ![o] = row]
      PROVE  OrdersOK'
  BY <1>4 DEF Shape, OrdersOK
<1>5. ASSUME NEW o \in OrderIds, NEW batches, lines' = [lines EXCEPT ![o] = batches],
             batches \subseteq lines[o] \cup {buildSalesOrderLines(r, m)}, m.op \in Calced
      PROVE  LinesOK'
  BY <1>3, <1>5 DEF Shape, LinesOK, buildSalesOrderLines
<1>6. CASE OrderInsert(r, ids)
  <2> DEFINE o == m.order
             snap == contactSnapshot(m.contact, None)
             row == [row |-> "live", mitra |-> m.mitra, status |-> "draft", contact |-> snap.contact,
                     copy |-> snap.copy, disc |-> m.form.disc,
                     additional |-> m.calc.additional, grandTotal |-> m.calc.grandTotal]
  <2>1. m.op = "create_insert" /\ o \in OrderIds /\ UNCHANGED locks /\ Answer(r)
    BY <1>6 DEF OrderInsert
  <2>2. snap \in Snapshot
    BY <1>1, <2>1, SnapshotOK DEF Shape, RequestOK, Saving, Editing
  <2>3. orders' = [orders EXCEPT ![o] = row]
    BY <1>6 DEF OrderInsert
  <2>4. lines' = [lines EXCEPT ![o] = {buildSalesOrderLines(r, m)}]
    BY <1>6 DEF OrderInsert
  <2> HIDE DEF snap
  <2>5. OrderOK(row)
    BY <1>1, <2>1, <2>2 DEF OrderOK, Snapshot, RequestOK, Saving
  <2> HIDE DEF row, o
  <2>6. OrdersOK' /\ LinesOK'
    BY <1>4, <1>5, <2>1, <2>3, <2>4, <2>5 DEF Calced
  <2>7. RequestsOK'
    BY <1>1, <2>1, DoneOK, RequestMoves
  <2> QED
    BY <1>2, <2>1, <2>6, <2>7 DEF Shape, ContactsOK, NotesOK
<1>7. CASE OrderUpdateHeader(r, ids)
  <2> DEFINE n == [op |-> "update_lines", order |-> m.order, mitra |-> m.mitra,
                   form |-> m.form, calc |-> m.calc, snap |-> m.snap, old |-> lines[m.order]]
  <2>1. m.op = "update_header" /\ m.order \in OrderIds /\ Continue(r, n) /\ UNCHANGED <<orders, lines>>
    BY <1>7 DEF OrderUpdateHeader
  <2>2. locks' = [locks EXCEPT ![m.order] = IF orders[m.order].row = "live" THEN r ELSE None]
    BY <1>7 DEF OrderUpdateHeader
  <2>3. RequestOK(n)
    BY <1>1, <2>1 DEF RequestOK, Saving, Editing, Calced, Noting
  <2>4. RequestsOK'
    BY <1>1, <2>1, <2>3, RequestMoves
  <2>5. locks' \in [OrderIds -> Requests \cup {None}]
    BY <2>2 DEF Shape
  <2> QED
    BY <1>2, <2>1, <2>4, <2>5 DEF Shape, ContactsOK, OrdersOK, LinesOK, NotesOK
<1>8. CASE OrderUpdateCommit(r, ids)
  <2> DEFINE o == m.order
             old == orders[o]
             row == IF old.row /= "live" THEN old
                    ELSE [old EXCEPT !.mitra = m.mitra,
                            !.contact = IF m.snap.keep THEN old.contact ELSE m.snap.contact,
                            !.copy = IF m.snap.keep THEN old.copy ELSE m.snap.copy,
                            !.disc = m.form.disc, !.additional = m.calc.additional,
                            !.grandTotal = m.calc.grandTotal]
  <2>1. m.op = "update_lines" /\ o \in OrderIds /\ Answer(r)
    BY <1>8 DEF OrderUpdateCommit
  <2>2. orders' = [orders EXCEPT ![o] = row]
    BY <1>8, <2>1 DEF OrderUpdateCommit, Shape, OrdersOK
  <2>3. lines' = [lines EXCEPT ![o] = (lines[o] \ m.old) \cup {buildSalesOrderLines(r, m)}]
    BY <1>8, <2>1 DEF OrderUpdateCommit, Shape, LinesOK
  <2>4. OrderOK(old) /\ m.snap \in Snapshot /\ m.mitra \in Partners
    BY <1>1, <2>1 DEF Shape, OrdersOK, RequestOK, Saving, Editing
  <2> HIDE DEF old
  <2>5. OrderOK(row)
    BY <2>4 DEF OrderOK, Snapshot
  <2>6. locks' \in [OrderIds -> Requests \cup {None}]
    BY <1>8, <2>1 DEF OrderUpdateCommit, Shape
  <2> HIDE DEF row, o
  <2>7. OrdersOK' /\ LinesOK'
    BY <1>4, <1>5, <2>1, <2>2, <2>3, <2>5 DEF Calced
  <2>8. RequestsOK'
    BY <1>1, <2>1, DoneOK, RequestMoves
  <2> QED
    BY <1>2, <2>6, <2>7, <2>8 DEF Shape, ContactsOK, NotesOK
<1>9. CASE OrderDelete(r, ids)
  <2>1. PICK o \in ids : orders' = [orders EXCEPT ![o].row = "deleted"]
    BY <1>9 DEF OrderDelete
  <2>2. OrdersOK'
    <3>1. OrderOK(orders[o])
      BY DEF Shape, OrdersOK
    <3>2. OrderOK([orders[o] EXCEPT !.row = "deleted"])
      BY <3>1 DEF OrderOK
    <3> QED
      BY <1>4, <2>1, <3>2 DEF Shape, OrdersOK
  <2>3. RequestsOK' /\ UNCHANGED <<lines, locks>>
    BY <1>1, <1>9, DoneOK, RequestMoves DEF OrderDelete
  <2> QED
    BY <1>2, <2>2, <2>3 DEF Shape, ContactsOK, LinesOK, NotesOK
<1>10. CASE SetStatus(r, ids)
  <2>1. m.op = "set_status" /\ m.order \in OrderIds
    BY <1>10 DEF SetStatus
  <2>2. PICK status \in {m.status, orders[m.order].status} :
          orders' = [orders EXCEPT ![m.order].status = status]
    BY <1>10, <2>1 DEF SetStatus, Shape, OrdersOK
  <2>3. OrdersOK'
    <3>1. OrderOK(orders[m.order]) /\ status \in {"draft", "confirmed", "cancelled"}
      BY <1>1, <2>1, <2>2 DEF Shape, OrdersOK, OrderOK, RequestOK
    <3>2. OrderOK([orders[m.order] EXCEPT !.status = status])
      BY <3>1 DEF OrderOK
    <3> QED
      BY <1>4, <2>1, <2>2, <3>2 DEF Shape, OrdersOK
  <2>4. RequestsOK' /\ UNCHANGED <<lines, locks>>
    BY <1>1, <1>10, DoneOK, RequestMoves DEF SetStatus
  <2> QED
    BY <1>2, <2>3, <2>4 DEF Shape, ContactsOK, LinesOK, NotesOK
<1> QED
  BY <1>6, <1>7, <1>8, <1>9, <1>10

\* Notes.
LEMMA NoteStepsKeepShape ==
    ASSUME Shape, NEW r \in Requests, NEW ids \in SUBSET NoteIds, NoteStep(r, ids)
    PROVE  Shape'
<1> DEFINE m == requests[r]
<1>1. RequestOK(m) /\ RequestsOK /\ NotesOK
  BY DEF Shape, RequestsOK
<1>2. UNCHANGED <<partners, contacts, taxes, orders, lines, locks, seen>>
  BY DEF NoteStep, NoteCreate, NoteInsert, NoteUpdate, NoteReplace, NoteDelete
<1>3. RequestsOK'
  <2>1. CASE NoteCreate(r, ids) \/ NoteUpdate(r, ids)
    <3>1. PICK n \in ids, mitra \in Partners, op \in Noting :
            Begin(r, [op |-> op, note |-> n, mitra |-> mitra])
      BY <2>1 DEF NoteCreate, NoteUpdate, Noting
    <3>2. RequestOK([op |-> op, note |-> n, mitra |-> mitra])
      BY DEF RequestOK, Saving, Editing, Calced, Noting
    <3> QED
      BY <1>1, <3>1, <3>2, RequestMoves
  <2>2. CASE NoteInsert(r, ids) \/ NoteReplace(r, ids) \/ NoteDelete(r, ids)
    BY <1>1, <2>2, DoneOK, RequestMoves DEF NoteInsert, NoteReplace, NoteDelete
  <2> QED
    BY <2>1, <2>2 DEF NoteStep
<1>4. NotesOK'
  <2>1. CASE NoteCreate(r, ids) \/ NoteUpdate(r, ids)
    BY <1>1, <2>1 DEF NoteCreate, NoteUpdate, NotesOK
  <2>2. CASE NoteInsert(r, ids)
    BY <1>1, <2>2 DEF NoteInsert, NotesOK, DeliveryNote, RequestOK, Noting
  <2>3. CASE NoteReplace(r, ids)
    BY <1>1, <2>3 DEF NoteReplace, NotesOK, DeliveryNote, RequestOK, Noting
  <2>4. CASE NoteDelete(r, ids)
    BY <1>1, <2>4 DEF NoteDelete, NotesOK, DeliveryNote
  <2> QED
    BY <2>1, <2>2, <2>3, <2>4 DEF NoteStep
<1> QED
  BY <1>2, <1>3, <1>4 DEF Shape, ContactsOK, OrdersOK, LinesOK

\* A refused request gives up its lock.
LEMMA AbortKeepsShape ==
    ASSUME Shape, NEW r \in Requests, Abort(r)
    PROVE  Shape'
<1>1. RequestsOK'
  BY DoneOK, RequestMoves DEF Shape, Abort
<1>2. locks' \in [OrderIds -> Requests \cup {None}]
  BY DEF Shape, Abort
<1> QED
  BY <1>1, <1>2 DEF Abort, Shape, ContactsOK, OrdersOK, LinesOK, NotesOK

\* What was saved of a contact list is remembered.
LEMMA RememberedOK ==
    ASSUME Shape, NEW rows, RowsKept(contacts, rows), contacts' = rows, seen' = remember(rows)
    PROVE  ContactsOK' /\ seen' \in [Contacts -> SUBSET Details]
<1>1. ContactsOK'
  BY DEF RowsKept, ContactsOK
<1>2. \A c \in Contacts : rows[c].details \in Details \cup {None}
  BY DEF RowsKept, ContactPerson
<1> QED
  BY <1>1, <1>2 DEF Shape, remember

\* Partners and their contacts.
LEMMA PartnerStepsKeepShape ==
    ASSUME Shape, NEW r \in Requests, PartnerRequest(r)
    PROVE  Shape'
<1>1. ContactsOK /\ RequestsOK /\ RequestOK(requests[r])
  BY DEF Shape, RequestsOK
<1>2. UNCHANGED <<taxes, orders, lines, notes, locks>>
  BY DEF PartnerRequest, MitraCreate, MitraUpdate, MitraDeleteCheck, MitraDelete,
         ContactCreate, ContactUpdate, ContactDelete
<1>3. RequestsOK'
  <2>1. CASE MitraDeleteCheck(r)
    <3>1. PICK mitra \in Partners : Begin(r, [op |-> "mitra_delete", mitra |-> mitra])
      BY <2>1 DEF MitraDeleteCheck
    <3>2. RequestOK([op |-> "mitra_delete", mitra |-> mitra])
      BY DEF RequestOK, Saving, Editing, Calced, Noting
    <3> QED
      BY <1>1, <3>1, <3>2, RequestMoves
  <2>2. CASE ~MitraDeleteCheck(r)
    <3>1. Serve(r) \/ Answer(r)
      BY <2>2 DEF PartnerRequest, MitraCreate, MitraUpdate, MitraDelete,
                  ContactCreate, ContactUpdate, ContactDelete
    <3> QED
      BY <1>1, <3>1, DoneOK, RequestMoves
  <2> QED
    BY <2>1, <2>2
<1>4. partners' \in [Partners -> Mitra]
  BY <1>1 DEF Shape, Mitra, PartnerRequest, MitraCreate, MitraUpdate, MitraDeleteCheck, MitraDelete,
              ContactCreate, ContactUpdate, ContactDelete
<1>5. ContactsOK' /\ seen' \in [Contacts -> SUBSET Details]
  <2>1. ASSUME NEW m \in Partners, NEW list \in Lists, NEW perms \in Perms, MitraCreate(r, m, list, perms)
        PROVE  ContactsOK' /\ seen' \in [Contacts -> SUBSET Details]
    <3> DEFINE rows == syncContacts(m, list, perms \cap {"create"}).rows
    <3>1. contacts' = rows /\ seen' = remember(rows)
      BY <2>1 DEF MitraCreate
    <3>2. RowsKept(contacts, rows)
      BY <1>1, SyncContactsKeeps
    <3> HIDE DEF rows
    <3> QED
      BY <3>1, <3>2, RememberedOK
  <2>2. ASSUME NEW m \in Partners, NEW list \in Lists, NEW perms \in Perms, MitraUpdate(r, m, list, perms)
        PROVE  ContactsOK' /\ seen' \in [Contacts -> SUBSET Details]
    <3> DEFINE rows == syncContacts(m, list, perms).rows
    <3>1. contacts' = rows /\ seen' = remember(rows)
      BY <2>2 DEF MitraUpdate
    <3>2. RowsKept(contacts, rows)
      BY <1>1, SyncContactsKeeps
    <3> HIDE DEF rows
    <3> QED
      BY <3>1, <3>2, RememberedOK
  <2>3. CASE MitraDeleteCheck(r) \/ MitraDelete(r)
    BY <1>1, <2>3 DEF MitraDeleteCheck, MitraDelete, Shape, ContactsOK
  <2>4. CASE ContactCreate(r)
    BY <1>1, <2>4 DEF ContactCreate, newContact, Shape, ContactsOK, ContactPerson, Real
  <2>5. CASE ContactUpdate(r)
    <3>1. PICK c \in Contacts, d \in Details :
            /\ contacts[c].row = "live"
            /\ contacts' = [contacts EXCEPT ![c].details = d, ![c].by = "user"]
            /\ seen' = [seen EXCEPT ![c] = @ \cup {d}]
      BY <2>5 DEF ContactUpdate, liveContacts
    <3> DEFINE row == [contacts[c] EXCEPT !.details = d, !.by = "user"]
    <3>2. contacts' = [contacts EXCEPT ![c] = row]
      BY <1>1, <3>1 DEF ContactsOK
    <3>3. row \in ContactPerson /\ row.details = d
      BY <1>1 DEF ContactsOK, ContactPerson
    <3> HIDE DEF row
    <3>4. ContactsOK'
      BY <1>1, <3>2, <3>3 DEF ContactsOK
    <3> QED
      BY <3>1, <3>4 DEF Shape
  <2>6. CASE ContactDelete(r)
    BY <1>1, <2>6 DEF ContactDelete, liveContacts, Shape, ContactsOK, ContactPerson, Real
  <2> QED
    BY <2>1, <2>2, <2>3, <2>4, <2>5, <2>6 DEF PartnerRequest
<1> QED
  BY <1>2, <1>3, <1>4, <1>5 DEF Shape, OrdersOK, LinesOK, NotesOK

\* Taxes.
LEMMA TaxStepsKeepShape ==
    ASSUME Shape, NEW r \in Requests, TaxRequest(r)
    PROVE  Shape'
<1>1. RequestsOK /\ RequestOK(requests[r]) /\ taxes \in [Taxes -> Tax]
  BY DEF Shape, RequestsOK
<1>2. UNCHANGED <<partners, contacts, orders, lines, notes, locks, seen>>
  BY DEF TaxRequest, TaxUpdate, TaxDeleteCheck, TaxDelete
<1>3. RequestsOK'
  <2>1. CASE TaxDeleteCheck(r)
    <3>1. PICK t \in Taxes : Begin(r, [op |-> "tax_delete", tax |-> t])
      BY <2>1 DEF TaxDeleteCheck
    <3>2. RequestOK([op |-> "tax_delete", tax |-> t])
      BY DEF RequestOK, Saving, Editing, Calced, Noting
    <3> QED
      BY <1>1, <3>1, <3>2, RequestMoves
  <2>2. CASE TaxUpdate(r) \/ TaxDelete(r)
    BY <1>1, <2>2, DoneOK, RequestMoves DEF TaxUpdate, TaxDelete
  <2> QED
    BY <2>1, <2>2 DEF TaxRequest
<1>4. taxes' \in [Taxes -> Tax]
  <2>1. CASE TaxUpdate(r)
    <3>1. PICK t \in Taxes, rate \in Rates, method \in {"exclusive", "inclusive"},
               active \in BOOLEAN :
            taxes' = [taxes EXCEPT ![t].rate = rate, ![t].method = method, ![t].active = active]
      BY <2>1 DEF TaxUpdate
    <3> DEFINE row == [taxes[t] EXCEPT !.rate = rate, !.method = method, !.active = active]
    <3>2. taxes' = [taxes EXCEPT ![t] = row]
      BY <1>1, <3>1
    <3>3. row \in Tax
      BY <1>1 DEF Tax
    <3> HIDE DEF row
    <3> QED
      BY <1>1, <3>2, <3>3
  <2>2. CASE TaxDelete(r)
    BY <1>1, <2>2 DEF TaxDelete, Tax
  <2>3. CASE TaxDeleteCheck(r)
    BY <1>1, <2>3 DEF TaxDeleteCheck
  <2> QED
    BY <2>1, <2>2, <2>3 DEF TaxRequest
<1> QED
  BY <1>2, <1>3, <1>4 DEF Shape, ContactsOK, OrdersOK, LinesOK, NotesOK

\* The clean-up of a start removes rows, and changes nothing else.
LEMMA CleanUpKeepsShape ==
    ASSUME Shape, RemovePICBackfilledContacts
    PROVE  Shape'
<1>1. ContactsOK'
  BY DEF RemovePICBackfilledContacts, Shape, ContactsOK, ContactPerson, Real
<1> QED
  BY <1>1 DEF RemovePICBackfilledContacts, Shape, OrdersOK, LinesOK, NotesOK, RequestsOK

LEMMA ShapeStep == Shape /\ [Next]_vars => Shape'
<1> SUFFICES ASSUME Shape, [Next]_vars PROVE Shape'
  OBVIOUS
<1>1. CASE Next
  BY <1>1, Steps, OrderReadsKeepShape, OrderWritesKeepShape, NoteStepsKeepShape,
     PartnerStepsKeepShape, TaxStepsKeepShape, AbortKeepsShape, CleanUpKeepsShape DEF OrderStep
<1>2. CASE UNCHANGED vars
  BY <1>2 DEF vars, Shape, ContactsOK, OrdersOK, LinesOK, NotesOK, RequestsOK
<1> QED
  BY <1>1, <1>2

\* What the initial state is made of.
LEMMA InitPicks ==
    /\ (CHOOSE m \in Partners : TRUE) \in Partners
    /\ (CHOOSE c \in Contacts : TRUE) \in Contacts
    /\ (CHOOSE d \in Details : TRUE) \in Details
    /\ (CHOOSE rate \in Rates : TRUE) \in Rates
  BY NonEmptyAssumption

LEMMA InitShape == Init => Shape
<1> SUFFICES ASSUME Init PROVE Shape
  OBVIOUS
<1>1. PICK known \in Partners, contact \in Contacts, d \in Details, formed \in Forms :
        InitWith(known, contact, d, formed)
  BY InitPicks DEF Init
<1>2. taxes \in [Taxes -> Tax]
  <2>1. PICK rate \in Rates, method \in Methods :
          taxes = [t \in Taxes |-> [row |-> "live", active |-> TRUE, rate |-> rate, method |-> method[t]]]
    BY InitPicks DEF Init
  <2>2. method \in [Taxes -> {"exclusive", "inclusive"}]
    BY IdsAssumption
  <2> QED
    BY <2>1, <2>2 DEF Tax
<1> DEFINE rates == [t \in Taxes |-> [rate |-> taxes[t].rate, method |-> taxes[t].method]]
           calc == CalcLines(formed.lines, rates, formed.disc)
<1>3. \A i \in DOMAIN calc.lines : calc.lines[i].taxes \subseteq Taxes
  <2>1. \A i \in DOMAIN calc.lines : calc.lines[i].taxes \subseteq FormTaxes(formed)
    BY CalcTaxes
  <2> QED
    BY <2>1, FormTaxesTyped
<1> DEFINE absent == [row |-> "absent", mitra |-> None, status |-> "draft", contact |-> None,
                      copy |-> None, disc |-> formed.disc, additional |-> 0, grandTotal |-> 0]
           draft == [row |-> "live", mitra |-> known, status |-> "draft", contact |-> contact,
                     copy |-> d, disc |-> formed.disc, additional |-> calc.additional,
                     grandTotal |-> calc.grandTotal]
           batch == [by |-> None, input |-> formed.lines, rows |-> calc.lines]
<1>4. PICK made \in SUBSET OrderIds :
        /\ orders = [o \in OrderIds |-> IF o \in made THEN draft ELSE absent]
        /\ lines = [o \in OrderIds |-> IF o \in made THEN {batch} ELSE {}]
  BY <1>1 DEF InitWith
<1>5. OrderOK(draft) /\ OrderOK(absent)
  BY DEF OrderOK
<1>6. OrdersOK
  <2> HIDE DEF draft, absent
  <2> QED
    BY <1>4, <1>5 DEF OrdersOK
<1>7. LinesOK
  BY <1>3, <1>4 DEF LinesOK
<1>8. ContactsOK
  BY <1>1 DEF InitWith, ContactsOK, ContactPerson, Real
<1>9. NotesOK
  BY <1>1 DEF InitWith, NotesOK, DeliveryNote
<1>10. RequestsOK
  BY <1>1, DoneOK DEF InitWith, RequestsOK
<1>11. /\ partners \in [Partners -> Mitra]
       /\ locks \in [OrderIds -> Requests \cup {None}]
       /\ seen \in [Contacts -> SUBSET Details]
  BY <1>1 DEF InitWith, Mitra
<1> QED
  BY <1>2, <1>6, <1>7, <1>8, <1>9, <1>10, <1>11 DEF Shape

-----------------------------------------------------------------------------
(* The copies of contacts.                                                 *)

\* Either no contact, or a row of the database and details that it had.
Copied(c, d) ==
    /\ c = None <=> d = None
    /\ c # None => contacts[c].row \in Real /\ d \in seen[c]

\* The same of the copy that an edit is about to write.
CopiesHeld == \A r \in Requests :
    requests[r].op \in Editing /\ ~requests[r].snap.keep =>
        Copied(requests[r].snap.contact, requests[r].snap.copy)

DetailsSeen == \A c \in Contacts : contacts[c].row \in Real => contacts[c].details \in seen[c]

CopyInv ==
    /\ Shape
    /\ DetailsSeen
    /\ CopiesHeld
    /\ \A o \in OrderIds : Copied(orders[o].contact, orders[o].copy)

\* A contact keeps its row, and the details it had are not forgotten.
ContactsStay == \A c \in Contacts :
    /\ contacts[c].row \in Real => contacts'[c].row \in Real
    /\ seen[c] \subseteq seen'[c]

LEMMA CopiesStay ==
    ASSUME ContactsStay, NEW c \in Contacts \cup {None}, NEW d, Copied(c, d)
    PROVE  Copied(c, d)'
  BY DEF ContactsStay, Copied

\* What is copied when a contact is chosen.
LEMMA SnapshotCopied ==
    ASSUME CopyInv, NEW m, NEW c \in Contacts \cup {None}, NEW current,
           contactValid(m, c, current), ~contactSnapshot(c, current).keep
    PROVE  Copied(contactSnapshot(c, current).contact, contactSnapshot(c, current).copy)
<1>1. CASE c = None
  BY <1>1 DEF contactSnapshot, Copied
<1>2. CASE c # None
  <2>1. c \in Contacts /\ c # current
    BY <1>2 DEF contactSnapshot
  <2>2. contacts[c].row \in Real
    BY <2>1, <1>2 DEF contactValid, Real
  <2>3. contacts[c].details \in Details /\ contacts[c].details \in seen[c]
    BY <2>1, <2>2 DEF CopyInv, Shape, ContactsOK, DetailsSeen
  <2> QED
    BY <1>2, <2>1, <2>2, <2>3, IdsAssumption DEF contactSnapshot, Copied
<1> QED
  BY <1>1, <1>2

\* Serving requests keeps the rows of contacts.
LEMMA ContactsStayStep ==
    ASSUME CopyInv, Next, ~RemovePICBackfilledContacts
    PROVE  ContactsStay /\ DetailsSeen'
<1>1. ContactsOK /\ DetailsSeen /\ seen \in [Contacts -> SUBSET Details]
  BY DEF CopyInv, Shape
<1>2. ASSUME UNCHANGED <<contacts, seen>>
      PROVE  ContactsStay /\ DetailsSeen'
  BY <1>1, <1>2 DEF ContactsStay, DetailsSeen
<1>3. ASSUME NEW rows, RowsKept(contacts, rows), contacts' = rows, seen' = remember(rows)
      PROVE  ContactsStay /\ DetailsSeen'
  <2>1. ContactsStay
    BY <1>1, <1>3 DEF ContactsStay, RowsKept, remember
  <2>2. \A c \in Contacts : rows[c].row \in Real => rows[c].details \in Details /\ rows[c].details # None
    BY <1>3, IdsAssumption DEF RowsKept
  <2> QED
    BY <1>3, <2>1, <2>2 DEF DetailsSeen, remember
<1>4. ASSUME NEW r \in Requests, NEW ids \in SUBSET OrderIds, OrderStep(r, ids)
      PROVE  UNCHANGED <<contacts, seen>>
  BY <1>4 DEF OrderStep, OrderCreate, OrderUpdate, OrderDelete, OrderConfirm, OrderBackToDraft,
       OrderCancel, OrderCalc, OrderInsert, SetStatus, OrderUpdateFind, OrderUpdateHeader, OrderUpdateCommit
<1>5. ASSUME NEW r \in Requests, NEW ids \in SUBSET NoteIds, NoteStep(r, ids)
      PROVE  UNCHANGED <<contacts, seen>>
  BY <1>5 DEF NoteStep, NoteCreate, NoteInsert, NoteUpdate, NoteReplace, NoteDelete
<1>6. ASSUME NEW r \in Requests, TaxRequest(r) \/ Abort(r)
      PROVE  UNCHANGED <<contacts, seen>>
  BY <1>6 DEF TaxRequest, TaxUpdate, TaxDeleteCheck, TaxDelete, Abort
<1>7. ASSUME NEW r \in Requests, PartnerRequest(r)
      PROVE  ContactsStay /\ DetailsSeen'
  <2>1. ASSUME NEW m \in Partners, NEW list \in Lists, NEW perms \in Perms,
               MitraCreate(r, m, list, perms) \/ MitraUpdate(r, m, list, perms)
        PROVE  ContactsStay /\ DetailsSeen'
    <3>1. PICK allowed : contacts' = syncContacts(m, list, allowed).rows
                           /\ seen' = remember(syncContacts(m, list, allowed).rows)
      BY <2>1 DEF MitraCreate, MitraUpdate
    <3>2. RowsKept(contacts, syncContacts(m, list, allowed).rows)
      BY <1>1, SyncContactsKeeps
    <3> QED
      BY <1>3, <3>1, <3>2
  <2>2. CASE MitraDeleteCheck(r) \/ MitraDelete(r)
    BY <1>2, <2>2 DEF MitraDeleteCheck, MitraDelete
  <2>3. CASE ContactCreate(r)
    BY <1>1, <2>3 DEF ContactCreate, newContact, ContactsOK, ContactPerson, Real, ContactsStay, DetailsSeen
  <2>4. CASE ContactUpdate(r)
    <3>1. PICK c \in Contacts, d \in Details :
            /\ contacts[c].row = "live"
            /\ contacts' = [contacts EXCEPT ![c].details = d, ![c].by = "user"]
            /\ seen' = [seen EXCEPT ![c] = @ \cup {d}]
      BY <2>4 DEF ContactUpdate, liveContacts
    <3>2. \A x \in Contacts \ {c} : contacts'[x] = contacts[x] /\ seen'[x] = seen[x]
      BY <1>1, <3>1 DEF ContactsOK
    <3>3. contacts'[c].row = "live" /\ contacts'[c].details = d /\ seen'[c] = seen[c] \cup {d}
      BY <1>1, <3>1 DEF ContactsOK, ContactPerson
    <3> QED
      BY <1>1, <3>2, <3>3 DEF ContactsStay, DetailsSeen, Real
  <2>5. CASE ContactDelete(r)
    BY <1>1, <2>5 DEF ContactDelete, liveContacts, ContactsOK, ContactPerson, Real, ContactsStay, DetailsSeen
  <2> QED
    BY <2>1, <2>2, <2>3, <2>4, <2>5, <1>7 DEF PartnerRequest
<1> QED
  BY <1>2, <1>4, <1>5, <1>6, <1>7, Steps

\* An order gets the copy of a save, which was taken soundly.
LEMMA OrderCopies ==
    ASSUME CopyInv, Next, NEW o \in OrderIds
    PROVE  Copied(orders'[o].contact, orders'[o].copy)
<1>1. Copied(orders[o].contact, orders[o].copy) /\ OrderOK(orders[o]) /\ OrdersOK
  BY DEF CopyInv, Shape, OrdersOK
<1>2. CASE UNCHANGED orders
  BY <1>1, <1>2
<1>3. ASSUME NEW p \in OrderIds, orders' = [orders EXCEPT ![p].row = "deleted"]
      PROVE  Copied(orders'[o].contact, orders'[o].copy)
  BY <1>1, <1>3 DEF OrdersOK, OrderOK
<1>4. ASSUME NEW p \in OrderIds, NEW status, orders' = [orders EXCEPT ![p].status = status]
      PROVE  Copied(orders'[o].contact, orders'[o].copy)
  BY <1>1, <1>4 DEF OrdersOK, OrderOK
<1>5. ASSUME NEW r \in Requests, NEW ids \in SUBSET OrderIds, OrderInsert(r, ids)
      PROVE  Copied(orders'[o].contact, orders'[o].copy)
  <2> DEFINE m == requests[r]
             snap == contactSnapshot(m.contact, None)
  <2>1. /\ m.op = "create_insert" /\ m.order \in OrderIds
        /\ contactValid(m.mitra, m.contact, None)
        /\ m.contact \in Contacts \cup {None}
    BY <1>5 DEF OrderInsert, CopyInv, Shape, RequestsOK, RequestOK, Saving, Editing
  <2>2. ~snap.keep
    BY DEF contactSnapshot
  <2>3. Copied(snap.contact, snap.copy)
    BY <2>1, <2>2, SnapshotCopied
  <2>4. o # m.order => orders'[o] = orders[o]
    BY <1>1, <1>5 DEF OrderInsert, OrdersOK
  <2>5. o = m.order => orders'[o].contact = snap.contact /\ orders'[o].copy = snap.copy
    BY <1>1, <1>5 DEF OrderInsert, OrdersOK
  <2> HIDE DEF snap
  <2> QED
    BY <1>1, <2>3, <2>4, <2>5
<1>6. ASSUME NEW r \in Requests, NEW ids \in SUBSET OrderIds, OrderUpdateCommit(r, ids)
      PROVE  Copied(orders'[o].contact, orders'[o].copy)
  <2> DEFINE m == requests[r]
             old == orders[m.order]
             new == [old EXCEPT !.mitra = m.mitra,
                            !.contact = IF m.snap.keep THEN old.contact ELSE m.snap.contact,
                            !.copy = IF m.snap.keep THEN old.copy ELSE m.snap.copy,
                            !.disc = m.form.disc, !.additional = m.calc.additional,
                            !.grandTotal = m.calc.grandTotal]
  <2>1. m.op = "update_lines" /\ m.order \in OrderIds
    BY <1>6 DEF OrderUpdateCommit
  <2>2. orders' = [orders EXCEPT ![m.order] = IF old.row /= "live" THEN old ELSE new]
    BY <1>6 DEF OrderUpdateCommit
  <2>3. CASE o # m.order \/ old.row # "live"
    BY <1>1, <2>1, <2>2, <2>3 DEF OrdersOK
  <2>4. CASE o = m.order /\ old.row = "live"
    <3>1. orders'[o] = new
      BY <1>1, <2>2, <2>4 DEF OrdersOK
    <3>2. /\ new.contact = IF m.snap.keep THEN old.contact ELSE m.snap.contact
          /\ new.copy = IF m.snap.keep THEN old.copy ELSE m.snap.copy
      BY <1>1, <2>4 DEF OrderOK
    <3>3. ~m.snap.keep => Copied(m.snap.contact, m.snap.copy)
      BY <2>1 DEF CopyInv, CopiesHeld, Editing
    <3> HIDE DEF new
    <3> QED
      BY <1>1, <2>4, <3>1, <3>2, <3>3
  <2> QED
    BY <2>3, <2>4
<1>7. ASSUME NEW r \in Requests, NEW ids \in SUBSET OrderIds, OrderStep(r, ids)
      PROVE  Copied(orders'[o].contact, orders'[o].copy)
  <2>1. CASE OrderDelete(r, ids)
    BY <1>3, <2>1 DEF OrderDelete
  <2>2. CASE SetStatus(r, ids)
    <3>1. PICK p \in OrderIds : \E status : orders' = [orders EXCEPT ![p].status = status]
      <4> DEFINE m == requests[r]
      <4>1. m.order \in OrderIds
        BY <2>2 DEF SetStatus
      <4>2. orders' = [orders EXCEPT ![m.order].status =
                          IF orders[m.order].row = "live" THEN m.status ELSE orders[m.order].status]
        BY <1>1, <2>2 DEF SetStatus, OrdersOK
      <4> QED
        BY <4>1, <4>2
    <3> QED
      BY <1>4, <3>1
  <2>3. CASE ~(OrderDelete(r, ids) \/ SetStatus(r, ids) \/ OrderInsert(r, ids) \/ OrderUpdateCommit(r, ids))
    BY <1>2, <1>7, <2>3 DEF OrderStep, OrderCreate, OrderUpdate, OrderConfirm, OrderBackToDraft,
         OrderCancel, OrderCalc, OrderUpdateFind, OrderUpdateHeader
  <2> QED
    BY <1>5, <1>6, <2>1, <2>2, <2>3
<1>8. ASSUME NEW r \in Requests, NEW ids \in SUBSET NoteIds, NoteStep(r, ids)
      PROVE  UNCHANGED orders
  BY <1>8 DEF NoteStep, NoteCreate, NoteInsert, NoteUpdate, NoteReplace, NoteDelete
<1>9. ASSUME NEW r \in Requests, PartnerRequest(r) \/ TaxRequest(r) \/ Abort(r)
      PROVE  UNCHANGED orders
  BY <1>9 DEF PartnerRequest, MitraCreate, MitraUpdate, MitraDeleteCheck, MitraDelete, ContactCreate,
       ContactUpdate, ContactDelete, TaxRequest, TaxUpdate, TaxDeleteCheck, TaxDelete, Abort
<1>10. RemovePICBackfilledContacts => UNCHANGED orders
  BY DEF RemovePICBackfilledContacts
<1> QED
  BY <1>2, <1>7, <1>8, <1>9, <1>10, Steps

\* A step of request r touches no other request.
LEMMA OneRequest ==
    ASSUME RequestsOK, NEW r \in Requests,
           \/ \E ids \in SUBSET OrderIds : OrderStep(r, ids)
           \/ \E ids \in SUBSET NoteIds : NoteStep(r, ids)
           \/ PartnerRequest(r) \/ TaxRequest(r) \/ Abort(r)
    PROVE  \A q \in Requests \ {r} : requests'[q] = requests[q]
<1>1. ASSUME \E m : Begin(r, m) \/ Continue(r, m)
      PROVE  \A q \in Requests \ {r} : requests'[q] = requests[q]
  BY <1>1 DEF RequestsOK, Begin, Continue
<1>2. ASSUME Serve(r) \/ Answer(r)
      PROVE  \A q \in Requests \ {r} : requests'[q] = requests[q]
  BY <1>1, <1>2 DEF Serve, Answer
<1>3. ASSUME NEW ids \in SUBSET OrderIds, OrderStep(r, ids)
      PROVE  Serve(r) \/ Answer(r) \/ \E m : Begin(r, m) \/ Continue(r, m)
  BY <1>3 DEF OrderStep, OrderCreate, OrderUpdate, OrderDelete, OrderConfirm, OrderBackToDraft,
       OrderCancel, OrderCalc, OrderInsert, SetStatus, OrderUpdateFind, OrderUpdateHeader, OrderUpdateCommit
<1>4. ASSUME NEW ids \in SUBSET NoteIds, NoteStep(r, ids)
      PROVE  Serve(r) \/ Answer(r) \/ \E m : Begin(r, m) \/ Continue(r, m)
  BY <1>4 DEF NoteStep, NoteCreate, NoteInsert, NoteUpdate, NoteReplace, NoteDelete
<1>5. ASSUME PartnerRequest(r) \/ TaxRequest(r) \/ Abort(r)
      PROVE  Serve(r) \/ Answer(r) \/ \E m : Begin(r, m) \/ Continue(r, m)
  BY <1>5 DEF PartnerRequest, MitraCreate, MitraUpdate, MitraDeleteCheck, MitraDelete, ContactCreate,
       ContactUpdate, ContactDelete, TaxRequest, TaxUpdate, TaxDeleteCheck, TaxDelete, Abort
<1> QED
  BY <1>1, <1>2, <1>3, <1>4, <1>5

\* Only the lookup of the contact makes a copy that waits to be written.
LEMMA EditingBegins ==
    ASSUME RequestsOK, NEW r \in Requests, requests'[r].op \in Editing,
           \/ \E ids \in SUBSET OrderIds : OrderStep(r, ids)
           \/ \E ids \in SUBSET NoteIds : NoteStep(r, ids)
           \/ PartnerRequest(r) \/ TaxRequest(r) \/ Abort(r)
    PROVE  \E ids \in SUBSET OrderIds : OrderUpdateFind(r, ids) \/ OrderUpdateHeader(r, ids)
<1>1. ~(Serve(r) \/ Answer(r))
  BY DEF RequestsOK, Serve, Answer, Continue, Editing
<1>2. ASSUME NEW m, m.op \notin Editing, Begin(r, m) \/ Continue(r, m) PROVE FALSE
  BY <1>2 DEF RequestsOK, Begin, Continue
<1>3. ASSUME NEW ids \in SUBSET OrderIds, OrderStep(r, ids)
      PROVE  OrderUpdateFind(r, ids) \/ OrderUpdateHeader(r, ids)
  <2>1. CASE OrderCreate(r, ids) \/ OrderUpdate(r, ids) \/ OrderConfirm(r, ids)
             \/ OrderBackToDraft(r, ids) \/ OrderCancel(r, ids)
    <3>1. PICK m : m.op \notin Editing /\ Begin(r, m)
      BY <2>1 DEF OrderCreate, OrderUpdate, OrderConfirm, OrderBackToDraft, OrderCancel, Editing
    <3> QED
      BY <1>2, <3>1
  <2>2. CASE OrderCalc(r, ids)
    <3>1. PICK m : m.op \notin Editing /\ Continue(r, m)
      BY <2>2 DEF OrderCalc, Editing
    <3> QED
      BY <1>2, <3>1
  <2>3. CASE OrderDelete(r, ids) \/ OrderInsert(r, ids) \/ SetStatus(r, ids) \/ OrderUpdateCommit(r, ids)
    BY <1>1, <2>3 DEF OrderDelete, OrderInsert, SetStatus, OrderUpdateCommit
  <2> QED
    BY <1>3, <2>1, <2>2, <2>3 DEF OrderStep
<1>4. ASSUME NEW ids \in SUBSET NoteIds, NoteStep(r, ids) PROVE FALSE
  <2>1. CASE NoteCreate(r, ids) \/ NoteUpdate(r, ids)
    <3>1. PICK m : m.op \notin Editing /\ Begin(r, m)
      BY <2>1 DEF NoteCreate, NoteUpdate, Editing
    <3> QED
      BY <1>2, <3>1
  <2>2. CASE NoteInsert(r, ids) \/ NoteReplace(r, ids) \/ NoteDelete(r, ids)
    BY <1>1, <2>2 DEF NoteInsert, NoteReplace, NoteDelete
  <2> QED
    BY <1>4, <2>1, <2>2 DEF NoteStep
<1>5. ASSUME PartnerRequest(r) \/ TaxRequest(r) \/ Abort(r) PROVE FALSE
  <2>1. CASE MitraDeleteCheck(r) \/ TaxDeleteCheck(r)
    <3>1. PICK m : m.op \notin Editing /\ Begin(r, m)
      BY <2>1 DEF MitraDeleteCheck, TaxDeleteCheck, Editing
    <3> QED
      BY <1>2, <3>1
  <2> QED
    BY <1>1, <1>5, <2>1 DEF PartnerRequest, MitraCreate, MitraUpdate, MitraDelete, ContactCreate,
         ContactUpdate, ContactDelete, TaxRequest, TaxUpdate, TaxDelete, Abort
<1> QED
  BY <1>3, <1>4, <1>5

LEMMA CopiesHeldStep ==
    ASSUME CopyInv, ContactsStay, NEW r \in Requests,
           \/ \E ids \in SUBSET OrderIds : OrderStep(r, ids)
           \/ \E ids \in SUBSET NoteIds : NoteStep(r, ids)
           \/ PartnerRequest(r) \/ TaxRequest(r) \/ Abort(r)
    PROVE  CopiesHeld'
<1> SUFFICES ASSUME NEW q \in Requests, requests'[q].op \in Editing, ~requests'[q].snap.keep
             PROVE  Copied(requests[q].snap.contact, requests[q].snap.copy)'
  BY DEF CopiesHeld
<1>1. RequestsOK /\ RequestOK(requests[q])
  BY DEF CopyInv, Shape, RequestsOK
<1>2. ASSUME requests[q].op \in Editing, requests'[q].snap = requests[q].snap
      PROVE  Copied(requests[q].snap.contact, requests[q].snap.copy)'
  <2>1. requests[q].snap \in Snapshot
    BY <1>1, <1>2 DEF RequestOK
  <2>2. Copied(requests[q].snap.contact, requests[q].snap.copy)
    BY <1>2 DEF CopyInv, CopiesHeld
  <2>3. requests[q].snap.contact \in Contacts \cup {None}
    BY <2>1 DEF Snapshot
  <2>4. ASSUME NEW c \in Contacts \cup {None}, NEW d, Copied(c, d),
               c = requests'[q].snap.contact, d = requests'[q].snap.copy
        PROVE  Copied(requests[q].snap.contact, requests[q].snap.copy)'
    BY <2>4, CopiesStay DEF Copied
  <2> QED
    BY <1>2, <2>2, <2>3, <2>4
<1>3. CASE q # r
  <2>1. requests'[q] = requests[q]
    BY <1>1, <1>3, OneRequest
  <2> QED
    BY <1>2, <2>1
<1>4. CASE q = r
  <2>1. PICK ids \in SUBSET OrderIds : OrderUpdateFind(r, ids) \/ OrderUpdateHeader(r, ids)
    BY <1>1, <1>4, EditingBegins
  <2>2. CASE OrderUpdateHeader(r, ids)
    <3>1. requests[r].op = "update_header" /\ requests'[r].snap = requests[r].snap
      BY <1>1, <2>2 DEF OrderUpdateHeader, Continue, RequestsOK
    <3> QED
      BY <1>2, <1>4, <3>1 DEF Editing
  <2>3. CASE OrderUpdateFind(r, ids)
    <3> DEFINE m == requests[r]
               current == orders[m.order].contact
               snap == contactSnapshot(m.contact, current)
    <3>1. /\ m.op = "update_find" /\ contactValid(m.mitra, m.contact, current)
          /\ requests'[r].snap = snap /\ UNCHANGED <<contacts, seen>>
      BY <1>1, <2>3 DEF OrderUpdateFind, Continue, RequestsOK
    <3>2. m.contact \in Contacts \cup {None}
      BY <1>1, <1>4, <3>1 DEF RequestOK, Saving, Editing
    <3>3. Copied(snap.contact, snap.copy)
      BY <1>4, <3>1, <3>2, SnapshotCopied
    <3> HIDE DEF snap
    <3> QED
      BY <1>4, <3>1, <3>3 DEF Copied
  <2> QED
    BY <2>1, <2>2, <2>3
<1> QED
  BY <1>3, <1>4

\* The clean-up of a start runs before requests are served, and leaves the
\* contacts that orders refer to.
LEMMA CleanUpKeepsCopies ==
    ASSUME CopyInv, RemovePICBackfilledContacts
    PROVE  /\ DetailsSeen' /\ CopiesHeld'
           /\ \A o \in OrderIds : Copied(orders[o].contact, orders[o].copy)'
<1>1. ContactsOK /\ DetailsSeen /\ seen' = seen /\ requests' = requests /\ orders' = orders
  BY DEF CopyInv, Shape, RemovePICBackfilledContacts
<1>2. \A c \in Contacts :
        /\ contacts'[c].details = contacts[c].details
        /\ contacts'[c] = contacts[c] \/ contacts'[c].row = "purged"
        /\ (\E o \in OrderIds : orders[o].contact = c) => contacts'[c] = contacts[c]
  BY <1>1 DEF RemovePICBackfilledContacts, ContactsOK, ContactPerson
<1>3. DetailsSeen'
  BY <1>1, <1>2 DEF DetailsSeen, Real
<1>4. CopiesHeld'
  BY <1>1 DEF RemovePICBackfilledContacts, InFlight, CopiesHeld, Editing
<1>5. ASSUME NEW o \in OrderIds
      PROVE  Copied(orders[o].contact, orders[o].copy)'
  <2>1. Copied(orders[o].contact, orders[o].copy) /\ orders[o].contact \in Contacts \cup {None}
    BY DEF CopyInv, Shape, OrdersOK, OrderOK
  <2> QED
    BY <1>1, <1>2, <2>1 DEF Copied
<1> QED
  BY <1>3, <1>4, <1>5

LEMMA CopyInvStep == CopyInv /\ [Next]_vars => CopyInv'
<1> SUFFICES ASSUME CopyInv, [Next]_vars PROVE CopyInv'
  OBVIOUS
<1>1. Shape'
  BY ShapeStep DEF CopyInv
<1>2. CASE UNCHANGED vars
  BY <1>1, <1>2 DEF vars, CopyInv, DetailsSeen, CopiesHeld, Copied
<1>3. CASE RemovePICBackfilledContacts
  BY <1>1, <1>3, CleanUpKeepsCopies DEF CopyInv
<1>4. CASE Next /\ ~RemovePICBackfilledContacts
  <2>1. ContactsStay /\ DetailsSeen'
    BY <1>4, ContactsStayStep
  <2>2. CopiesHeld'
    BY <1>4, <2>1, Steps, CopiesHeldStep
  <2>3. ASSUME NEW o \in OrderIds
        PROVE  Copied(orders[o].contact, orders[o].copy)'
    <3>1. Copied(orders'[o].contact, orders'[o].copy)
      BY <1>4, OrderCopies
    <3>2. orders'[o].contact \in Contacts \cup {None}
      BY <1>1 DEF Shape, OrdersOK, OrderOK
    <3>3. ASSUME NEW c \in Contacts \cup {None}, NEW d, Copied(c, d),
                 c = orders'[o].contact, d = orders'[o].copy
          PROVE  Copied(orders[o].contact, orders[o].copy)'
      BY <2>1, <3>3, CopiesStay DEF Copied
    <3> QED
      BY <3>1, <3>2, <3>3
  <2> QED
    BY <1>1, <2>1, <2>2, <2>3 DEF CopyInv
<1> QED
  BY <1>2, <1>3, <1>4

LEMMA InitCopyInv == Init => CopyInv
<1> SUFFICES ASSUME Init PROVE CopyInv
  OBVIOUS
<1>1. Shape
  BY InitShape
<1>2. PICK known \in Partners, contact \in Contacts, d \in Details, formed \in Forms :
        InitWith(known, contact, d, formed)
  BY InitPicks DEF Init
<1>3. /\ contacts = [c \in Contacts |->
            IF c = contact THEN [row |-> "live", mitra |-> known, details |-> d, by |-> "backfill"]
            ELSE [row |-> "absent", mitra |-> None, details |-> None, by |-> "user"]]
      /\ seen = [c \in Contacts |-> IF c = contact THEN {d} ELSE {}]
      /\ requests = [r \in Requests |-> [op |-> "new"]]
  BY <1>2 DEF InitWith
<1>4. DetailsSeen
  BY <1>3 DEF DetailsSeen, Real
<1>5. CopiesHeld
  BY <1>3 DEF CopiesHeld, Editing
<1>6. \A o \in OrderIds : \/ orders[o].contact = contact /\ orders[o].copy = d
                          \/ orders[o].contact = None /\ orders[o].copy = None
  BY <1>2 DEF InitWith
<1>7. contact # None /\ d # None
  BY IdsAssumption
<1>8. \A o \in OrderIds : Copied(orders[o].contact, orders[o].copy)
  BY <1>3, <1>6, <1>7 DEF Copied, Real
<1> QED
  BY <1>1, <1>4, <1>5, <1>8 DEF CopyInv

\* The copy of a contact on an order is something that contact has been, and
\* the contact stays a row: whatever requests overlap, and whatever a start
\* cleans up.  The contact an edit is about to write is the reason why the
\* clean-up has to come before requests are served.
THEOREM CopiesStaySound == Spec => []ContactCopied
<1>1. CopyInv => ContactCopied
  BY DEF CopyInv, ContactCopied, Copied, Real
<1> QED
  BY InitCopyInv, CopyInvStep, <1>1, PTL DEF Spec

-----------------------------------------------------------------------------
(* The form of a partner.  Its entries go to as many contacts: each to the  *)
(* contact it names, or to one that was not there before.                   *)

NewEntries(list, k) == {i \in 1..k : list[i].id = None}

FreeContacts(rows) == {c \in Contacts : rows[c].row = "absent"}

\* A save of p.m, as for SyncEntry, of a list of n entries that was found valid.
SaveValid(p, n) ==
    /\ p.m \in Partners /\ p.list \in [1..n -> Entry]
    /\ p.base.rows \in [Contacts -> ContactPerson]
    /\ \A c \in Contacts : p.base.rows[c].row \in Real => p.base.rows[c].details \in Details
    /\ \A i \in 1..n : p.list[i].id # None =>
          p.base.rows[p.list[i].id].row = "live" /\ p.base.rows[p.list[i].id].mitra = p.m
    /\ \A i, j \in 1..n : p.list[i].id = p.list[j].id /\ p.list[i].id # None => i = j
    /\ Cardinality(NewEntries(p.list, n)) <= Cardinality(FreeContacts(p.base.rows))

\* Contact c of the table rows is what entry i made of it.
EntrySaved(p, rows, i, c) == LET entry == p.list[i] IN
    /\ rows[c].row = "live" /\ rows[c].mitra = p.m /\ rows[c].details = entry.details
    /\ entry.id # None =>
          c = entry.id /\ ("update" \notin p.perms => p.base.rows[c].details = entry.details)
    /\ entry.id = None => p.base.rows[c].row = "absent" /\ "create" \in p.perms

\* The first k entries went to the contacts f, and no other contact has changed.
Placed(p, k, rows, f) ==
    /\ f \in [1..k -> Contacts]
    /\ \A i, j \in 1..k : f[i] = f[j] => i = j
    /\ \A i \in 1..k : EntrySaved(p, rows, i, f[i])
    /\ \A c \in Contacts : (\A i \in 1..k : f[i] # c) => rows[c] = p.base.rows[c]

\* A contact is left for another new entry.
LEMMA OneIsLeft ==
    ASSUME NEW p, NEW n \in Nat, SaveValid(p, n), NEW k \in Nat, k + 1 \in 1..n,
           p.list[k + 1].id = None, NEW rows, NEW f, Placed(p, k, rows, f)
    PROVE  \E c \in Contacts : rows[c].row = "absent"
<1> SUFFICES ASSUME \A c \in Contacts : rows[c].row # "absent" PROVE FALSE
  OBVIOUS
<1> DEFINE I == 1..n
           new == NewEntries(p.list, k)
           all == NewEntries(p.list, n)
           free == FreeContacts(p.base.rows)
           h == [i \in new |-> f[i]]
<1>1. \A i \in 1..k : i \in I
  OBVIOUS
<1>2. new \in SUBSET I /\ all \in SUBSET I /\ new \in SUBSET (all \ {k + 1}) /\ k + 1 \in all
  BY DEF NewEntries
<1>3. free \in SUBSET Contacts /\ IsFiniteSet(free)
  BY RowsAssumption, FS_Subset DEF FreeContacts
<1>4. \A c \in free : \E i \in new : f[i] = c
  <2> TAKE c \in free
  <2>1. c \in Contacts /\ rows[c] # p.base.rows[c]
    BY DEF FreeContacts
  <2>2. PICK i \in 1..k : f[i] = c
    BY <2>1 DEF Placed
  <2>3. p.base.rows[c].row = "absent"
    BY DEF FreeContacts
  <2>4. p.list[i].id = None
    <3>1. EntrySaved(p, rows, i, c)
      BY <2>2 DEF Placed
    <3>2. p.list[i].id # None => c = p.list[i].id
      BY <3>1 DEF EntrySaved
    <3> QED
      BY <1>1, <2>3, <3>2 DEF SaveValid
  <2> QED
    BY <2>2, <2>4 DEF NewEntries
<1>5. \A i \in new : f[i] \in free
  BY DEF NewEntries, FreeContacts, Placed, EntrySaved
<1>6. IsFiniteSet(I)
  BY IndicesFinite
<1> HIDE DEF new, all, free, I
<1>7. h \in Surjection(new, free)
  BY <1>4, <1>5 DEF Surjection
<1>8. IsFiniteSet(all) /\ IsFiniteSet(new) /\ Cardinality(all) \in Nat /\ Cardinality(new) \in Nat
      /\ Cardinality(free) \in Nat
  BY <1>2, <1>3, <1>6, FS_Subset, FS_CardinalityType
<1>9. Cardinality(free) <= Cardinality(new)
  BY <1>7, <1>8, FS_Surjection
<1>10. Cardinality(new) <= Cardinality(all) - 1
  <2>1. IsFiniteSet(all \ {k + 1}) /\ Cardinality(all \ {k + 1}) = Cardinality(all) - 1
    BY <1>2, <1>8, FS_RemoveElement
  <2> QED
    BY <1>2, <2>1, FS_Subset
<1>11. Cardinality(all) <= Cardinality(free)
  BY DEF SaveValid, all, free
<1> QED
  BY <1>8, <1>9, <1>10, <1>11

\* The entry goes to a contact that no other entry has gone to.
LEMMA EntryPlaced ==
    ASSUME NEW p, NEW n \in Nat, SaveValid(p, n), NEW k \in Nat, k + 1 \in 1..n,
           NEW state, state.rows \in [Contacts -> ContactPerson],
           NEW f, Placed(p, k, state.rows, f), SyncEntry(p, k + 1, state).ok
    PROVE  state.ok /\ \E g : Placed(p, k + 1, SyncEntry(p, k + 1, state).rows, g)
<1> DEFINE entry == p.list[k + 1]
           c == IF entry.id # None THEN entry.id ELSE CHOOSE x \in Contacts : state.rows[x].row = "absent"
           next == SyncEntry(p, k + 1, state)
           g == [i \in 1..(k + 1) |-> IF i = k + 1 THEN c ELSE f[i]]
<1>1. entry.id \in Contacts \cup {None} /\ entry.details \in Details
  BY DEF SaveValid, Entry
<1>2. \A i \in 1..k : i \in 1..n /\ i # k + 1 /\ i \in 1..(k + 1)
  OBVIOUS
<1>3. \A i \in 1..(k + 1) : i = k + 1 \/ i \in 1..k
  OBVIOUS
<1>4. c \in Contacts /\ (entry.id = None => state.rows[c].row = "absent")
  <2>1. entry.id = None => \E x \in Contacts : state.rows[x].row = "absent"
    BY OneIsLeft
  <2> QED
    BY <1>1, <2>1
<1>5. \A i \in 1..k : f[i] # c
  <2> SUFFICES ASSUME NEW i \in 1..k, f[i] = c PROVE FALSE
    OBVIOUS
  <2>1. EntrySaved(p, state.rows, i, c)
    BY DEF Placed
  <2>2. CASE entry.id = None
    BY <1>4, <2>1, <2>2 DEF EntrySaved
  <2>3. CASE entry.id # None
    <3>1. p.base.rows[c].row = "live"
      BY <2>3 DEF SaveValid
    <3>2. p.list[i].id = c
      BY <2>1, <3>1 DEF EntrySaved
    <3> QED
      BY <1>2, <2>3, <3>2 DEF SaveValid
  <2> QED
    BY <2>2, <2>3
<1>6. state.rows[c] = p.base.rows[c]
  BY <1>4, <1>5 DEF Placed
<1>7. /\ state.ok
      /\ next.rows[c].row = "live" /\ next.rows[c].mitra = p.m
      /\ next.rows[c].details = entry.details
      /\ \A x \in Contacts : x # c => next.rows[x] = state.rows[x]
      /\ entry.id # None => state.rows[c].details = entry.details \/ "update" \in p.perms
      /\ entry.id = None => "create" \in p.perms
  <2>1. CASE entry.id # None /\ state.rows[c].details = entry.details
    <3>1. next = state
      BY <2>1 DEF SyncEntry, syncContact
    <3>2. p.base.rows[c].row = "live" /\ p.base.rows[c].mitra = p.m
      BY <2>1 DEF SaveValid
    <3> QED
      BY <1>6, <2>1, <3>1, <3>2
  <2>2. CASE ~(entry.id # None /\ state.rows[c].details = entry.details)
    <3> DEFINE allowed == state.ok /\ (IF entry.id # None THEN "update" ELSE "create") \in p.perms
                          /\ ~duplicate(state.rows, c, p.m, entry.details)
    <3>1. next = [rows |-> [state.rows EXCEPT ![c] = newContact(p.m, entry.details)], ok |-> allowed]
      BY <2>2 DEF SyncEntry, syncContact
    <3>3. allowed
      <4>1. next.ok
        OBVIOUS
      <4> HIDE DEF next, allowed, c
      <4>2. next.ok = allowed
        BY <3>1
      <4> QED
        BY <4>1, <4>2, Zenon
    <3> HIDE DEF next, c
    <3>2. /\ next.rows[c] = newContact(p.m, entry.details)
          /\ \A x \in Contacts : x # c => next.rows[x] = state.rows[x]
      BY <1>4, <3>1
    <3> QED
      BY <3>2, <3>3 DEF newContact
  <2> QED
    BY <2>1, <2>2
<1> HIDE DEF next
<1>8. EntrySaved(p, next.rows, k + 1, c)
  BY <1>4, <1>6, <1>7 DEF EntrySaved
<1>9. \A i \in 1..k : EntrySaved(p, next.rows, i, f[i])
  <2> TAKE i \in 1..k
  <2>1. EntrySaved(p, state.rows, i, f[i]) /\ f[i] \in Contacts
    BY DEF Placed
  <2>2. next.rows[f[i]] = state.rows[f[i]]
    BY <1>5, <1>7, <2>1
  <2> QED
    BY <2>1, <2>2 DEF EntrySaved
<1> HIDE DEF c
<1>10. /\ g \in [1..(k + 1) -> Contacts] /\ g[k + 1] = c
       /\ \A i \in 1..k : g[i] = f[i]
  BY <1>2, <1>3, <1>4 DEF Placed
<1> HIDE DEF g
<1>11. \A i, j \in 1..(k + 1) : g[i] = g[j] => i = j
  BY <1>3, <1>5, <1>10 DEF Placed
<1>12. \A i \in 1..(k + 1) : EntrySaved(p, next.rows, i, g[i])
  BY <1>3, <1>8, <1>9, <1>10
<1>13. \A x \in Contacts : (\A i \in 1..(k + 1) : g[i] # x) => next.rows[x] = p.base.rows[x]
  <2> TAKE x \in Contacts
  <2> HAVE \A i \in 1..(k + 1) : g[i] # x
  <2>1. x # c /\ \A i \in 1..k : f[i] # x
    BY <1>2, <1>10
  <2> QED
    BY <1>7, <2>1 DEF Placed
<1>14. Placed(p, k + 1, next.rows, g)
  BY <1>10, <1>11, <1>12, <1>13 DEF Placed
<1> QED
  BY <1>7, <1>14 DEF next

\* All the entries do, when the save goes through.
LEMMA ListPlaced ==
    ASSUME NEW p, NEW n \in Nat, SaveValid(p, n), Synced(p, 1..n).ok
    PROVE  p.base.ok /\ \E f : Placed(p, n, Synced(p, 1..n).rows, f)
<1> DEFINE Good(k) == Synced(p, 1..k).ok =>
                        p.base.ok /\ \E f : Placed(p, k, Synced(p, 1..k).rows, f)
           Bad == {k \in 0..n : ~Good(k)}
<1> SUFFICES ASSUME Bad # {} PROVE FALSE
  <2> HIDE DEF Good
  <2>1. Good(n)
    OBVIOUS
  <2> QED
    BY <2>1 DEF Good
<1>1. PICK k \in Bad : \A j \in Bad : k <= j
  <2> HIDE DEF Good
  <2>1. Bad \in SUBSET Nat
    OBVIOUS
  <2> HIDE DEF Bad
  <2> QED
    BY <2>1, LeastOfNaturals
<1>2. k \in 0..n /\ ~Good(k)
  <2> HIDE DEF Good
  <2> QED
    BY <1>1
<1>3. k # 0
  <2> SUFFICES ASSUME k = 0 PROVE FALSE
    OBVIOUS
  <2>1. {} \in SUBSET (1..n) /\ 1..0 = {}
    OBVIOUS
  <2>2. Synced(p, 1..0) = p.base
    BY <2>1, SyncUnfolding DEF SyncUnfolds
  <2>3. Placed(p, 0, p.base.rows, [i \in 1..0 |-> None])
    BY <2>1 DEF Placed
  <2> QED
    BY <1>2, <2>2, <2>3
<1> DEFINE j == k - 1
<1>4. j \in 0..n /\ j \in Nat /\ k = j + 1 /\ j + 1 \in 1..n /\ j < k
  BY <1>2, <1>3
<1>5. Good(j)
  <2> HIDE DEF Good, j
  <2>1. j \notin Bad
    <3> SUFFICES ASSUME j \in Bad PROVE FALSE
      OBVIOUS
    <3>1. k <= j
      BY <1>1
    <3> QED
      BY <1>2, <1>4, <3>1
  <2> QED
    BY <1>4, <2>1
<1> HIDE DEF j
<1>6. Synced(p, 1..k) = SyncEntry(p, j + 1, Synced(p, 1..j))
  <2>1. 1..k \in SUBSET (1..n) /\ 1..k # {} /\ k \in 1..k
    <3>1. k \in Nat /\ 1 <= k /\ k <= n
      BY <1>2, <1>3
    <3>2. k \in 1..k /\ \A i \in 1..k : i \in 1..n
      BY <3>1
    <3> QED
      BY <3>2
  <2>2. Max(1..k) = k
    <3>1. Max(1..k) \in 1..k /\ k <= Max(1..k)
      BY <1>4, <2>1, LastIndex
    <3> QED
      BY <1>4, <3>1
  <2>3. (1..k) \ {k} = 1..j
    BY <1>4
  <2>4. Synced(p, 1..k) = SyncEntry(p, Max(1..k), Synced(p, (1..k) \ {Max(1..k)}))
    BY <2>1, SyncUnfolding DEF SyncUnfolds
  <2> QED
    BY <1>4, <2>2, <2>3, <2>4
<1>7. Synced(p, 1..j).rows \in [Contacts -> ContactPerson]
  <2>1. RowsKept(p.base.rows, p.base.rows)
    BY DEF SaveValid, RowsKept
  <2>2. 1..j \in SUBSET (1..n)
    BY <1>4
  <2> QED
    BY <2>1, <2>2, SyncKeeps DEF SaveValid, RowsKept
<1>8. SyncEntry(p, j + 1, Synced(p, 1..j)).ok => Synced(p, 1..j).ok
  BY DEF SyncEntry, syncContact
<1> DEFINE state == Synced(p, 1..j)
<1>9. ASSUME SyncEntry(p, j + 1, state).ok
      PROVE  p.base.ok /\ \E g : Placed(p, j + 1, SyncEntry(p, j + 1, state).rows, g)
  <2>1. p.base.ok /\ \E f : Placed(p, j, state.rows, f)
    BY <1>5, <1>8, <1>9
  <2>2. PICK f : Placed(p, j, state.rows, f)
    BY <2>1
  <2>3. state.rows \in [Contacts -> ContactPerson]
    BY <1>7
  <2> HIDE DEF state, Good, Bad
  <2> QED
    BY <1>4, <1>9, <2>1, <2>2, <2>3, EntryPlaced
<1> QED
  BY <1>2, <1>4, <1>6, <1>9

\* The save of a partner that goes through is one of a valid list.
LEMMA SavePlaced ==
    ASSUME NEW m \in Partners, NEW list \in Lists, NEW perms, ContactsOK,
           listValid(m, list), syncContacts(m, list, perms).ok
    PROVE  LET gone == liveContacts(m) \ listed(list)
               kept == [c \in Contacts |-> IF c \in gone THEN [contacts[c] EXCEPT !.row = "deleted"]
                                                          ELSE contacts[c]]
               p == [m |-> m, perms |-> perms, list |-> list,
                     base |-> [rows |-> kept, ok |-> gone = {} \/ "delete" \in perms]]
           IN  /\ gone = {} \/ "delete" \in perms
               /\ \E n \in Nat : /\ list \in [1..n -> Entry]
                                 /\ \E f : Placed(p, n, syncContacts(m, list, perms).rows, f)
<1> DEFINE gone == liveContacts(m) \ listed(list)
           kept == [c \in Contacts |-> IF c \in gone THEN [contacts[c] EXCEPT !.row = "deleted"]
                                                      ELSE contacts[c]]
           start == [rows |-> kept, ok |-> gone = {} \/ "delete" \in perms]
           p == [m |-> m, perms |-> perms, list |-> list, base |-> start]
<1>1. syncContacts(m, list, perms) = Synced(p, DOMAIN list)
  <2>1. syncContacts(m, list, perms)
          = FoldLeft(LAMBDA state, entry : syncContact(m, perms, entry, state), start, list)
    BY DEF syncContacts
  <2> HIDE DEF start
  <2> QED
    BY <2>1, SyncIsFold
<1>2. PICK n \in Nat : list \in [1..n -> Entry]
  BY DEF Lists
<1>3. DOMAIN list = 1..n
  BY <1>2
<1>4. /\ p.m = m /\ p.list = list /\ p.perms = perms /\ p.base = start
      /\ p.base.rows = kept /\ p.base.ok = (gone = {} \/ "delete" \in perms)
  OBVIOUS
<1>5. \A c \in Contacts : /\ kept[c].mitra = contacts[c].mitra /\ kept[c].details = contacts[c].details
                          /\ kept[c].row = IF c \in gone THEN "deleted" ELSE contacts[c].row
                          /\ kept[c] \in ContactPerson
                          /\ c \in gone => contacts[c].row = "live"
  BY DEF ContactsOK, ContactPerson, liveContacts
<1>6. kept \in [Contacts -> ContactPerson]
  BY <1>5
<1> HIDE DEF p, start, kept
<1>7. FreeContacts(kept) = {c \in Contacts : contacts[c].row = "absent"}
  BY <1>5 DEF FreeContacts
<1>8. SaveValid(p, n)
  <2>1. \A c \in Contacts : kept[c].row \in Real => kept[c].details \in Details
    BY <1>5 DEF ContactsOK, Real
  <2>2. ASSUME NEW i \in 1..n, list[i].id # None
        PROVE  kept[list[i].id].row = "live" /\ kept[list[i].id].mitra = m
    <3>1. list[i].id \in listed(list)
      BY <1>3, <2>2 DEF listed
    <3>2. list[i].id \in liveContacts(m) /\ list[i].id \notin gone
      BY <3>1 DEF listValid
    <3> QED
      BY <1>5, <3>2 DEF liveContacts
  <2>3. \A i, j \in 1..n : list[i].id = list[j].id /\ list[i].id # None => i = j
    BY <1>3 DEF listValid
  <2>4. Cardinality(NewEntries(list, n)) <= Cardinality(FreeContacts(kept))
    BY <1>3, <1>7 DEF listValid, NewEntries
  <2> QED
    BY <1>2, <1>4, <1>6, <2>1, <2>2, <2>3, <2>4 DEF SaveValid
<1>9. /\ p.base.ok
      /\ \E f : Placed(p, n, syncContacts(m, list, perms).rows, f)
  BY <1>1, <1>3, <1>8, ListPlaced
<1> QED
  BY <1>2, <1>4, <1>9, Zenon DEF p, start, kept

LEMMA SaveExact ==
    ASSUME ContactsOK, NEW m \in Partners, NEW list \in Lists, NEW perms \in Perms,
           listValid(m, list), syncContacts(m, list, perms).ok,
           contacts' = syncContacts(m, list, perms).rows
    PROVE  /\ Cardinality(liveContacts(m)') = Len(list)
           /\ {contacts'[c].details : c \in liveContacts(m)'} = {list[i].details : i \in DOMAIN list}
           /\ "delete" \notin perms => liveContacts(m) \subseteq liveContacts(m)'
           /\ "create" \notin perms => liveContacts(m)' \subseteq liveContacts(m)
           /\ "update" \notin perms => \A c \in liveContacts(m) : contacts'[c].details = contacts[c].details
<1> DEFINE gone == liveContacts(m) \ listed(list)
           kept == [c \in Contacts |-> IF c \in gone THEN [contacts[c] EXCEPT !.row = "deleted"]
                                                      ELSE contacts[c]]
           p == [m |-> m, perms |-> perms, list |-> list,
                 base |-> [rows |-> kept, ok |-> gone = {} \/ "delete" \in perms]]
           after == liveContacts(m)'
<1>1. /\ gone = {} \/ "delete" \in perms
      /\ \E n \in Nat : list \in [1..n -> Entry] /\ \E f : Placed(p, n, contacts', f)
  BY SavePlaced
<1>2. PICK n \in Nat : list \in [1..n -> Entry] /\ \E f : Placed(p, n, contacts', f)
  BY <1>1
<1> PICK f : Placed(p, n, contacts', f)
  BY <1>2
<1>3. DOMAIN list = 1..n /\ Len(list) = n
  BY <1>2
<1>4. p.m = m /\ p.list = list /\ p.perms = perms /\ p.base.rows = kept
  OBVIOUS
<1>5. \A c \in Contacts : /\ kept[c].mitra = contacts[c].mitra /\ kept[c].details = contacts[c].details
                          /\ kept[c].row = IF c \in gone THEN "deleted" ELSE contacts[c].row
  BY DEF ContactsOK, ContactPerson, liveContacts
<1>6. after = {c \in Contacts : contacts'[c].row = "live" /\ contacts'[c].mitra = m}
  BY DEF liveContacts
<1> HIDE DEF p, kept
<1>7. /\ f \in [1..n -> Contacts]
      /\ \A i, j \in 1..n : f[i] = f[j] => i = j
      /\ \A i \in 1..n : EntrySaved(p, contacts', i, f[i])
      /\ \A c \in Contacts : (\A i \in 1..n : f[i] # c) => contacts'[c] = kept[c]
  BY <1>4 DEF Placed
<1>8. \A i \in 1..n :
        /\ f[i] \in after /\ contacts'[f[i]].details = list[i].details
        /\ list[i].id # None => f[i] = list[i].id
             /\ ("update" \notin perms => contacts[f[i]].details = list[i].details)
        /\ list[i].id = None => contacts[f[i]].row = "absent" /\ "create" \in perms
  <2> TAKE i \in 1..n
  <2>1. EntrySaved(p, contacts', i, f[i]) /\ f[i] \in Contacts
    BY <1>7
  <2>2. kept[f[i]].row = "absent" => contacts[f[i]].row = "absent"
    BY <1>5, <2>1
  <2> QED
    BY <1>4, <1>5, <1>6, <2>1, <2>2 DEF EntrySaved
<1>9. \A c \in listed(list) : \E i \in 1..n : f[i] = c /\ list[i].id = c
  BY <1>3, <1>8 DEF listed
<1>10. \A c \in after : \E i \in 1..n : f[i] = c
  <2> SUFFICES ASSUME NEW c \in after, \A i \in 1..n : f[i] # c PROVE FALSE
    OBVIOUS
  <2>1. c \in Contacts /\ contacts'[c] = kept[c] /\ kept[c].row = "live" /\ kept[c].mitra = m
    BY <1>6, <1>7
  <2>2. c \in liveContacts(m) /\ c \notin gone
    BY <1>5, <2>1 DEF liveContacts
  <2>3. c \in listed(list)
    BY <2>2
  <2> QED
    BY <1>9, <2>3
<1> HIDE DEF after
<1>11. Cardinality(after) = Len(list)
  <2>1. f \in Bijection(1..n, after)
    BY <1>7, <1>8, <1>10 DEF Bijection, Injection, Surjection, IsInjective
  <2>2. ExistsBijection(1..n, after)
    BY <2>1 DEF ExistsBijection
  <2>3. IsFiniteSet(1..n) /\ Cardinality(1..n) = n
    <3>1. 1 \in Int /\ n \in Int /\ (IF 1 > n THEN 0 ELSE n - 1 + 1) = n
      OBVIOUS
    <3> QED
      BY <3>1, FS_Interval
  <2> QED
    BY <1>3, <2>2, <2>3, FS_Bijection
<1>12. {contacts'[c].details : c \in after} = {list[i].details : i \in DOMAIN list}
  BY <1>3, <1>8, <1>10
<1>13. ASSUME "delete" \notin perms PROVE liveContacts(m) \subseteq after
  BY <1>1, <1>8, <1>9, <1>13
<1>14. ASSUME "create" \notin perms PROVE after \subseteq liveContacts(m)
  <2> SUFFICES ASSUME NEW c \in after PROVE c \in liveContacts(m)
    OBVIOUS
  <2>1. PICK i \in 1..n : f[i] = c
    BY <1>10
  <2>2. c = list[i].id /\ list[i].id # None
    BY <1>8, <1>14, <2>1
  <2>3. c \in listed(list)
    BY <1>3, <2>2 DEF listed
  <2> QED
    BY <2>3 DEF listValid
<1>15. ASSUME "update" \notin perms, NEW c \in liveContacts(m)
       PROVE  contacts'[c].details = contacts[c].details
  <2>1. c \in Contacts /\ contacts[c].row = "live"
    BY DEF liveContacts
  <2>2. CASE \E i \in 1..n : f[i] = c
    <3>1. PICK i \in 1..n : f[i] = c
      BY <2>2
    <3>2. list[i].id # None
      BY <1>8, <2>1, <3>1
    <3> QED
      BY <1>8, <1>15, <3>1, <3>2
  <2>3. CASE \A i \in 1..n : f[i] # c
    BY <1>5, <1>7, <2>1, <2>3
  <2> QED
    BY <2>2, <2>3
<1> QED
  BY <1>11, <1>12, <1>13, <1>14, <1>15 DEF after

\* A saved partner form leaves the partner with exactly the contacts of its list,
\* each entry one contact with the details of the entry, and with no more power
\* than the permissions it was saved under: whatever the lists and however many
\* contacts the partner had.
THEOREM PartnerSaveExact == Spec => PartnerSaveIsExact
<1>1. Shape /\ [Next]_vars =>
        [\A r \in Requests : Serve(r) =>
            \A m \in Partners, list \in Lists, perms \in Perms : MitraUpdate(r, m, list, perms) =>
                /\ Cardinality(liveContacts(m)') = Len(list)
                /\ {contacts'[c].details : c \in liveContacts(m)'} = {list[i].details : i \in DOMAIN list}
                /\ "delete" \notin perms => liveContacts(m) \subseteq liveContacts(m)'
                /\ "create" \notin perms => liveContacts(m)' \subseteq liveContacts(m)
                /\ "update" \notin perms =>
                      \A c \in liveContacts(m) : contacts'[c].details = contacts[c].details]_vars
  <2> SUFFICES ASSUME Shape, NEW r \in Requests, NEW m \in Partners, NEW list \in Lists,
                      NEW perms \in Perms, MitraUpdate(r, m, list, perms)
               PROVE  /\ Cardinality(liveContacts(m)') = Len(list)
                      /\ {contacts'[c].details : c \in liveContacts(m)'} = {list[i].details : i \in DOMAIN list}
                      /\ "delete" \notin perms => liveContacts(m) \subseteq liveContacts(m)'
                      /\ "create" \notin perms => liveContacts(m)' \subseteq liveContacts(m)
                      /\ "update" \notin perms =>
                            \A c \in liveContacts(m) : contacts'[c].details = contacts[c].details
    OBVIOUS
  <2>1. /\ listValid(m, list) /\ syncContacts(m, list, perms).ok
        /\ contacts' = syncContacts(m, list, perms).rows
    BY DEF MitraUpdate
  <2> QED
    BY <2>1, SaveExact DEF Shape
<1>2. Init => Shape
  BY InitShape
<1>3. Shape /\ [Next]_vars => Shape'
  BY ShapeStep
<1> QED
  BY <1>1, <1>2, <1>3, PTL DEF Spec, PartnerSaveIsExact

-----------------------------------------------------------------------------
(* Live references.  Between the check of a deletion and the deletion, a    *)
(* document can come to name the partner or the tax only through a request  *)
(* that was under way meanwhile, and that is what raced has.                *)

Naming == Saving \cup Noting

\* Named by a request that may write the name on a document.
MitraHeld(m) == \E r \in Requests : requests[r].op \in Naming /\ requests[r].mitra = m
TaxHeld(t) == \E r \in Requests : requests[r].op \in Calced /\ t \in FormTaxes(requests[r].form)

\* About to be deleted.
MitraDoomed(m) == \E r \in Requests : requests[r].op = "mitra_delete" /\ requests[r].mitra = m
TaxDoomed(t) == \E r \in Requests : requests[r].op = "tax_delete" /\ requests[r].tax = t

RefInv ==
    /\ Shape
    /\ overlaps \subseteq raced
    /\ \A m \in Partners : m \notin raced =>
          /\ ~checkMitraUnused(m) \/ MitraHeld(m) => partners[m] = "live"
          /\ ~(MitraDoomed(m) /\ ~checkMitraUnused(m))
    /\ \A t \in Taxes : t \notin raced =>
          /\ ~checkTaxUnused(t) \/ TaxHeld(t) => taxes[t].row = "live"
          /\ ~(TaxDoomed(t) /\ ~checkTaxUnused(t))

\* What is named and about to be deleted overlaps.
LEMMA DoomedOverlaps ==
    /\ \A m : MitraHeld(m) /\ MitraDoomed(m) => m \in overlaps
    /\ \A t : TaxHeld(t) /\ TaxDoomed(t) => t \in overlaps
<1>1. ASSUME NEW r \in Requests, requests[r].op \in Naming PROVE requests[r].mitra \in names(r)
  BY <1>1 DEF names, Naming, Saving, Noting
<1>2. ASSUME NEW r \in Requests, requests[r].op \in Calced
      PROVE  FormTaxes(requests[r].form) \subseteq names(r)
  BY <1>2 DEF names, Calced, FormTaxes
<1>3. ASSUME NEW r \in Requests, requests[r].op = "mitra_delete" PROVE requests[r].mitra \in deletes(r)
  BY <1>3 DEF deletes
<1>4. ASSUME NEW r \in Requests, requests[r].op = "tax_delete" PROVE requests[r].tax \in deletes(r)
  BY <1>4 DEF deletes
<1>5. ASSUME NEW m, MitraHeld(m), MitraDoomed(m) PROVE m \in overlaps
  <2>1. PICK q \in Requests : m \in names(q)
    BY <1>1, <1>5 DEF MitraHeld
  <2>2. PICK r \in Requests : m \in deletes(r)
    BY <1>3, <1>5 DEF MitraDoomed
  <2> QED
    BY <2>1, <2>2 DEF overlaps
<1>6. ASSUME NEW t, TaxHeld(t), TaxDoomed(t) PROVE t \in overlaps
  <2>1. PICK q \in Requests : t \in names(q)
    BY <1>2, <1>6 DEF TaxHeld
  <2>2. PICK r \in Requests : t \in deletes(r)
    BY <1>4, <1>6 DEF TaxDoomed
  <2> QED
    BY <2>1, <2>2 DEF overlaps
<1> QED
  BY <1>5, <1>6

\* What a step of request r may do to the documents ...
DocsEffect(r) ==
    /\ \A m \in Partners : checkMitraUnused(m) =>
          checkMitraUnused(m)' \/ (requests[r].op \in Naming /\ requests[r].mitra = m)
    /\ \A t \in Taxes : checkTaxUnused(t) =>
          checkTaxUnused(t)' \/ (requests[r].op \in Calced /\ t \in FormTaxes(requests[r].form))

\* ... to the rows that they name ...
RowsEffect(r) ==
    /\ \A m \in Partners : partners[m] = "live" =>
          partners'[m] = "live" \/ (requests[r].op = "mitra_delete" /\ requests[r].mitra = m)
    /\ \A t \in Taxes : taxes[t].row = "live" =>
          taxes'[t].row = "live" \/ (requests[r].op = "tax_delete" /\ requests[r].tax = t)

\* ... and to the request: a name is new to it only when it has just been
\* found live, a deletion only when it has just been found to be free.
RequestEffect(r) ==
    /\ requests'[r].op \in Naming =>
          \/ requests[r].op \in Naming /\ requests'[r].mitra = requests[r].mitra
          \/ partners[requests'[r].mitra] = "live"
    /\ requests'[r].op \in Calced =>
          \/ requests[r].op \in Calced /\ requests'[r].form = requests[r].form
          \/ \A t \in FormTaxes(requests'[r].form) : taxes[t].row = "live"
    /\ requests'[r].op = "mitra_delete" => checkMitraUnused(requests'[r].mitra)
    /\ requests'[r].op = "tax_delete" => checkTaxUnused(requests'[r].tax)
    /\ \/ UNCHANGED <<partners, taxes, orders, lines, notes>>
       \/ requests'[r].op = "done"

Effect(r) ==
    /\ \A q \in Requests \ {r} : requests'[q] = requests[q]
    /\ DocsEffect(r) /\ RowsEffect(r) /\ RequestEffect(r)

\* Such a step keeps the references.
LEMMA EffectKeepsReferences ==
    ASSUME RefInv, Shape', NEW r \in Requests, Effect(r), raced' = raced \cup overlaps'
    PROVE  RefInv'
<1>1. overlaps' \subseteq raced'
  OBVIOUS
<1>2. requests'[r].op = "done" => /\ requests'[r].op \notin Naming \cup Calced
                                  /\ requests'[r].op \notin {"mitra_delete", "tax_delete"}
  BY DEF Naming, Saving, Noting, Calced
<1>3. ASSUME NEW m \in Partners, m \notin raced'
      PROVE  /\ (~checkMitraUnused(m) \/ MitraHeld(m) => partners[m] = "live")'
             /\ ~(MitraDoomed(m) /\ ~checkMitraUnused(m))'
  <2>1. /\ m \notin raced
        /\ ~checkMitraUnused(m) \/ MitraHeld(m) => partners[m] = "live"
        /\ ~(MitraDoomed(m) /\ ~checkMitraUnused(m))
        /\ ~(MitraHeld(m) /\ MitraDoomed(m))
    BY <1>3, DoomedOverlaps DEF RefInv
  <2>2. ~checkMitraUnused(m)' => ~checkMitraUnused(m) \/ MitraHeld(m)
    BY DEF Effect, DocsEffect, MitraHeld
  <2>3. MitraHeld(m)' => \/ MitraHeld(m)
                         \/ partners[m] = "live" /\ UNCHANGED partners
    BY <1>2 DEF Effect, RequestEffect, MitraHeld
  <2>4. partners[m] = "live" => partners'[m] = "live" \/ MitraDoomed(m)
    BY DEF Effect, RowsEffect, MitraDoomed
  <2>5. MitraDoomed(m)' => \/ MitraDoomed(m)
                           \/ checkMitraUnused(m) /\ UNCHANGED <<orders, notes>>
    BY <1>2 DEF Effect, RequestEffect, MitraDoomed
  <2>6. UNCHANGED <<orders, notes>> => (checkMitraUnused(m)' <=> checkMitraUnused(m))
    BY DEF checkMitraUnused
  <2>7. (~checkMitraUnused(m) \/ MitraHeld(m) => partners[m] = "live")'
    BY <2>1, <2>2, <2>3, <2>4
  <2>8. ~(MitraDoomed(m) /\ ~checkMitraUnused(m))'
    BY <2>1, <2>2, <2>5, <2>6
  <2> QED
    BY <2>7, <2>8
<1>4. ASSUME NEW t \in Taxes, t \notin raced'
      PROVE  /\ (~checkTaxUnused(t) \/ TaxHeld(t) => taxes[t].row = "live")'
             /\ ~(TaxDoomed(t) /\ ~checkTaxUnused(t))'
  <2>1. /\ t \notin raced
        /\ ~checkTaxUnused(t) \/ TaxHeld(t) => taxes[t].row = "live"
        /\ ~(TaxDoomed(t) /\ ~checkTaxUnused(t))
        /\ ~(TaxHeld(t) /\ TaxDoomed(t))
    BY <1>4, DoomedOverlaps DEF RefInv
  <2>2. ~checkTaxUnused(t)' => ~checkTaxUnused(t) \/ TaxHeld(t)
    BY DEF Effect, DocsEffect, TaxHeld
  <2>3. TaxHeld(t)' => \/ TaxHeld(t)
                       \/ taxes[t].row = "live" /\ UNCHANGED taxes
    BY <1>2 DEF Effect, RequestEffect, TaxHeld
  <2>4. taxes[t].row = "live" => taxes'[t].row = "live" \/ TaxDoomed(t)
    BY DEF Effect, RowsEffect, TaxDoomed
  <2>5. TaxDoomed(t)' => \/ TaxDoomed(t)
                         \/ checkTaxUnused(t) /\ UNCHANGED <<orders, lines>>
    BY <1>2 DEF Effect, RequestEffect, TaxDoomed
  <2>6. UNCHANGED <<orders, lines>> => (checkTaxUnused(t)' <=> checkTaxUnused(t))
    BY DEF checkTaxUnused
  <2>7. (~checkTaxUnused(t) \/ TaxHeld(t) => taxes[t].row = "live")'
    BY <2>1, <2>2, <2>3, <2>4
  <2>8. ~(TaxDoomed(t) /\ ~checkTaxUnused(t))'
    BY <2>1, <2>2, <2>5, <2>6
  <2> QED
    BY <2>7, <2>8
<1> QED
  BY <1>1, <1>3, <1>4 DEF RefInv

\* Requests that read, and change no row.
LEMMA ReadEffect ==
    ASSUME RequestsOK, NEW r \in Requests, NEW n, requests' = [requests EXCEPT ![r] = n],
           UNCHANGED <<partners, taxes, orders, lines, notes>>,
           n.op \in Naming => \/ requests[r].op \in Naming /\ n.mitra = requests[r].mitra
                              \/ partners[n.mitra] = "live",
           n.op \in Calced => \/ requests[r].op \in Calced /\ n.form = requests[r].form
                              \/ \A t \in FormTaxes(n.form) : taxes[t].row = "live",
           n.op = "mitra_delete" => checkMitraUnused(n.mitra),
           n.op = "tax_delete" => checkTaxUnused(n.tax)
    PROVE  Effect(r)
<1>1. requests'[r] = n /\ \A q \in Requests \ {r} : requests'[q] = requests[q]
  BY DEF RequestsOK
<1>2. DocsEffect(r)
  BY DEF DocsEffect, checkMitraUnused, checkTaxUnused
<1>3. RowsEffect(r)
  BY DEF RowsEffect
<1>4. RequestEffect(r)
  BY <1>1 DEF RequestEffect
<1> QED
  BY <1>1, <1>2, <1>3, <1>4 DEF Effect

\* Requests that answer.
LEMMA AnswerEffect ==
    ASSUME RequestsOK, NEW r \in Requests, Serve(r) \/ Answer(r), DocsEffect(r), RowsEffect(r)
    PROVE  Effect(r)
<1>1. requests' = [requests EXCEPT ![r] = [op |-> "done"]]
  BY DEF Serve, Answer, Continue
<1>2. requests'[r] = [op |-> "done"] /\ \A q \in Requests \ {r} : requests'[q] = requests[q]
  BY <1>1 DEF RequestsOK
<1>3. RequestEffect(r)
  BY <1>2 DEF RequestEffect, Naming, Saving, Noting, Calced
<1> QED
  BY <1>2, <1>3 DEF Effect

\* Orders that go, or keep their partner and lines, name nothing new.
LEMMA FewerNames ==
    ASSUME NEW r \in Requests, UNCHANGED lines, UNCHANGED notes,
           \A o \in OrderIds : orders'[o].row = "live" =>
              orders[o].row = "live" /\ orders'[o].mitra = orders[o].mitra
    PROVE  DocsEffect(r)
  BY DEF DocsEffect, checkMitraUnused, checkTaxUnused

\* An order that is saved names what its request names.
LEMMA SavedNames ==
    ASSUME Shape, NEW r \in Requests, requests[r].op \in Calced, UNCHANGED notes,
           NEW p \in OrderIds, NEW old,
           \A o \in OrderIds \ {p} : orders'[o] = orders[o] /\ lines'[o] = lines[o],
           orders'[p].row = "live" => orders'[p].mitra = requests[r].mitra,
           orders'[p].row = "live" =>
              \/ lines'[p] = {buildSalesOrderLines(r, requests[r])}
              \/ /\ orders[p].row = "live"
                 /\ lines'[p] = (lines[p] \ old) \cup {buildSalesOrderLines(r, requests[r])}
    PROVE  DocsEffect(r)
<1> DEFINE m == requests[r]
           batch == buildSalesOrderLines(r, m)
<1>1. m.op \in Naming
  BY DEF Naming, Calced, Saving
<1>2. \A i \in DOMAIN batch.rows : batch.rows[i].taxes \subseteq FormTaxes(m.form)
  BY DEF Shape, RequestsOK, RequestOK, buildSalesOrderLines
<1>3. ASSUME NEW x \in Partners, checkMitraUnused(x), ~checkMitraUnused(x)'
      PROVE  m.mitra = x
  <2>1. \A n \in NoteIds : ~(notes'[n].row = "live" /\ notes'[n].mitra = x)
    BY <1>3 DEF checkMitraUnused
  <2>2. PICK o \in OrderIds : orders'[o].row = "live" /\ orders'[o].mitra = x
    BY <1>3, <2>1 DEF checkMitraUnused
  <2>3. o = p
    BY <1>3, <2>2 DEF checkMitraUnused
  <2> QED
    BY <2>2, <2>3
<1>4. ASSUME NEW t \in Taxes, checkTaxUnused(t), ~checkTaxUnused(t)'
      PROVE  t \in FormTaxes(m.form)
  <2>1. PICK o \in OrderIds : orders'[o].row = "live"
           /\ \E b \in lines'[o] : \E i \in DOMAIN b.rows : t \in b.rows[i].taxes
    BY <1>4 DEF checkTaxUnused
  <2>2. PICK b \in lines'[o] : \E i \in DOMAIN b.rows : t \in b.rows[i].taxes
    BY <2>1
  <2>3. ~(b \in lines[o] /\ orders[o].row = "live")
    BY <1>4, <2>2 DEF checkTaxUnused
  <2>4. b = batch
    <3> HIDE DEF batch, m
    <3>1. o = p
      BY <2>1, <2>2, <2>3
    <3> QED
      BY <2>1, <2>2, <2>3, <3>1 DEF batch, m
  <2> QED
    BY <1>2, <2>2, <2>4
<1> QED
  BY <1>1, <1>3, <1>4 DEF DocsEffect

LEMMA OrderEffect ==
    ASSUME Shape, NEW r \in Requests, NEW ids \in SUBSET OrderIds, OrderStep(r, ids)
    PROVE  Effect(r)
<1> DEFINE m == requests[r]
<1>1. RequestsOK /\ OrdersOK /\ LinesOK /\ RequestOK(m)
  BY DEF Shape, RequestsOK
<1>2. UNCHANGED <<partners, taxes, notes>> /\ RowsEffect(r)
  BY DEF OrderStep, OrderCreate, OrderUpdate, OrderDelete, OrderConfirm, OrderBackToDraft, RowsEffect,
       OrderCancel, OrderCalc, OrderInsert, SetStatus, OrderUpdateFind, OrderUpdateHeader, OrderUpdateCommit
<1>3. CASE OrderCreate(r, ids) \/ OrderUpdate(r, ids)
  <2>1. PICK o \in ids, x \in Partners, c \in Contacts \cup {None}, form \in Forms,
             op \in {"create_rates", "update_rates"} :
          /\ Begin(r, [op |-> op, order |-> o, mitra |-> x, contact |-> c, form |-> form])
          /\ MitraExists(x)
          /\ UNCHANGED <<orders, lines>>
    BY <1>3 DEF OrderCreate, OrderUpdate
  <2> DEFINE n == [op |-> op, order |-> o, mitra |-> x, contact |-> c, form |-> form]
  <2>2. requests' = [requests EXCEPT ![r] = n] /\ partners[n.mitra] = "live"
    BY <2>1 DEF Begin, MitraExists
  <2>3. n.op \notin Calced /\ n.op \notin {"mitra_delete", "tax_delete"}
    BY DEF Calced
  <2> HIDE DEF n
  <2> QED
    BY <1>1, <1>2, <2>1, <2>2, <2>3, ReadEffect
<1>4. CASE OrderCalc(r, ids)
  <2> DEFINE rates == resolveTaxRates(m.form.lines)
             calc == CalcLines(m.form.lines, rates, m.form.disc)
             n == [op |-> IF m.op = "create_rates" THEN "create_insert" ELSE "update_find",
                   order |-> m.order, mitra |-> m.mitra, contact |-> m.contact, form |-> m.form,
                   calc |-> calc]
  <2>1. /\ requests' = [requests EXCEPT ![r] = n]
        /\ m.op \in Naming
        /\ UNCHANGED <<orders, lines>>
        /\ CalcAccepts(m.form.lines, rates, m.form.disc)
    BY <1>4 DEF OrderCalc, Continue, Naming, Saving
  <2>2. \A t \in FormTaxes(m.form) : taxes[t].row = "live"
    <3>1. \A t \in FormTaxes(m.form) : t \in DOMAIN rates
      BY <2>1 DEF CalcAccepts, lineAccepted, FormTaxes
    <3>2. \A t \in DOMAIN rates : taxes[t].row = "live"
      BY DEF resolveTaxRates
    <3> QED
      BY <3>1, <3>2
  <2>3. n.mitra = m.mitra /\ n.form = m.form /\ n.op \notin {"mitra_delete", "tax_delete"}
    OBVIOUS
  <2> HIDE DEF n
  <2> QED
    BY <1>1, <1>2, <2>1, <2>2, <2>3, ReadEffect
<1>5. CASE OrderUpdateFind(r, ids) \/ OrderUpdateHeader(r, ids)
  <2>1. PICK n : /\ requests' = [requests EXCEPT ![r] = n]
                 /\ m.op \in Naming \cap Calced
                 /\ n.mitra = m.mitra /\ n.form = m.form
                 /\ n.op \notin {"mitra_delete", "tax_delete"}
                 /\ UNCHANGED <<orders, lines>>
    <3>1. CASE OrderUpdateFind(r, ids)
      <4> DEFINE n == [op |-> "update_header", order |-> m.order, mitra |-> m.mitra,
                       form |-> m.form, calc |-> m.calc,
                       snap |-> contactSnapshot(m.contact, orders[m.order].contact)]
      <4>1. requests' = [requests EXCEPT ![r] = n] /\ m.op = "update_find" /\ UNCHANGED <<orders, lines>>
        BY <3>1 DEF OrderUpdateFind, Continue
      <4>2. n.mitra = m.mitra /\ n.form = m.form /\ n.op = "update_header"
        OBVIOUS
      <4> HIDE DEF n
      <4> QED
        BY <4>1, <4>2 DEF Naming, Saving, Calced
    <3>2. CASE OrderUpdateHeader(r, ids)
      <4> DEFINE n == [op |-> "update_lines", order |-> m.order, mitra |-> m.mitra,
                       form |-> m.form, calc |-> m.calc, snap |-> m.snap, old |-> lines[m.order]]
      <4>1. requests' = [requests EXCEPT ![r] = n] /\ m.op = "update_header" /\ UNCHANGED <<orders, lines>>
        BY <3>2 DEF OrderUpdateHeader, Continue
      <4>2. n.mitra = m.mitra /\ n.form = m.form /\ n.op = "update_lines"
        OBVIOUS
      <4> HIDE DEF n
      <4> QED
        BY <4>1, <4>2 DEF Naming, Saving, Calced
    <3> QED
      BY <1>5, <3>1, <3>2
  <2> QED
    BY <1>1, <1>2, <2>1, ReadEffect
<1>6. CASE OrderConfirm(r, ids) \/ OrderBackToDraft(r, ids) \/ OrderCancel(r, ids)
  <2>1. PICK n : /\ Begin(r, n) /\ n.op = "set_status"
                 /\ UNCHANGED <<orders, lines>>
    BY <1>6 DEF OrderConfirm, OrderBackToDraft, OrderCancel
  <2>2. n.op \notin Naming \cup Calced /\ requests' = [requests EXCEPT ![r] = n]
    BY <2>1 DEF Naming, Saving, Noting, Calced, Begin
  <2> QED
    BY <1>1, <1>2, <2>1, <2>2, ReadEffect
<1>7. CASE OrderInsert(r, ids)
  <2> DEFINE p == m.order
  <2>1. m.op \in Calced /\ p \in OrderIds /\ Answer(r)
    BY <1>7 DEF OrderInsert, Calced
  <2>2. \A o \in OrderIds \ {p} : orders'[o] = orders[o] /\ lines'[o] = lines[o]
    BY <1>1, <1>7 DEF OrderInsert, OrdersOK, LinesOK
  <2>3. orders'[p].mitra = m.mitra /\ lines'[p] = {buildSalesOrderLines(r, m)}
    BY <1>1, <1>7, <2>1 DEF OrderInsert, OrdersOK, LinesOK
  <2> HIDE DEF p
  <2>4. DocsEffect(r)
    BY <1>2, <2>1, <2>2, <2>3, SavedNames
  <2> QED
    BY <1>1, <1>2, <2>1, <2>4, AnswerEffect
<1>8. CASE OrderUpdateCommit(r, ids)
  <2> DEFINE p == m.order
             old == orders[p]
             new == [old EXCEPT !.mitra = m.mitra,
                            !.contact = IF m.snap.keep THEN old.contact ELSE m.snap.contact,
                            !.copy = IF m.snap.keep THEN old.copy ELSE m.snap.copy,
                            !.disc = m.form.disc, !.additional = m.calc.additional,
                            !.grandTotal = m.calc.grandTotal]
  <2>1. m.op \in Calced /\ p \in OrderIds /\ Answer(r)
    BY <1>8 DEF OrderUpdateCommit, Calced
  <2>2. orders' = [orders EXCEPT ![p] = IF old.row /= "live" THEN old ELSE new]
    BY <1>8 DEF OrderUpdateCommit
  <2>3. \A o \in OrderIds \ {p} : orders'[o] = orders[o] /\ lines'[o] = lines[o]
    BY <1>1, <1>8 DEF OrderUpdateCommit, OrdersOK, LinesOK
  <2>4. OrderOK(old) /\ orders'[p] = IF old.row /= "live" THEN old ELSE new
    BY <1>1, <2>1, <2>2 DEF OrdersOK
  <2>5. new.mitra = m.mitra
    BY <2>4 DEF OrderOK
  <2>6. lines'[p] = (lines[p] \ m.old) \cup {buildSalesOrderLines(r, m)}
    BY <1>1, <1>8, <2>1 DEF OrderUpdateCommit, LinesOK
  <2> HIDE DEF new
  <2>7. orders'[p].row = "live" => orders'[p].mitra = m.mitra /\ orders[p].row = "live"
    BY <2>4, <2>5
  <2> HIDE DEF p, old
  <2>8. DocsEffect(r)
    BY <1>2, <2>1, <2>3, <2>6, <2>7, SavedNames
  <2> QED
    BY <1>1, <1>2, <2>1, <2>8, AnswerEffect
<1>9. CASE OrderDelete(r, ids) \/ SetStatus(r, ids)
  <2>1. \A o \in OrderIds : orders'[o].row = "live" =>
              orders[o].row = "live" /\ orders'[o].mitra = orders[o].mitra
    <3>1. ASSUME NEW p \in OrderIds, orders' = [orders EXCEPT ![p].row = "deleted"]
          PROVE  \A o \in OrderIds : orders'[o].row = "live" =>
                    orders[o].row = "live" /\ orders'[o].mitra = orders[o].mitra
      BY <1>1, <3>1 DEF OrdersOK, OrderOK
    <3>2. ASSUME NEW p \in OrderIds, NEW status, orders' = [orders EXCEPT ![p].status = status]
          PROVE  \A o \in OrderIds : orders'[o].row = "live" =>
                    orders[o].row = "live" /\ orders'[o].mitra = orders[o].mitra
      BY <1>1, <3>2 DEF OrdersOK, OrderOK
    <3>3. CASE OrderDelete(r, ids)
      BY <3>1, <3>3 DEF OrderDelete
    <3>4. CASE SetStatus(r, ids)
      <4>1. m.order \in OrderIds
        BY <3>4 DEF SetStatus
      <4>2. orders' = [orders EXCEPT ![m.order].status =
                          IF orders[m.order].row = "live" THEN m.status ELSE orders[m.order].status]
        BY <1>1, <3>4 DEF SetStatus, OrdersOK
      <4> QED
        BY <3>2, <4>1, <4>2
    <3> QED
      BY <1>9, <3>3, <3>4
  <2>2. UNCHANGED lines /\ (Serve(r) \/ Answer(r))
    BY <1>9 DEF OrderDelete, SetStatus
  <2>3. DocsEffect(r)
    BY <1>2, <2>1, <2>2, FewerNames
  <2> QED
    BY <1>1, <1>2, <2>2, <2>3, AnswerEffect
<1> QED
  BY <1>3, <1>4, <1>5, <1>6, <1>7, <1>8, <1>9 DEF OrderStep

LEMMA NoteEffect ==
    ASSUME Shape, NEW r \in Requests, NEW ids \in SUBSET NoteIds, NoteStep(r, ids)
    PROVE  Effect(r)
<1> DEFINE m == requests[r]
<1>1. RequestsOK /\ NotesOK /\ RequestOK(m)
  BY DEF Shape, RequestsOK
<1>2. UNCHANGED <<partners, taxes, orders, lines>> /\ RowsEffect(r)
  BY DEF NoteStep, NoteCreate, NoteInsert, NoteUpdate, NoteReplace, NoteDelete, RowsEffect
<1>3. CASE NoteCreate(r, ids) \/ NoteUpdate(r, ids)
  <2>1. PICK n : /\ Begin(r, n) /\ partners[n.mitra] = "live"
                 /\ n.op \in Noting /\ UNCHANGED notes
    BY <1>3 DEF NoteCreate, NoteUpdate, MitraExists, Noting
  <2>2. requests' = [requests EXCEPT ![r] = n] /\ n.op \notin Calced \cup {"mitra_delete", "tax_delete"}
    BY <2>1 DEF Begin, Noting, Calced
  <2> QED
    BY <1>1, <1>2, <2>1, <2>2, ReadEffect
<1>4. CASE NoteInsert(r, ids) \/ NoteReplace(r, ids)
  <2>1. /\ m.op \in Naming /\ m.note \in NoteIds /\ Answer(r)
        /\ \A n \in NoteIds \ {m.note} : notes'[n] = notes[n]
        /\ notes'[m.note].mitra = m.mitra
    BY <1>1, <1>4 DEF NoteInsert, NoteReplace, NotesOK, DeliveryNote, Naming, Noting
  <2>2. DocsEffect(r)
    BY <1>2, <2>1 DEF DocsEffect, checkMitraUnused, checkTaxUnused
  <2> QED
    BY <1>1, <1>2, <2>1, <2>2, AnswerEffect
<1>5. CASE NoteDelete(r, ids)
  <2>1. Serve(r) /\ \A n \in NoteIds : notes'[n].row = "live" => notes'[n] = notes[n]
    BY <1>1, <1>5 DEF NoteDelete, NotesOK, DeliveryNote
  <2>2. DocsEffect(r)
    BY <1>2, <2>1 DEF DocsEffect, checkMitraUnused, checkTaxUnused
  <2> QED
    BY <1>1, <1>2, <2>1, <2>2, AnswerEffect
<1> QED
  BY <1>3, <1>4, <1>5 DEF NoteStep

LEMMA RowEffect ==
    ASSUME Shape, NEW r \in Requests, PartnerRequest(r) \/ TaxRequest(r) \/ Abort(r)
    PROVE  Effect(r)
<1> DEFINE m == requests[r]
<1>1. RequestsOK /\ RequestOK(m) /\ partners \in [Partners -> Mitra] /\ taxes \in [Taxes -> Tax]
  BY DEF Shape, RequestsOK
<1>2. UNCHANGED <<orders, lines, notes>> /\ DocsEffect(r)
  BY DEF PartnerRequest, MitraCreate, MitraUpdate, MitraDeleteCheck, MitraDelete, ContactCreate,
       ContactUpdate, ContactDelete, TaxRequest, TaxUpdate, TaxDeleteCheck, TaxDelete, Abort,
       DocsEffect, checkMitraUnused, checkTaxUnused
<1>3. CASE MitraDeleteCheck(r)
  <2>1. PICK x \in Partners : /\ checkMitraUnused(x) /\ UNCHANGED <<partners, taxes>>
                              /\ Begin(r, [op |-> "mitra_delete", mitra |-> x])
    BY <1>3 DEF MitraDeleteCheck
  <2> DEFINE n == [op |-> "mitra_delete", mitra |-> x]
  <2>2. /\ requests' = [requests EXCEPT ![r] = n] /\ n.mitra = x
        /\ n.op = "mitra_delete" /\ n.op \notin Naming \cup Calced
    BY <2>1 DEF Begin, Naming, Saving, Noting, Calced
  <2> HIDE DEF n
  <2> QED
    BY <1>1, <1>2, <2>1, <2>2, ReadEffect
<1>4. CASE TaxDeleteCheck(r)
  <2>1. PICK t \in Taxes : /\ checkTaxUnused(t) /\ UNCHANGED <<partners, taxes>>
                           /\ Begin(r, [op |-> "tax_delete", tax |-> t])
    BY <1>4 DEF TaxDeleteCheck
  <2> DEFINE n == [op |-> "tax_delete", tax |-> t]
  <2>2. /\ requests' = [requests EXCEPT ![r] = n] /\ n.tax = t
        /\ n.op = "tax_delete" /\ n.op \notin Naming \cup Calced
    BY <2>1 DEF Begin, Naming, Saving, Noting, Calced
  <2> HIDE DEF n
  <2> QED
    BY <1>1, <1>2, <2>1, <2>2, ReadEffect
<1>5. CASE ~(MitraDeleteCheck(r) \/ TaxDeleteCheck(r))
  <2>1. Serve(r) \/ Answer(r)
    BY <1>5 DEF PartnerRequest, MitraCreate, MitraUpdate, MitraDelete, ContactCreate,
         ContactUpdate, ContactDelete, TaxRequest, TaxUpdate, TaxDelete, Abort
  <2>2. \A x \in Partners : partners[x] = "live" =>
          partners'[x] = "live" \/ (m.op = "mitra_delete" /\ m.mitra = x)
    BY <1>1, <1>5 DEF PartnerRequest, MitraCreate, MitraUpdate, MitraDelete, ContactCreate,
         ContactUpdate, ContactDelete, TaxRequest, TaxUpdate, TaxDelete, Abort
  <2>3. \A t \in Taxes : taxes[t].row = "live" =>
          taxes'[t].row = "live" \/ (m.op = "tax_delete" /\ m.tax = t)
    <3>1. CASE TaxUpdate(r)
      <4>1. PICK u \in Taxes, rate \in Rates, method \in {"exclusive", "inclusive"},
                 active \in BOOLEAN :
              taxes' = [taxes EXCEPT ![u].rate = rate, ![u].method = method, ![u].active = active]
        BY <3>1 DEF TaxUpdate
      <4> QED
        BY <1>1, <4>1 DEF Tax
    <3>2. CASE TaxDelete(r)
      BY <1>1, <3>2 DEF TaxDelete
    <3>3. CASE PartnerRequest(r) \/ Abort(r)
      BY <3>3 DEF PartnerRequest, MitraCreate, MitraUpdate, MitraDeleteCheck, MitraDelete,
           ContactCreate, ContactUpdate, ContactDelete, Abort
    <3> QED
      BY <1>5, <3>1, <3>2, <3>3 DEF TaxRequest
  <2>4. RowsEffect(r)
    BY <2>2, <2>3 DEF RowsEffect
  <2> QED
    BY <1>1, <1>2, <2>1, <2>4, AnswerEffect
<1> QED
  BY <1>3, <1>4, <1>5

\* References do not depend on contacts and locks.
LEMMA SameReferences ==
    ASSUME RefInv, Shape', UNCHANGED <<partners, taxes, orders, lines, notes, requests>>,
           raced' = raced \/ raced' = raced \cup overlaps'
    PROVE  RefInv'
<1>1. overlaps' = overlaps
  BY DEF overlaps, names, deletes
<1>2. raced' = raced
  BY <1>1 DEF RefInv
<1> QED
  BY <1>1, <1>2 DEF RefInv, MitraHeld, MitraDoomed, TaxHeld, TaxDoomed, checkMitraUnused, checkTaxUnused

LEMMA RefInvStep == RefInv /\ [Next]_vars => RefInv'
<1> SUFFICES ASSUME RefInv, [Next]_vars PROVE RefInv'
  OBVIOUS
<1>1. Shape /\ Shape'
  BY ShapeStep DEF RefInv
<1>2. CASE Next
  <2>1. raced' = raced \cup overlaps'
    BY <1>2 DEF Next
  <2>2. CASE RemovePICBackfilledContacts
    BY <1>1, <2>1, <2>2, SameReferences DEF RemovePICBackfilledContacts
  <2>3. CASE ~RemovePICBackfilledContacts
    <3>1. PICK r \in Requests : Effect(r)
      BY <1>1, <1>2, <2>3, Steps, OrderEffect, NoteEffect, RowEffect
    <3> QED
      BY <1>1, <2>1, <3>1, EffectKeepsReferences
  <2> QED
    BY <2>2, <2>3
<1>3. CASE UNCHANGED vars
  BY <1>1, <1>3, SameReferences DEF vars
<1> QED
  BY <1>2, <1>3

LEMMA InitRefInv == Init => RefInv
<1> SUFFICES ASSUME Init PROVE RefInv
  OBVIOUS
<1>1. Shape
  BY InitShape
<1>2. PICK known \in Partners, contact \in Contacts, d \in Details, formed \in Forms :
        InitWith(known, contact, d, formed)
  BY InitPicks DEF Init
<1>3. \A r \in Requests : requests[r].op = "new"
  BY <1>2 DEF InitWith
<1>4. /\ \A m : ~MitraHeld(m) /\ ~MitraDoomed(m)
      /\ \A t : ~TaxHeld(t) /\ ~TaxDoomed(t)
  BY <1>3 DEF MitraHeld, MitraDoomed, TaxHeld, TaxDoomed, Naming, Saving, Noting, Calced
<1>5. overlaps = {}
  <2>1. \A r \in Requests : deletes(r) = {}
    BY <1>3 DEF deletes
  <2> QED
    BY <2>1 DEF overlaps
<1>6. \A m \in Partners : ~checkMitraUnused(m) => partners[m] = "live"
  <2>1. /\ \A o \in OrderIds : orders[o].row = "live" => orders[o].mitra = known
        /\ \A n \in NoteIds : notes[n].row # "live"
        /\ partners[known] = "live"
    BY <1>2 DEF InitWith
  <2> QED
    BY <2>1 DEF checkMitraUnused
<1>7. \A t \in Taxes : taxes[t].row = "live"
  BY DEF Init
<1> QED
  BY <1>1, <1>4, <1>5, <1>6, <1>7 DEF RefInv

\* A live document names a live partner and live taxes, unless the deletion
\* overlapped with a request that names them: the check of a deletion and its
\* statement are two steps, and so are the checks and statements of a save.
THEOREM ReferencesLiveSound == Spec => []ReferencesLive
<1>1. RefInv => ReferencesLive
  <2> SUFFICES ASSUME RefInv PROVE ReferencesLive
    OBVIOUS
  <2>1. ASSUME NEW m \in Partners, ~checkMitraUnused(m) PROVE partners[m] = "live" \/ m \in raced
    BY <2>1 DEF RefInv
  <2>2. ASSUME NEW t \in Taxes, ~checkTaxUnused(t) PROVE taxes[t].row = "live" \/ t \in raced
    BY <2>2 DEF RefInv
  <2>3. ASSUME NEW o \in OrderIds, orders[o].row = "live"
        PROVE  /\ partners[orders[o].mitra] = "live" \/ orders[o].mitra \in raced
               /\ \A batch \in lines[o] : \A i \in DOMAIN batch.rows : \A t \in batch.rows[i].taxes :
                     taxes[t].row = "live" \/ t \in raced
    <3>1. orders[o].mitra \in Partners /\ ~checkMitraUnused(orders[o].mitra)
      BY <2>3 DEF RefInv, Shape, OrdersOK, OrderOK, checkMitraUnused
    <3>2. ASSUME NEW batch \in lines[o], NEW i \in DOMAIN batch.rows, NEW t \in batch.rows[i].taxes
          PROVE  t \in Taxes /\ ~checkTaxUnused(t)
      BY <2>3, <3>2 DEF RefInv, Shape, LinesOK, checkTaxUnused
    <3> QED
      BY <2>1, <2>2, <3>1, <3>2
  <2>4. ASSUME NEW n \in NoteIds, notes[n].row = "live"
        PROVE  partners[notes[n].mitra] = "live" \/ notes[n].mitra \in raced
    <3>1. notes[n].mitra \in Partners /\ ~checkMitraUnused(notes[n].mitra)
      BY <2>4 DEF RefInv, Shape, NotesOK, checkMitraUnused
    <3> QED
      BY <2>1, <3>1
  <2> QED
    BY <2>3, <2>4 DEF ReferencesLive
<1> QED
  BY InitRefInv, RefInvStep, <1>1, PTL DEF Spec

-----------------------------------------------------------------------------
(* The numbers of documents (module DocumentNumbers).                      *)

CONSTANT Writers
VARIABLE writes

Numbering == INSTANCE DocumentNumbers WITH Requests <- Writers, requests <- writes

Busy == {r \in Writers : writes[r] # Numbering!NoRequest}

\* No other live document has the number that r is about to write.
StillFree(r) == LET m == writes[r] IN
    /\ m.number.spelling = "canonical"
    /\ m.op = "insert" => ~Numbering!numberExists(m.number, {})
    /\ m.op = "update" => ~Numbering!numberExists(m.number, {m.doc})

\* What takes the place of an index: whoever writes is alone, and the scan of
\* the generator sees every number.
Guarded ==
    /\ \A r, q \in Busy : r = q
    /\ \A r \in Busy : StillFree(r)
    /\ \A d \in Numbering!LiveDocs : docs[d].number.spelling = "canonical"

NumberRows == [Docs -> [row : {"absent", "live", "deleted"}, number : Numbering!Numbers \cup {Numbering!Blank}]]

Numbered == \A d \in Numbering!LiveDocs : docs[d].number \in Numbering!Numbers

NumberInv ==
    /\ docs \in NumberRows
    /\ Numbered
    /\ writes \in [Writers -> Numbering!Request]
    /\ uniqueIndex \in BOOLEAN
    /\ IsFiniteSet(Busy)
    /\ Numbering!UniqueNumbers
    /\ ~uniqueIndex => Guarded

\* The generated number is above all that the scan sees.
LEMMA NextIsFree ==
    ASSUME MaxSeq \in Nat, docs \in NumberRows
    PROVE  /\ Numbering!nextSequence \in Nat \ {0}
           /\ \A e \in Numbering!LiveDocs : docs[e].number.spelling = "canonical" =>
                 docs[e].number.seq < Numbering!nextSequence
<1> DEFINE scanned == {d \in Numbering!LiveDocs : docs[d].number.spelling = "canonical"}
           S == {0} \cup {docs[d].number.seq : d \in scanned}
           T == {s + 1 : s \in S}
<1>1. S \in SUBSET (0..MaxSeq) /\ 0 \in S
  BY DEF NumberRows, Numbering!LiveDocs, Numbering!Numbers, Numbering!Blank
<1>2. \A e \in Numbering!LiveDocs : docs[e].number.spelling = "canonical" => docs[e].number.seq \in S
  OBVIOUS
<1>3. Numbering!nextSequence = Numbering!Max(S) + 1
  BY DEF Numbering!nextSequence
<1> HIDE DEF S
<1>4. \A i \in S : i \in Nat /\ i + 1 \in 1..MaxSeq + 1
  BY <1>1
<1>5. T \in SUBSET (1..MaxSeq + 1) /\ T # {} /\ MaxSeq + 1 \in Nat
  BY <1>1, <1>4
<1>6. Max(T) \in T /\ \A i \in T : i <= Max(T)
  <2> HIDE DEF T
  <2> QED
    BY <1>5, LastIndex
<1>7. PICK s \in S : Max(T) = s + 1
  BY <1>6
<1>8. \A i \in S : i <= s
  <2>1. \A i \in S : i + 1 <= s + 1
    BY <1>6, <1>7
  <2> QED
    BY <1>4, <2>1
<1>9. Numbering!Max(S) \in S /\ \A i \in S : Numbering!Max(S) >= i
  BY <1>1, <1>8 DEF Numbering!Max
<1>10. Numbering!Max(S) \in Nat /\ \A i \in S : i < Numbering!Max(S) + 1
  BY <1>4, <1>9
<1> QED
  BY <1>2, <1>3, <1>10

\* Where one handler at a time writes, there is one.
LEMMA Alone ==
    ASSUME NEW S, IsFiniteSet(S), Cardinality(S) <= 1
    PROVE  \A r, q \in S : r = q
<1> SUFFICES ASSUME NEW r \in S, NEW q \in S, r # q PROVE FALSE
  OBVIOUS
<1>1. Cardinality(S) \in Nat
  BY FS_CardinalityType
<1>2. IsFiniteSet({r}) /\ Cardinality({r}) = 1 /\ {r} \in SUBSET S
  BY FS_Singleton
<1>3. Cardinality({r}) <= Cardinality(S) /\ (Cardinality(S) = Cardinality({r}) => S = {r})
  BY <1>2, FS_Subset
<1> QED
  BY <1>1, <1>2, <1>3

\* One row gets a number that no other live row has.
LEMMA FreeNumberWritten ==
    ASSUME docs \in NumberRows, Numbering!UniqueNumbers, NEW p \in Docs, NEW n \in Numbering!Numbers,
           ~Numbering!numberExists(n, {p}),
           docs' = [docs EXCEPT ![p] = [row |-> "live", number |-> n]]
    PROVE  Numbering!UniqueNumbers' /\ docs' \in NumberRows
<1>1. docs' \in NumberRows
  BY DEF NumberRows
<1>2. /\ docs'[p].number = n
      /\ \A d \in Docs \ {p} : docs'[d] = docs[d]
  BY DEF NumberRows
<1>3. ASSUME NEW d \in Numbering!LiveDocs', NEW e \in Numbering!LiveDocs', d # e,
             Numbering!SameNumber(docs'[d].number, docs'[e].number)
      PROVE  FALSE
  BY <1>2, <1>3 DEF Numbering!UniqueNumbers, Numbering!LiveDocs, Numbering!numberExists, Numbering!SameNumber
<1> QED
  BY <1>1, <1>3 DEF Numbering!UniqueNumbers, Numbering!SameNumber

\* A handler that begins, alone if there is no index.
LEMMA BeginNumber ==
    ASSUME NumberInv, NEW r \in Writers, NEW m \in Numbering!Request, m # Numbering!NoRequest,
           Numbering!Begin(r, m),
           ~uniqueIndex => (Numbering!OneAtATime /\ Numbering!GeneratorSpelling)',
           ~uniqueIndex /\ m.number.spelling = "canonical" =>
              /\ m.op = "insert" => ~Numbering!numberExists(m.number, {})
              /\ m.op = "update" => ~Numbering!numberExists(m.number, {m.doc})
    PROVE  NumberInv'
<1>1. writes' \in [Writers -> Numbering!Request] /\ writes'[r] = m /\ UNCHANGED <<docs, uniqueIndex>>
  BY DEF NumberInv, Numbering!Begin
<1>2. IsFiniteSet(Busy')
  <2>1. Busy' \in SUBSET (Busy \cup {r})
    BY DEF Busy, NumberInv, Numbering!Begin
  <2>2. IsFiniteSet(Busy \cup {r})
    BY FS_AddElement DEF NumberInv
  <2> QED
    BY <2>1, <2>2, FS_Subset
<1>3. /\ Numbering!UniqueNumbers' /\ Numbered'
      /\ docs' \in NumberRows /\ uniqueIndex' \in BOOLEAN
  BY <1>1 DEF NumberInv, Numbered, Numbering!UniqueNumbers, Numbering!LiveDocs
<1>4. CASE ~uniqueIndex
  <2>1. \A q, s \in Busy' : q = s
    <3>1. Cardinality(Busy') <= 1
      BY <1>4 DEF Numbering!OneAtATime, Numbering!Cardinality, Cardinality, Busy
    <3> QED
      BY <1>2, <3>1, Alone
  <2>2. ASSUME NEW q \in Busy' PROVE StillFree(q)'
    <3>1. q = r
      BY <1>1, <2>1, <2>2 DEF Busy
    <3>2. m.number.spelling = "canonical"
      BY <1>1, <1>4, <3>1 DEF Numbering!GeneratorSpelling
    <3> QED
      BY <1>1, <1>4, <3>1, <3>2 DEF StillFree, Numbering!numberExists, Numbering!LiveDocs
  <2>3. Guarded'
    BY <1>1, <1>4, <2>1, <2>2 DEF NumberInv, Guarded, Numbering!LiveDocs
  <2> QED
    BY <1>1, <1>2, <1>3, <2>3 DEF NumberInv
<1>5. CASE uniqueIndex
  BY <1>1, <1>2, <1>3, <1>5 DEF NumberInv
<1> QED
  BY <1>4, <1>5

\* A handler that ends, with or without a row written.
LEMMA FinishNumber ==
    ASSUME NumberInv, NEW r \in Busy, Numbering!Finish(r), UNCHANGED uniqueIndex,
           docs' \in NumberRows, Numbered', Numbering!UniqueNumbers',
           ~uniqueIndex => \A d \in Numbering!LiveDocs' : docs'[d].number.spelling = "canonical"
    PROVE  NumberInv'
<1>1. writes' \in [Writers -> Numbering!Request] /\ Busy' = Busy \ {r}
  BY DEF NumberInv, Numbering!Finish, Numbering!Request, Busy
<1>2. IsFiniteSet(Busy')
  BY <1>1, FS_RemoveElement DEF NumberInv
<1>3. ~uniqueIndex => Busy' = {}
  BY <1>1 DEF NumberInv, Guarded
<1>4. ~uniqueIndex => Guarded'
  BY <1>3 DEF Guarded
<1> QED
  BY <1>1, <1>2, <1>4 DEF NumberInv

\* A deleted row gives up its number and takes no other.
LEMMA DeleteNumber ==
    ASSUME NumberInv, NEW p \in Docs, Numbering!Delete(p)
    PROVE  NumberInv'
<1>1. /\ docs' \in NumberRows /\ UNCHANGED <<writes, uniqueIndex>>
      /\ \A d \in Docs : docs'[d].number = docs[d].number
      /\ Numbering!LiveDocs' \subseteq Numbering!LiveDocs
  BY DEF NumberInv, NumberRows, Numbering!Delete, Numbering!LiveDocs
<1>2. Busy' = Busy
  BY <1>1 DEF Busy
<1>3. \A d \in Numbering!LiveDocs' : d \in Docs
  BY DEF Numbering!LiveDocs
<1>4. Numbering!UniqueNumbers' /\ Numbered'
  BY <1>1, <1>3 DEF NumberInv, Numbered, Numbering!UniqueNumbers, Numbering!SameNumber
<1>5. ~uniqueIndex => Guarded'
  <2>1. \A r \in Busy : StillFree(r) => StillFree(r)'
    BY <1>1, <1>3 DEF StillFree, Numbering!numberExists, Numbering!SameNumber
  <2> QED
    BY <1>1, <1>2, <1>3, <2>1 DEF NumberInv, Guarded
<1> QED
  BY <1>1, <1>2, <1>4, <1>5 DEF NumberInv

\* The number that a handler writes is free when it writes it.
LEMMA WriteNumber ==
    ASSUME NumberInv, NEW r \in Busy, NEW p \in Docs,
           \/ /\ writes[r].op = "insert" /\ docs[p].row = "absent"
              /\ Numbering!IndexAdmits(writes[r].number, {})
           \/ /\ writes[r].op = "update" /\ p = writes[r].doc
              /\ Numbering!IndexAdmits(writes[r].number, {p})
    PROVE  /\ writes[r].number \in Numbering!Numbers
           /\ ~Numbering!numberExists(writes[r].number, {p})
           /\ ~uniqueIndex => writes[r].number.spelling = "canonical"
<1>1. writes[r].number \in Numbering!Numbers
  BY DEF NumberInv, Numbering!Request, Numbering!NoRequest, Busy
<1>2. Numbering!numberExists(writes[r].number, {p}) => Numbering!numberExists(writes[r].number, {})
  BY DEF Numbering!numberExists
<1>3. CASE uniqueIndex
  BY <1>1, <1>2, <1>3 DEF Numbering!IndexAdmits
<1>4. CASE ~uniqueIndex
  <2>1. StillFree(r)
    BY <1>4 DEF NumberInv, Guarded
  <2> QED
    BY <1>1, <1>2, <2>1 DEF StillFree
<1> QED
  BY <1>3, <1>4

\* A row that is written with a free number keeps the invariant.
LEMMA RowWritten ==
    ASSUME NumberInv, NEW r \in Busy, NEW p \in Docs, NEW n \in Numbering!Numbers,
           ~Numbering!numberExists(n, {p}), ~uniqueIndex => n.spelling = "canonical",
           docs' = [docs EXCEPT ![p] = [row |-> "live", number |-> n]],
           Numbering!Finish(r), UNCHANGED uniqueIndex
    PROVE  NumberInv'
<1>1. docs' \in NumberRows /\ Numbering!UniqueNumbers'
  BY FreeNumberWritten DEF NumberInv
<1>2. \A d \in Numbering!LiveDocs' :
        docs'[d].number = n \/ (d \in Numbering!LiveDocs /\ docs'[d] = docs[d])
  BY DEF NumberInv, NumberRows, Numbering!LiveDocs
<1>3. Numbered'
  BY <1>2 DEF NumberInv, Numbered
<1>4. ~uniqueIndex => \A d \in Numbering!LiveDocs' : docs'[d].number.spelling = "canonical"
  BY <1>2 DEF NumberInv, Guarded
<1> QED
  BY <1>1, <1>3, <1>4, FinishNumber

LEMMA NumberStep ==
    ASSUME MaxSeq \in Nat, NumberInv,
           [Numbering!Next /\ (uniqueIndex \/ (Numbering!OneAtATime /\ Numbering!GeneratorSpelling)')]_(Numbering!vars)
    PROVE  NumberInv'
<1>1. CASE UNCHANGED Numbering!vars
  <2>1. UNCHANGED <<docs, writes, uniqueIndex>>
    BY <1>1 DEF Numbering!vars
  <2> QED
    BY <2>1 DEF NumberInv, Numbered, Guarded, StillFree, Busy, Numbering!UniqueNumbers, Numbering!LiveDocs,
                Numbering!numberExists
<1> SUFFICES ASSUME Numbering!Next,
                    uniqueIndex \/ (Numbering!OneAtATime /\ Numbering!GeneratorSpelling)'
             PROVE  NumberInv'
  BY <1>1
<1>2. ASSUME NEW d \in Docs, Numbering!Delete(d) PROVE NumberInv'
  BY <1>2, DeleteNumber
<1>3. ASSUME NEW r \in Writers, NEW n \in Numbering!Numbers, Numbering!CreateTyped(r, n)
      PROVE  NumberInv'
  <2> DEFINE m == [op |-> "insert", number |-> n]
  <2>1. Numbering!Begin(r, m) /\ ~Numbering!numberExists(n, {})
    BY <1>3 DEF Numbering!CreateTyped
  <2>2. m \in Numbering!Request /\ m # Numbering!NoRequest /\ m.op = "insert" /\ m.number = n
    BY DEF Numbering!Request, Numbering!NoRequest
  <2> HIDE DEF m
  <2> QED
    BY <2>1, <2>2, BeginNumber
<1>4. ASSUME NEW r \in Writers, Numbering!CreateGenerated(r)
      PROVE  NumberInv'
  <2> DEFINE n == [seq |-> Numbering!nextSequence, spelling |-> "canonical"]
             m == [op |-> "insert", number |-> n]
  <2>1. Numbering!Begin(r, m) /\ Numbering!nextSequence <= MaxSeq
    BY <1>4 DEF Numbering!CreateGenerated
  <2>2. Numbering!nextSequence \in Nat \ {0}
    BY NextIsFree DEF NumberInv
  <2>3. n \in Numbering!Numbers
    BY <2>1, <2>2 DEF Numbering!Numbers
  <2>4. ~uniqueIndex => ~Numbering!numberExists(n, {})
    <3> SUFFICES ASSUME ~uniqueIndex, Numbering!numberExists(n, {}) PROVE FALSE
      OBVIOUS
    <3>1. PICK d \in Numbering!LiveDocs : docs[d].number.seq = Numbering!nextSequence
      BY DEF Numbering!numberExists, Numbering!SameNumber
    <3>2. docs[d].number.spelling = "canonical"
      BY DEF NumberInv, Guarded
    <3> QED
      BY <2>2, <3>1, <3>2, NextIsFree DEF NumberInv
  <2> HIDE DEF n
  <2>5. m \in Numbering!Request /\ m # Numbering!NoRequest /\ m.op = "insert" /\ m.number = n
    BY <2>3 DEF Numbering!Request, Numbering!NoRequest
  <2> HIDE DEF m
  <2> QED
    BY <2>1, <2>4, <2>5, BeginNumber
<1>5. ASSUME NEW r \in Writers, NEW d \in Docs, NEW n \in Numbering!Numbers, Numbering!UpdateTyped(r, d, n)
      PROVE  NumberInv'
  <2> DEFINE m == [op |-> "update", doc |-> d, number |-> n]
  <2>1. Numbering!Begin(r, m) /\ d \in Numbering!LiveDocs
    BY <1>5 DEF Numbering!UpdateTyped
  <2>2. ~Numbering!numberExists(n, {d})
    BY <1>5 DEF NumberInv, Numbering!UpdateTyped, Numbering!UniqueNumbers, Numbering!numberExists,
                Numbering!SameNumber
  <2>3. /\ m \in Numbering!Request /\ m # Numbering!NoRequest
        /\ m.op = "update" /\ m.number = n /\ m.doc = d
    BY DEF Numbering!Request, Numbering!NoRequest
  <2> HIDE DEF m
  <2> QED
    BY <2>1, <2>2, <2>3, BeginNumber
<1>6. ASSUME NEW r \in Writers, NEW d \in Docs, Numbering!UpdateKeep(r, d)
      PROVE  NumberInv'
  <2> DEFINE n == docs[d].number
             m == [op |-> "update", doc |-> d, number |-> n]
  <2>1. Numbering!Begin(r, m) /\ d \in Numbering!LiveDocs
    BY <1>6 DEF Numbering!UpdateKeep
  <2>2. ~Numbering!numberExists(n, {d})
    BY <2>1 DEF NumberInv, Numbering!UniqueNumbers, Numbering!numberExists, Numbering!SameNumber
  <2>3. n \in Numbering!Numbers
    BY <2>1 DEF NumberInv, Numbered, Numbering!LiveDocs
  <2> HIDE DEF n
  <2>4. /\ m \in Numbering!Request /\ m # Numbering!NoRequest
        /\ m.op = "update" /\ m.number = n /\ m.doc = d
    BY <2>3 DEF Numbering!Request, Numbering!NoRequest
  <2> HIDE DEF m
  <2> QED
    BY <2>1, <2>2, <2>4, BeginNumber
<1>7. ASSUME NEW r \in Writers, NEW d \in Docs, Numbering!CreateInsert(r, d)
      PROVE  NumberInv'
  <2> DEFINE n == writes[r].number
  <2>1. /\ r \in Busy /\ Numbering!Finish(r) /\ UNCHANGED uniqueIndex
        /\ docs' = [docs EXCEPT ![d] = [row |-> "live", number |-> n]]
    BY <1>7 DEF Numbering!CreateInsert, Busy, Numbering!NoRequest
  <2>2. n \in Numbering!Numbers /\ ~Numbering!numberExists(n, {d})
        /\ (~uniqueIndex => n.spelling = "canonical")
    BY <1>7, <2>1, WriteNumber DEF Numbering!CreateInsert
  <2> HIDE DEF n
  <2> QED
    BY <2>1, <2>2, RowWritten
<1>8. ASSUME NEW r \in Writers, Numbering!UpdateCommit(r)
      PROVE  NumberInv'
  <2> DEFINE n == writes[r].number
             d == writes[r].doc
  <2>1. r \in Busy /\ Numbering!Finish(r) /\ UNCHANGED uniqueIndex /\ writes[r].op = "update"
    BY <1>8 DEF Numbering!UpdateCommit, Busy, Numbering!NoRequest
  <2>2. CASE UNCHANGED docs
    BY <2>1, <2>2, FinishNumber DEF NumberInv, Numbered, Guarded, Numbering!UniqueNumbers, Numbering!LiveDocs
  <2>3. CASE /\ d \in Numbering!LiveDocs
             /\ Numbering!IndexAdmits(n, {d})
             /\ docs' = [docs EXCEPT ![d].number = n]
    <3>1. d \in Docs /\ docs[d].row = "live"
      BY <2>3 DEF Numbering!LiveDocs
    <3>2. docs' = [docs EXCEPT ![d] = [row |-> "live", number |-> n]]
      <4>1. [docs[d] EXCEPT !.number = n] = [row |-> "live", number |-> n]
        BY <3>1 DEF NumberInv, NumberRows
      <4>2. docs' = [docs EXCEPT ![d] = [docs[d] EXCEPT !.number = n]]
        BY <2>3, <3>1
      <4> QED
        BY <4>1, <4>2
    <3>3. n \in Numbering!Numbers /\ ~Numbering!numberExists(n, {d})
          /\ (~uniqueIndex => n.spelling = "canonical")
      BY <2>1, <2>3, <3>1, WriteNumber
    <3> HIDE DEF n, d
    <3> QED
      BY <2>1, <3>1, <3>2, <3>3, RowWritten
  <2> QED
    BY <1>8, <2>2, <2>3 DEF Numbering!UpdateCommit
<1>9. ASSUME NEW r \in Writers, Numbering!Abort(r)
      PROVE  NumberInv'
  BY <1>9, FinishNumber DEF Numbering!Abort, Busy, NumberInv, Numbered, Guarded, Numbering!UniqueNumbers,
                            Numbering!LiveDocs
<1> QED
  BY <1>2, <1>3, <1>4, <1>5, <1>6, <1>7, <1>8, <1>9 DEF Numbering!Next

\* No two live documents have the same number: for any number of rows and
\* handlers, by the index alone where there is one, and otherwise by the scan
\* and the lookup as long as handlers come one at a time and numbers are
\* spelled as the generator spells them.
THEOREM NumbersUnique == Numbering!SpecCareful => []UniqueNumbers
<1>1. Numbering!Init => NumberInv
  <2> SUFFICES ASSUME Numbering!Init PROVE NumberInv
    OBVIOUS
  <2>1. Busy = {} /\ Numbering!LiveDocs = {}
    BY DEF Numbering!Init, Busy, Numbering!LiveDocs
  <2> QED
    BY <2>1, FS_EmptySet DEF Numbering!Init, NumberInv, NumberRows, Numbered, Guarded,
                             Numbering!UniqueNumbers, Numbering!Request
<1>2. MaxSeq \in Nat
  BY MaxSeqAssumption
<1>3. /\ NumberInv
      /\ [Numbering!Next /\ (uniqueIndex \/ (Numbering!OneAtATime /\ Numbering!GeneratorSpelling)')]_(Numbering!vars)
      => NumberInv'
  BY <1>2, NumberStep
<1>4. NumberInv => UniqueNumbers
  BY DEF NumberInv, UniqueNumbers, LiveDocs, SameNumber,
         Numbering!UniqueNumbers, Numbering!LiveDocs, Numbering!SameNumber
<1> QED
  BY <1>1, <1>3, <1>4, PTL DEF Numbering!SpecCareful

-----------------------------------------------------------------------------
(* Fractions.                                                               *)

LEMMA ProductMonotone ==
    ASSUME NEW a \in Int, NEW b \in Int, NEW g \in Nat
    PROVE  a <= b => a * g <= b * g
<1>1. a <= b => (b - a) * g >= 0
  OBVIOUS
<1>2. (b - a) * g = b * g - a * g
  OBVIOUS
<1> QED
  BY <1>1, <1>2

LEMMA ProductCancels ==
    ASSUME NEW a \in Int, NEW b \in Int, NEW g \in Nat \ {0}, a * g <= b * g
    PROVE  a <= b
<1> SUFFICES ASSUME b + 1 <= a PROVE FALSE
  OBVIOUS
<1>1. (b + 1) * g <= a * g
  BY ProductMonotone
<1>2. (b + 1) * g = b * g + g
  OBVIOUS
<1>3. a * g \in Int /\ b * g \in Int
  OBVIOUS
<1> QED
  BY <1>1, <1>2, <1>3

LEMMA ProductInjective ==
    ASSUME NEW a \in Int, NEW b \in Int, NEW g \in Nat \ {0}, a * g = b * g
    PROVE  a = b
<1>1. a * g \in Int /\ b * g \in Int
  OBVIOUS
<1>2. a * g <= b * g /\ b * g <= a * g
  BY <1>1
<1>3. a <= b
  BY <1>2, ProductCancels
<1>4. b <= a
  BY <1>2, ProductCancels
<1> QED
  BY <1>3, <1>4

LEMMA Distribute ==
    ASSUME NEW a \in Int, NEW b \in Int, NEW c \in Int
    PROVE  /\ (a + b) * c = a * c + b * c /\ (a - b) * c = a * c - b * c
           /\ a * c \in Int /\ b * c \in Int
  OBVIOUS

LEMMA Reorder ==
    ASSUME NEW a \in Int, NEW b \in Int, NEW c \in Int
    PROVE  (a * b) * c = (a * c) * b /\ a * (b * c) = (a * b) * c /\ a * b = b * a
  OBVIOUS

\* The quotient of a multiple.
LEMMA ExactQuotient ==
    ASSUME NEW a \in Int, NEW g \in Nat \ {0}
    PROVE  (a * g) \div g = a
<1> DEFINE q == (a * g) \div g
           m == a * g
<1>1. m \in Int
  OBVIOUS
<1>2. (m \div g) \in Int /\ m = g * (m \div g) + (m % g) /\ (m % g) \in 0..g-1
  <2> HIDE DEF m
  <2> QED
    BY <1>1
<1>3. q \in Int /\ g * q <= m /\ m < g * (q + 1)
  <2>1. q = m \div g
    OBVIOUS
  <2> HIDE DEF q, m
  <2>2. g * (q + 1) = g * q + g /\ g * q \in Int
    BY <1>2, <2>1
  <2> QED
    BY <1>1, <1>2, <2>1, <2>2
<1> HIDE DEF q
<1>4. q * g <= a * g /\ ~((q + 1) * g <= a * g)
  BY <1>3
<1>5. q <= a
  BY <1>3, <1>4, ProductCancels
<1>6. ~(q + 1 <= a)
  BY <1>3, <1>4, ProductMonotone
<1> QED
  BY <1>3, <1>5, <1>6 DEF q

Divisors(p) == {d \in Nat \ {0} : \E x, y \in Nat : p[1] = x * d /\ p[2] = y * d}

\* Euclid's step keeps the common divisors.
LEMMA EuclidStep ==
    ASSUME NEW a \in Nat, NEW b \in Nat \ {0}
    PROVE  Divisors(<<a, b>>) = Divisors(<<b, a % b>>)
<1> DEFINE q == a \div b
           r == a % b
<1>1. q \in Nat /\ r \in Nat /\ a = b * q + r
  OBVIOUS
<1> HIDE DEF q, r
<1>2. ASSUME NEW d \in Nat \ {0}, NEW x \in Nat, NEW y \in Nat, a = x * d, b = y * d
      PROVE  \E z \in Nat : r = z * d
  <2> DEFINE z == x - y * q
  <2>1. z \in Int /\ z * d = x * d - (y * d) * q
    <3>1. y * q \in Int /\ q \in Int /\ x \in Int /\ y \in Int /\ d \in Int
      BY <1>1
    <3>2. (x - y * q) * d = x * d - (y * q) * d
      BY <3>1, Distribute
    <3>3. (y * q) * d = (y * d) * q
      BY <3>1, Reorder
    <3> QED
      BY <3>1, <3>2, <3>3
  <2>2. z * d = r
    BY <1>1, <1>2, <2>1
  <2>3. z \in Nat
    <3> HIDE DEF z
    <3>1. 0 * d <= z * d
      BY <1>1, <2>2
    <3>2. 0 <= z
      BY <2>1, <3>1, ProductCancels
    <3> QED
      BY <2>1, <3>2
  <2> QED
    BY <2>2, <2>3
<1>3. ASSUME NEW d \in Nat \ {0}, NEW y \in Nat, NEW z \in Nat, b = y * d, r = z * d
      PROVE  \E x \in Nat : a = x * d
  <2>1. y * q + z \in Nat /\ (y * q + z) * d = (y * d) * q + z * d
    BY <1>1
  <2>2. a = (y * q + z) * d
    BY <1>1, <1>3, <2>1
  <2> QED
    BY <2>1, <2>2
<1>4. Divisors(<<a, b>>) \subseteq Divisors(<<b, r>>)
  BY <1>2 DEF Divisors
<1>5. Divisors(<<b, r>>) \subseteq Divisors(<<a, b>>)
  BY <1>3 DEF Divisors
<1> QED
  BY <1>4, <1>5 DEF r

Greatest(D) == CHOOSE g \in D : \A d \in D : d <= g

LEMMA LastDivisor ==
    ASSUME NEW a \in Nat \ {0}
    PROVE  Greatest(Divisors(<<a, 0>>)) = a
<1> DEFINE D == Divisors(<<a, 0>>)
<1>1. a \in D
  <2>1. a = 1 * a /\ 0 = 0 * a
    OBVIOUS
  <2> QED
    BY <2>1 DEF Divisors
<1>2. ASSUME NEW d \in D PROVE d \in Nat /\ d <= a
  <2>1. PICK x \in Nat : a = x * d
    BY DEF Divisors
  <2>2. d \in Nat \ {0}
    BY DEF Divisors
  <2>3. x # 0
    BY <2>1, <2>2
  <2>4. 1 * d <= x * d
    BY <2>2, <2>3, ProductMonotone
  <2> QED
    BY <2>1, <2>2, <2>4
<1> HIDE DEF D
<1>3. \A g \in D : (\A d \in D : d <= g) => g = a
  BY <1>1, <1>2
<1>4. \E g \in D : \A d \in D : d <= g
  BY <1>1, <1>2
<1> QED
  BY <1>3, <1>4 DEF Greatest, D

\* The recursion of gcd has a solution, so gcd is one.
Euclid(g) == g = [p \in Nat \X Nat |-> IF p[2] = 0 THEN p[1] ELSE g[<<p[2], p[1] % p[2]>>]]

LEMMA EuclidSolved == \E g : Euclid(g)
<1> DEFINE h == [p \in Nat \X Nat |-> IF p[2] = 0 THEN p[1] ELSE Greatest(Divisors(p))]
<1>1. ASSUME NEW p \in Nat \X Nat, p[2] # 0
      PROVE  h[p] = h[<<p[2], p[1] % p[2]>>]
  <2> DEFINE a == p[1]
             b == p[2]
  <2>1. a \in Nat /\ b \in Nat \ {0} /\ p = <<a, b>> /\ a % b \in Nat
    BY <1>1
  <2>2. h[p] = Greatest(Divisors(<<a, b>>))
    BY <1>1, <2>1
  <2>3. Divisors(<<a, b>>) = Divisors(<<b, a % b>>)
    BY <2>1, EuclidStep
  <2>4. h[<<b, a % b>>] = IF a % b = 0 THEN b ELSE Greatest(Divisors(<<b, a % b>>))
    BY <2>1
  <2>5. a % b = 0 => Greatest(Divisors(<<b, a % b>>)) = b
    BY <2>1, LastDivisor
  <2> QED
    BY <2>2, <2>3, <2>4, <2>5
<1>2. \A p \in Nat \X Nat : h[p] = IF p[2] = 0 THEN p[1] ELSE h[<<p[2], p[1] % p[2]>>]
  BY <1>1
<1>3. h = [p \in Nat \X Nat |-> h[p]]
  OBVIOUS
<1> HIDE DEF h
<1>4. h = [p \in Nat \X Nat |-> IF p[2] = 0 THEN p[1] ELSE h[<<p[2], p[1] % p[2]>>]]
  BY <1>2, <1>3, Zenon
<1> QED
  BY <1>4 DEF Euclid

LEMMA GcdUnfolds ==
    ASSUME NEW a \in Nat, NEW b \in Nat
    PROVE  gcd[<<a, b>>] = IF b = 0 THEN a ELSE gcd[<<b, a % b>>]
<1>1. gcd = CHOOSE g : Euclid(g)
  BY DEF gcd, Euclid
<1>2. Euclid(gcd)
  BY <1>1, EuclidSolved
<1> HIDE DEF gcd
<1>3. gcd[<<a, b>>] = IF <<a, b>>[2] = 0 THEN <<a, b>>[1] ELSE gcd[<< <<a, b>>[2], <<a, b>>[1] % <<a, b>>[2] >>]
  BY <1>2 DEF Euclid
<1> QED
  BY <1>3

\* gcd is a common divisor, unless both are zero.
Divides(a, b) == a # 0 \/ b # 0 => gcd[<<a, b>>] \in Divisors(<<a, b>>)

LEMMA GcdDivides == \A b \in Nat : \A a \in Nat : Divides(a, b)
<1> DEFINE Bad == {b \in Nat : \E a \in Nat : ~Divides(a, b)}
<1> SUFFICES ASSUME Bad # {} PROVE FALSE
  OBVIOUS
<1>1. Bad \in SUBSET Nat
  OBVIOUS
<1>2. PICK b \in Bad : \A c \in Bad : b <= c
  <2> HIDE DEF Bad
  <2> QED
    BY <1>1, LeastOfNaturals
<1>3. PICK a \in Nat : ~Divides(a, b)
  OBVIOUS
<1>4. b \in Nat
  OBVIOUS
<1>5. gcd[<<a, b>>] = IF b = 0 THEN a ELSE gcd[<<b, a % b>>]
  BY <1>3, <1>4, GcdUnfolds
<1>6. CASE b = 0
  <2>1. a # 0 /\ gcd[<<a, b>>] = a
    BY <1>3, <1>5, <1>6 DEF Divides
  <2>2. a = 1 * a /\ 0 = 0 * a
    BY <1>3
  <2>3. a \in Divisors(<<a, b>>)
    BY <1>3, <1>6, <2>1, <2>2 DEF Divisors
  <2> QED
    BY <1>3, <2>1, <2>3 DEF Divides
<1>7. CASE b # 0
  <2>1. a % b \in Nat /\ a % b < b
    BY <1>3, <1>4, <1>7
  <2>2. Divides(b, a % b)
    BY <1>2, <1>4, <2>1
  <2>3. gcd[<<a, b>>] \in Divisors(<<b, a % b>>)
    BY <1>5, <1>7, <2>2 DEF Divides
  <2>4. Divisors(<<b, a % b>>) = Divisors(<<a, b>>)
    BY <1>3, <1>4, <1>7, EuclidStep
  <2> QED
    BY <1>3, <2>3, <2>4 DEF Divides
<1> QED
  BY <1>6, <1>7

-----------------------------------------------------------------------------
Fraction == [n : Int, d : Nat \ {0}]

\* A fraction in lowest terms has the same value.
LEMMA FractionValue ==
    ASSUME NEW n \in Int, NEW d \in Nat \ {0}
    PROVE  /\ fraction(n, d) \in Fraction
           /\ fraction(n, d).n * d = n * fraction(n, d).d
<1> DEFINE r == n % d
           g == gcd[<<d, r>>]
<1>1. r \in Nat /\ n = d * (n \div d) + r /\ (n \div d) \in Int
  OBVIOUS
<1> HIDE DEF r
<1>2. g \in Divisors(<<d, r>>)
  BY <1>1, GcdDivides DEF Divides
<1>3. g \in Nat \ {0} /\ \E x, y \in Nat : d = x * g /\ r = y * g
  BY <1>2 DEF Divisors
<1>4. fraction(n, d) = [n |-> n \div g, d |-> d \div g]
  BY DEF fraction, r
<1> HIDE DEF g
<1>5. PICK x \in Nat : \E y \in Nat : d = x * g /\ r = y * g
  BY <1>3
<1>6. PICK y \in Nat : d = x * g /\ r = y * g
  BY <1>5
<1> DEFINE z == x * (n \div d) + y
<1>7. z \in Int /\ z * g = (x * g) * (n \div d) + y * g
  <2> DEFINE q == n \div d
  <2>1. q \in Int /\ x \in Int /\ y \in Int /\ g \in Int
    BY <1>1, <1>3
  <2> HIDE DEF q
  <2>2. x * q \in Int
    BY <2>1
  <2>3. (x * q + y) * g = (x * q) * g + y * g
    BY <2>1, <2>2, Distribute
  <2>4. (x * q) * g = (x * g) * q
    BY <2>1, Reorder
  <2> QED
    BY <2>1, <2>2, <2>3, <2>4 DEF q
<1>8. n = z * g
  BY <1>1, <1>6, <1>7
<1> HIDE DEF z
<1>9. n \div g = z /\ d \div g = x
  <2>1. (z * g) \div g = z
    BY <1>3, <1>7, ExactQuotient
  <2>2. (x * g) \div g = x
    BY <1>3, ExactQuotient
  <2> QED
    BY <1>6, <1>8, <2>1, <2>2
<1>10. x # 0
  BY <1>3, <1>6
<1>11. z * (x * g) = (z * g) * x
  BY <1>3, <1>7
<1>12. fraction(n, d) = [n |-> z, d |-> x]
  BY <1>4, <1>9
<1> QED
  BY <1>6, <1>7, <1>8, <1>10, <1>11, <1>12 DEF Fraction

\* What comparing and adding fractions comes to on the products.
AtMost(a, b) == a.n * b.d <= b.n * a.d

LEMMA PlusValue ==
    ASSUME NEW a \in Fraction, NEW b \in Fraction
    PROVE  /\ plus(a, b) \in Fraction
           /\ plus(a, b).n * (a.d * b.d) = (a.n * b.d + b.n * a.d) * plus(a, b).d
<1>1. /\ a.n \in Int /\ b.n \in Int /\ a.d \in Nat \ {0} /\ b.d \in Nat \ {0}
  BY DEF Fraction
<1>2. a.n * b.d + b.n * a.d \in Int /\ a.d * b.d \in Nat \ {0}
  BY <1>1
<1> QED
  BY <1>2, FractionValue DEF plus

\* Rounding moves by half a cent at most.
LEMMA RoundBounds ==
    ASSUME NEW a \in Fraction
    PROVE  /\ round2(a) \in Int
           /\ 2 * (round2(a) * a.d) <= 2 * a.n + a.d
           /\ 2 * a.n + a.d < 2 * (round2(a) * a.d) + 2 * a.d
<1> DEFINE m == 2 * a.n + a.d
           e == 2 * a.d
           q == m \div e
<1>1. m \in Int /\ e \in Nat \ {0} /\ a.d \in Nat \ {0}
  BY DEF Fraction
<1>2. round2(a) = q
  BY DEF round2
<1>3. q \in Int /\ m = e * q + (m % e) /\ (m % e) \in 0..e-1
  <2> HIDE DEF m, e
  <2> QED
    BY <1>1
<1>4. e * q = 2 * (q * a.d)
  <2> HIDE DEF q
  <2> QED
    BY <1>1, <1>3
<1> HIDE DEF q
<1>5. q * a.d \in Int
  BY <1>1, <1>3
<1> QED
  BY <1>1, <1>2, <1>3, <1>4, <1>5

LEMMA RoundMonotone ==
    ASSUME NEW a \in Fraction, NEW b \in Fraction, AtMost(a, b)
    PROVE  round2(a) <= round2(b)
<1> DEFINE p == round2(a)
           q == round2(b)
<1>1. /\ a.n \in Int /\ b.n \in Int /\ a.d \in Nat \ {0} /\ b.d \in Nat \ {0}
      /\ p \in Int /\ q \in Int
      /\ 2 * (p * a.d) <= 2 * a.n + a.d
      /\ 2 * b.n + b.d < 2 * (q * b.d) + 2 * b.d
      /\ a.n * b.d <= b.n * a.d
  BY RoundBounds DEF Fraction, AtMost
<1> HIDE DEF p, q
<1> SUFFICES ASSUME q + 1 <= p PROVE FALSE
  BY <1>1 DEF p, q
<1> DEFINE D == a.d * b.d
<1>2. (2 * (p * a.d)) * b.d <= (2 * a.n + a.d) * b.d
  BY <1>1, ProductMonotone
<1>3. (2 * b.n + b.d) * a.d < (2 * (q * b.d) + 2 * b.d) * a.d
  <2> DEFINE u == 2 * b.n + b.d
             v == 2 * (q * b.d) + 2 * b.d
  <2>1. u \in Int /\ v \in Int /\ u < v /\ a.d \in Nat \ {0}
    BY <1>1
  <2> HIDE DEF u, v
  <2>2. (u + 1) * a.d <= v * a.d
    BY <2>1, ProductMonotone
  <2>3. (u + 1) * a.d = u * a.d + a.d /\ u * a.d \in Int /\ v * a.d \in Int
    BY <2>1
  <2>4. u * a.d < v * a.d
    BY <2>1, <2>2, <2>3
  <2> QED
    BY <2>4 DEF u, v
<1>4. /\ (2 * (p * a.d)) * b.d = 2 * (p * D)
      /\ (2 * a.n + a.d) * b.d = 2 * (a.n * b.d) + D
      /\ (2 * b.n + b.d) * a.d = 2 * (b.n * a.d) + D
      /\ (2 * (q * b.d) + 2 * b.d) * a.d = 2 * ((q + 1) * D)
  BY <1>1
<1>5. D \in Nat /\ (q + 1) * D <= p * D
  BY <1>1, ProductMonotone
<1>6. /\ p * D \in Int /\ (q + 1) * D \in Int /\ a.n * b.d \in Int /\ b.n * a.d \in Int
  BY <1>1, <1>5
<1>7. 2 * (p * D) <= 2 * (a.n * b.d) + D
  BY <1>2, <1>4
<1>8. 2 * (b.n * a.d) + D < 2 * ((q + 1) * D)
  BY <1>3, <1>4
<1>9. a.n * b.d <= b.n * a.d
  BY <1>1
<1> HIDE DEF D
<1> QED
  BY <1>5, <1>6, <1>7, <1>8, <1>9

LEMMA RoundNat ==
    ASSUME NEW a \in Fraction, a.n >= 0
    PROVE  round2(a) \in Nat
<1>1. Cents(0) \in Fraction /\ AtMost(Cents(0), a)
  BY DEF Cents, Fraction, AtMost
<1>2. round2(Cents(0)) <= round2(a)
  BY <1>1, RoundMonotone
<1>3. round2(Cents(0)) = 0
  BY DEF round2, Cents
<1> QED
  BY <1>2, <1>3, RoundBounds

LEMMA RoundCents == ASSUME NEW n \in Int PROVE round2(Cents(n)) = n
<1>1. Cents(n) \in Fraction
  BY DEF Cents, Fraction
<1>2. /\ round2(Cents(n)) \in Int
      /\ 2 * (round2(Cents(n)) * 1) <= 2 * n + 1
      /\ 2 * n + 1 < 2 * (round2(Cents(n)) * 1) + 2
  BY <1>1, RoundBounds DEF Cents
<1> QED
  BY <1>2

LEMMA PlusMonotone ==
    ASSUME NEW a \in Fraction, NEW b \in Fraction, NEW x \in Fraction, NEW y \in Fraction,
           AtMost(a, x), AtMost(b, y)
    PROVE  AtMost(plus(a, b), plus(x, y))
<1> DEFINE p == plus(a, b)
           q == plus(x, y)
           D == a.d * b.d
           E == x.d * y.d
           M == a.n * b.d + b.n * a.d
           N == x.n * y.d + y.n * x.d
<1>1. /\ a.n \in Int /\ b.n \in Int /\ a.d \in Nat \ {0} /\ b.d \in Nat \ {0}
      /\ x.n \in Int /\ y.n \in Int /\ x.d \in Nat \ {0} /\ y.d \in Nat \ {0}
      /\ a.n * x.d <= x.n * a.d /\ b.n * y.d <= y.n * b.d
  BY DEF Fraction, AtMost
<1>2. /\ p.n \in Int /\ p.d \in Nat \ {0} /\ q.n \in Int /\ q.d \in Nat \ {0}
      /\ p.n * D = M * p.d /\ q.n * E = N * q.d
  BY PlusValue DEF Fraction
<1> HIDE DEF p, q
<1>3. D \in Nat \ {0} /\ E \in Nat \ {0} /\ M \in Int /\ N \in Int
  BY <1>1
<1>4. M * E <= N * D
  <2>1. (a.n * x.d) * (b.d * y.d) <= (x.n * a.d) * (b.d * y.d)
    BY <1>1, ProductMonotone
  <2>2. (b.n * y.d) * (a.d * x.d) <= (y.n * b.d) * (a.d * x.d)
    BY <1>1, ProductMonotone
  <2>3. M * E = (a.n * x.d) * (b.d * y.d) + (b.n * y.d) * (a.d * x.d)
    BY <1>1
  <2>4. N * D = (x.n * a.d) * (b.d * y.d) + (y.n * b.d) * (a.d * x.d)
    BY <1>1
  <2>5. /\ (a.n * x.d) * (b.d * y.d) \in Int /\ (x.n * a.d) * (b.d * y.d) \in Int
        /\ (b.n * y.d) * (a.d * x.d) \in Int /\ (y.n * b.d) * (a.d * x.d) \in Int
    BY <1>1
  <2> QED
    BY <2>1, <2>2, <2>3, <2>4, <2>5
<1> HIDE DEF D, E, M, N
<1>5. (M * E) * (p.d * q.d) <= (N * D) * (p.d * q.d)
  BY <1>2, <1>3, <1>4, ProductMonotone
<1>6. (p.n * q.d) * (D * E) = (M * E) * (p.d * q.d)
  <2>1. (p.n * q.d) * (D * E) = (p.n * D) * (E * q.d)
    BY <1>2, <1>3
  <2>2. (M * p.d) * (E * q.d) = (M * E) * (p.d * q.d)
    BY <1>2, <1>3
  <2> QED
    BY <1>2, <2>1, <2>2
<1>7. (q.n * p.d) * (D * E) = (N * D) * (p.d * q.d)
  <2>1. (q.n * p.d) * (D * E) = (q.n * E) * (D * p.d)
    BY <1>2, <1>3
  <2>2. (N * q.d) * (D * p.d) = (N * D) * (p.d * q.d)
    BY <1>2, <1>3
  <2> QED
    BY <1>2, <2>1, <2>2
<1>8. p.n * q.d <= q.n * p.d
  <2>1. D * E \in Nat \ {0} /\ p.n * q.d \in Int /\ q.n * p.d \in Int
    BY <1>2, <1>3
  <2>2. (p.n * q.d) * (D * E) <= (q.n * p.d) * (D * E)
    BY <1>5, <1>6, <1>7
  <2> QED
    BY <2>1, <2>2, ProductCancels
<1> QED
  BY <1>8 DEF AtMost, p, q

\* An amount in cents is within k half cents of a fraction.
Near(a, c, k) ==
    /\ 2 * a.n <= 2 * (c * a.d) + k * a.d
    /\ 2 * (c * a.d) <= 2 * a.n + k * a.d

LEMMA RoundNear == ASSUME NEW a \in Fraction PROVE Near(a, round2(a), 1)
<1>1. /\ a.n \in Int /\ a.d \in Nat /\ round2(a) \in Int /\ round2(a) * a.d \in Int /\ 1 * a.d = a.d
      /\ 2 * (round2(a) * a.d) <= 2 * a.n + a.d
      /\ 2 * a.n + a.d < 2 * (round2(a) * a.d) + 2 * a.d
  BY RoundBounds DEF Fraction
<1> QED
  BY <1>1 DEF Near

LEMMA PlusNear ==
    ASSUME NEW a \in Fraction, NEW b \in Fraction, NEW c \in Int, NEW e \in Int,
           NEW j \in Nat, NEW k \in Nat, Near(a, c, j), Near(b, e, k)
    PROVE  Near(plus(a, b), c + e, j + k)
<1> DEFINE p == plus(a, b)
           D == a.d * b.d
           M == a.n * b.d + b.n * a.d
<1>1. /\ a.n \in Int /\ b.n \in Int /\ a.d \in Nat \ {0} /\ b.d \in Nat \ {0}
      /\ 2 * a.n <= 2 * (c * a.d) + j * a.d /\ 2 * (c * a.d) <= 2 * a.n + j * a.d
      /\ 2 * b.n <= 2 * (e * b.d) + k * b.d /\ 2 * (e * b.d) <= 2 * b.n + k * b.d
  BY DEF Fraction, Near
<1>2. p.n \in Int /\ p.d \in Nat \ {0} /\ p.n * D = M * p.d
  BY PlusValue DEF Fraction
<1> HIDE DEF p
<1>3. D \in Nat \ {0} /\ M \in Int
  BY <1>1
<1> DEFINE s == a.n * b.d
           t == b.n * a.d
<1>4. /\ 2 * s <= 2 * (c * D) + j * D /\ 2 * (c * D) <= 2 * s + j * D
  <2> DEFINE u == 2 * (c * a.d)
             v == j * a.d
  <2>1. u \in Int /\ v \in Int /\ 2 * a.n \in Int /\ u + v \in Int /\ 2 * a.n + v \in Int
    BY <1>1
  <2>2. 2 * a.n <= u + v /\ u <= 2 * a.n + v /\ b.d \in Nat
    BY <1>1
  <2>3. u * b.d = 2 * (c * D) /\ v * b.d = j * D /\ (2 * a.n) * b.d = 2 * s
    BY <1>1
  <2> HIDE DEF u, v, D, s
  <2>4. (2 * a.n) * b.d <= (u + v) * b.d
    BY <2>1, <2>2, ProductMonotone
  <2>5. u * b.d <= (2 * a.n + v) * b.d
    BY <2>1, <2>2, ProductMonotone
  <2>6. (u + v) * b.d = u * b.d + v * b.d /\ (2 * a.n + v) * b.d = (2 * a.n) * b.d + v * b.d
    BY <2>1, <2>2, Distribute
  <2> QED
    BY <2>3, <2>4, <2>5, <2>6
<1>5. /\ 2 * t <= 2 * (e * D) + k * D /\ 2 * (e * D) <= 2 * t + k * D
  <2> DEFINE u == 2 * (e * b.d)
             v == k * b.d
  <2>1. u \in Int /\ v \in Int /\ 2 * b.n \in Int /\ u + v \in Int /\ 2 * b.n + v \in Int
    BY <1>1
  <2>2. 2 * b.n <= u + v /\ u <= 2 * b.n + v /\ a.d \in Nat
    BY <1>1
  <2>3. u * a.d = 2 * (e * D) /\ v * a.d = k * D /\ (2 * b.n) * a.d = 2 * t
    BY <1>1
  <2> HIDE DEF u, v, D, t
  <2>4. (2 * b.n) * a.d <= (u + v) * a.d
    BY <2>1, <2>2, ProductMonotone
  <2>5. u * a.d <= (2 * b.n + v) * a.d
    BY <2>1, <2>2, ProductMonotone
  <2>6. (u + v) * a.d = u * a.d + v * a.d /\ (2 * b.n + v) * a.d = (2 * b.n) * a.d + v * a.d
    BY <2>1, <2>2, Distribute
  <2> QED
    BY <2>3, <2>4, <2>5, <2>6
<1>6. 2 * M <= 2 * ((c + e) * D) + (j + k) * D /\ 2 * ((c + e) * D) <= 2 * M + (j + k) * D
  <2>1. M = s + t /\ s \in Int /\ t \in Int
    BY <1>1
  <2>2. (c + e) * D = c * D + e * D /\ (j + k) * D = j * D + k * D
    BY <1>3
  <2>3. c * D \in Int /\ e * D \in Int /\ j * D \in Int /\ k * D \in Int
    BY <1>3
  <2> HIDE DEF D, M, s, t
  <2> QED
    BY <1>4, <1>5, <2>1, <2>2, <2>3
<1> HIDE DEF D, M
<1>7. /\ (2 * M) * p.d <= (2 * ((c + e) * D) + (j + k) * D) * p.d
      /\ (2 * ((c + e) * D)) * p.d <= (2 * M + (j + k) * D) * p.d
  BY <1>2, <1>3, <1>6, ProductMonotone
<1>8. /\ (2 * M) * p.d = (2 * p.n) * D
      /\ (2 * ((c + e) * D) + (j + k) * D) * p.d = (2 * ((c + e) * p.d) + (j + k) * p.d) * D
      /\ (2 * ((c + e) * D)) * p.d = (2 * ((c + e) * p.d)) * D
      /\ (2 * M + (j + k) * D) * p.d = (2 * p.n + (j + k) * p.d) * D
  <2>1. (2 * M) * p.d = 2 * (M * p.d) /\ (2 * p.n) * D = 2 * (p.n * D)
    BY <1>2, <1>3
  <2>2. (2 * M + (j + k) * D) * p.d = 2 * (M * p.d) + ((j + k) * p.d) * D
    BY <1>2, <1>3
  <2>3. (2 * p.n + (j + k) * p.d) * D = 2 * (p.n * D) + ((j + k) * p.d) * D
    BY <1>2, <1>3
  <2>4. /\ (2 * ((c + e) * D) + (j + k) * D) * p.d = (2 * ((c + e) * p.d) + (j + k) * p.d) * D
        /\ (2 * ((c + e) * D)) * p.d = (2 * ((c + e) * p.d)) * D
    BY <1>2, <1>3
  <2> QED
    BY <1>2, <2>1, <2>2, <2>3, <2>4
<1>9. /\ 2 * p.n <= 2 * ((c + e) * p.d) + (j + k) * p.d
      /\ 2 * ((c + e) * p.d) <= 2 * p.n + (j + k) * p.d
  <2>1. /\ 2 * p.n \in Int /\ 2 * ((c + e) * p.d) \in Int
        /\ 2 * ((c + e) * p.d) + (j + k) * p.d \in Int /\ 2 * p.n + (j + k) * p.d \in Int
    BY <1>2
  <2>2. 2 * p.n <= 2 * ((c + e) * p.d) + (j + k) * p.d
    BY <1>3, <1>7, <1>8, <2>1, ProductCancels
  <2>3. 2 * ((c + e) * p.d) <= 2 * p.n + (j + k) * p.d
    BY <1>3, <1>7, <1>8, <2>1, ProductCancels
  <2> QED
    BY <2>2, <2>3
<1> QED
  BY <1>9 DEF Near, p

-----------------------------------------------------------------------------
(* Amounts, and what comparing them comes to.                               *)

Amount == {a \in Fraction : a.n >= 0}

LEMMA FractionNat ==
    ASSUME NEW n \in Nat, NEW d \in Nat \ {0}
    PROVE  fraction(n, d) \in Amount
<1> DEFINE f == fraction(n, d)
<1>1. f \in Fraction /\ f.n * d = n * f.d
  BY FractionValue
<1>2. f.n \in Int /\ f.d \in Nat /\ n * f.d \in Nat
  BY <1>1 DEF Fraction
<1> HIDE DEF f
<1>3. 0 * d <= f.n * d
  BY <1>1, <1>2
<1>4. 0 <= f.n
  BY <1>2, <1>3, ProductCancels
<1> QED
  BY <1>1, <1>2, <1>4 DEF Amount, f

\* A fraction of naturals that is at most another one.
LEMMA FractionAtMost ==
    ASSUME NEW n \in Int, NEW d \in Nat \ {0}, NEW b \in Fraction, n * b.d <= b.n * d
    PROVE  AtMost(fraction(n, d), b)
<1> DEFINE f == fraction(n, d)
<1>1. f \in Fraction /\ f.n * d = n * f.d
  BY FractionValue
<1>2. f.n \in Int /\ f.d \in Nat \ {0} /\ b.n \in Int /\ b.d \in Nat \ {0}
  BY <1>1 DEF Fraction
<1> HIDE DEF f
<1>3. n * b.d \in Int /\ b.n * d \in Int /\ f.n * b.d \in Int /\ b.n * f.d \in Int
  BY <1>2
<1>4. (n * b.d) * f.d <= (b.n * d) * f.d
  BY <1>2, <1>3, ProductMonotone
<1>5. (f.n * b.d) * d = (n * b.d) * f.d
  <2>1. (f.n * b.d) * d = (f.n * d) * b.d
    BY <1>2
  <2>2. (n * f.d) * b.d = (n * b.d) * f.d
    BY <1>2
  <2> QED
    BY <1>1, <2>1, <2>2
<1>6. (b.n * f.d) * d = (b.n * d) * f.d
  BY <1>2
<1>7. f.n * b.d <= b.n * f.d
  BY <1>3, <1>4, <1>5, <1>6, ProductCancels
<1> QED
  BY <1>7 DEF AtMost, f

LEMMA AtMostFraction ==
    ASSUME NEW n \in Int, NEW d \in Nat \ {0}, NEW b \in Fraction, b.n * d <= n * b.d
    PROVE  AtMost(b, fraction(n, d))
<1> DEFINE f == fraction(n, d)
<1>1. f \in Fraction /\ f.n * d = n * f.d
  BY FractionValue
<1>2. f.n \in Int /\ f.d \in Nat \ {0} /\ b.n \in Int /\ b.d \in Nat \ {0}
  BY <1>1 DEF Fraction
<1> HIDE DEF f
<1>3. n * b.d \in Int /\ b.n * d \in Int /\ f.n * b.d \in Int /\ b.n * f.d \in Int
  BY <1>2
<1>4. (b.n * d) * f.d <= (n * b.d) * f.d
  BY <1>2, <1>3, ProductMonotone
<1>5. (f.n * b.d) * d = (n * b.d) * f.d
  <2>1. (f.n * b.d) * d = (f.n * d) * b.d
    BY <1>2
  <2>2. (n * f.d) * b.d = (n * b.d) * f.d
    BY <1>2
  <2> QED
    BY <1>1, <2>1, <2>2
<1>6. (b.n * f.d) * d = (b.n * d) * f.d
  BY <1>2
<1>7. b.n * f.d <= f.n * b.d
  BY <1>3, <1>4, <1>5, <1>6, ProductCancels
<1> QED
  BY <1>7 DEF AtMost, f

LEMMA PlusAmount ==
    ASSUME NEW a \in Amount, NEW b \in Amount
    PROVE  plus(a, b) \in Amount /\ AtMost(a, plus(a, b))
<1>1. /\ a \in Fraction /\ a.n \in Nat /\ a.d \in Nat \ {0}
      /\ b \in Fraction /\ b.n \in Nat /\ b.d \in Nat \ {0}
  BY DEF Amount, Fraction
<1> DEFINE n == a.n * b.d + b.n * a.d
           d == a.d * b.d
<1>2. n \in Nat /\ d \in Nat \ {0}
  BY <1>1
<1>3. plus(a, b) = fraction(n, d)
  BY DEF plus
<1>4. a.n * d <= n * a.d
  <2>1. n * a.d = a.n * d + (b.n * a.d) * a.d
    BY <1>1
  <2>2. (b.n * a.d) * a.d \in Nat /\ a.n * d \in Int
    BY <1>1
  <2> HIDE DEF n, d
  <2> QED
    BY <2>1, <2>2
<1> HIDE DEF n, d
<1> QED
  BY <1>1, <1>2, <1>3, <1>4, FractionNat, AtMostFraction

\* What is taken from an amount that is at least as large leaves an amount.
LEMMA MinusAmount ==
    ASSUME NEW a \in Amount, NEW b \in Amount, AtMost(b, a)
    PROVE  minus(a, b) \in Amount
<1>1. /\ a.n \in Nat /\ a.d \in Nat \ {0} /\ b.n \in Nat /\ b.d \in Nat \ {0}
      /\ b.n * a.d <= a.n * b.d
  BY DEF Amount, Fraction, AtMost
<1> DEFINE c == [b EXCEPT !.n = -b.n]
           n == a.n * c.d + c.n * a.d
           d == a.d * c.d
<1>2. c.n = -b.n /\ c.d = b.d
  BY DEF Amount, Fraction
<1>3. minus(a, b) = fraction(n, d)
  BY DEF minus, plus
<1>4. n \in Nat /\ d \in Nat \ {0}
  <2>1. (-b.n) * a.d = -(b.n * a.d) /\ b.n * a.d \in Int /\ a.n * b.d \in Int
    BY <1>1
  <2>2. n = a.n * b.d - b.n * a.d
    BY <1>2, <2>1
  <2>3. d \in Nat \ {0}
    BY <1>1, <1>2
  <2> HIDE DEF n, d
  <2> QED
    BY <1>1, <2>1, <2>2, <2>3
<1> HIDE DEF n, d
<1> QED
  BY <1>3, <1>4, FractionNat

LEMMA TimesAmount ==
    ASSUME NEW a \in Amount, NEW n \in Nat, NEW d \in Nat \ {0}
    PROVE  times(a, n, d) \in Amount /\ (n <= d => AtMost(times(a, n, d), a))
<1>1. a.n \in Nat /\ a.d \in Nat \ {0} /\ a \in Fraction
  BY DEF Amount, Fraction
<1> DEFINE u == a.n * n
           v == a.d * d
<1>2. u \in Nat /\ v \in Nat \ {0} /\ times(a, n, d) = fraction(u, v)
  BY <1>1 DEF times
<1>3. n <= d => u * a.d <= a.n * v
  <2> SUFFICES ASSUME n <= d PROVE u * a.d <= a.n * v
    OBVIOUS
  <2>1. a.n * a.d \in Nat
    BY <1>1
  <2>2. n * (a.n * a.d) <= d * (a.n * a.d)
    BY <2>1, ProductMonotone
  <2>3. n * (a.n * a.d) = u * a.d /\ d * (a.n * a.d) = a.n * v
    BY <1>1
  <2> QED
    BY <2>2, <2>3
<1> HIDE DEF u, v
<1> QED
  BY <1>1, <1>2, <1>3, FractionNat, FractionAtMost

LEMMA CentsAmount == \A n \in Nat : Cents(n) \in Amount
  BY DEF Cents, Amount, Fraction

-----------------------------------------------------------------------------
(* Totals of the lines.                                                     *)

\* The recursion of total.
Adding(amounts, D, g) ==
    g = [s \in SUBSET D |-> IF s = {} THEN Cents(0) ELSE plus(amounts[Pick(s)], g[s \ {Pick(s)}])]

LEMMA TotalUnfolds ==
    ASSUME NEW D, IsFiniteSet(D), NEW amounts \in [D -> Amount]
    PROVE  \E g : total(amounts) = g[D] /\ Adding(amounts, D, g)
<1> DEFINE F == [p \in D \X Amount |-> plus(amounts[p[1]], p[2])]
<1>1. \A x \in D, v \in Amount : F[<<x, v>>] = plus(amounts[x], v)
  OBVIOUS
<1>2. \A x \in D, v \in Amount : F[<<x, v>>] \in Amount
  BY <1>1, PlusAmount
<1> HIDE DEF F
<1>3. Cents(0) \in Amount
  BY CentsAmount
<1>4. PICK g \in [SUBSET D -> Amount] : Folding(F, Cents(0), D, g)
  BY <1>2, <1>3, FoldingSolved
<1>5. \A s \in SUBSET D : g[s] = IF s = {} THEN Cents(0) ELSE plus(amounts[Pick(s)], g[s \ {Pick(s)}])
  <2> SUFFICES ASSUME NEW s \in SUBSET D
               PROVE  g[s] = IF s = {} THEN Cents(0) ELSE plus(amounts[Pick(s)], g[s \ {Pick(s)}])
    OBVIOUS
  <2>1. g[s] = IF s = {} THEN Cents(0) ELSE F[<<Pick(s), g[s \ {Pick(s)}]>>]
    BY <1>4 DEF Folding
  <2>2. s # {} => Pick(s) \in D /\ g[s \ {Pick(s)}] \in Amount
    BY PickType
  <2> QED
    BY <1>1, <2>1, <2>2
<1>6. g = [s \in SUBSET D |-> g[s]]
  OBVIOUS
<1>7. Adding(amounts, D, g)
  <2>1. g = [s \in SUBSET D |-> IF s = {} THEN Cents(0) ELSE plus(amounts[Pick(s)], g[s \ {Pick(s)}])]
    BY <1>5, <1>6, Zenon
  <2> QED
    BY <2>1 DEF Adding
<1>8. DOMAIN amounts = D
  OBVIOUS
<1>9. total(amounts) = (CHOOSE h : Adding(amounts, DOMAIN amounts, h))[DOMAIN amounts]
  BY DEF total, FoldSeq, FoldFunction, FoldFunctionOnSet, MapThenFoldSet, Adding, Pick
<1> QED
  BY <1>7, <1>8, <1>9

\* A total of amounts is an amount.
LEMMA TotalAmount ==
    ASSUME NEW D, IsFiniteSet(D), NEW amounts \in [D -> Amount], NEW g, Adding(amounts, D, g)
    PROVE  \A s \in SUBSET D : g[s] \in Amount
<1> DEFINE P == {s \in SUBSET D : g[s] \in Amount}
<1>1. \A s \in SUBSET D : g[s] = IF s = {} THEN Cents(0) ELSE plus(amounts[Pick(s)], g[s \ {Pick(s)}])
  BY DEF Adding
<1>2. {} \in P
  BY <1>1, CentsAmount
<1>3. ASSUME NEW s \in SUBSET D, s # {}, s \ {Pick(s)} \in P PROVE s \in P
  <2>1. Pick(s) \in D
    BY <1>3, PickType
  <2> QED
    BY <1>1, <1>3, <2>1, PlusAmount
<1>4. P \in SUBSET (SUBSET D)
  OBVIOUS
<1>5. \A s \in SUBSET D : s \in P
  <2> HIDE DEF P
  <2> QED BY <1>2, <1>3, <1>4, SubsetInduction
<1> QED
  BY <1>5

\* Line by line no less, no less in total.
LEMMA TotalMonotone ==
    ASSUME NEW D, IsFiniteSet(D), NEW amounts \in [D -> Amount], NEW bounds \in [D -> Amount],
           \A i \in D : AtMost(amounts[i], bounds[i])
    PROVE  /\ total(amounts) \in Amount /\ total(bounds) \in Amount
           /\ AtMost(total(amounts), total(bounds))
<1>1. PICK g : total(amounts) = g[D] /\ Adding(amounts, D, g)
  BY TotalUnfolds
<1>2. PICK h : total(bounds) = h[D] /\ Adding(bounds, D, h)
  BY TotalUnfolds
<1>3. \A s \in SUBSET D : g[s] \in Amount /\ h[s] \in Amount
  BY <1>1, <1>2, TotalAmount
<1>4. \A s \in SUBSET D : g[s] = IF s = {} THEN Cents(0) ELSE plus(amounts[Pick(s)], g[s \ {Pick(s)}])
  BY <1>1 DEF Adding
<1>5. \A s \in SUBSET D : h[s] = IF s = {} THEN Cents(0) ELSE plus(bounds[Pick(s)], h[s \ {Pick(s)}])
  BY <1>2 DEF Adding
<1> DEFINE P == {s \in SUBSET D : AtMost(g[s], h[s])}
<1>6. {} \in P
  <2>1. g[{}] = Cents(0) /\ h[{}] = Cents(0)
    BY <1>4, <1>5
  <2>2. AtMost(Cents(0), Cents(0))
    BY DEF AtMost, Cents
  <2> QED
    BY <2>1, <2>2
<1>7. ASSUME NEW s \in SUBSET D, s # {}, s \ {Pick(s)} \in P PROVE s \in P
  <2> DEFINE x == Pick(s)
             u == s \ {x}
  <2>1. x \in D /\ u \in SUBSET D
    BY <1>7, PickType
  <2>2. amounts[x] \in Fraction /\ bounds[x] \in Fraction /\ g[u] \in Fraction /\ h[u] \in Fraction
    BY <1>3, <2>1 DEF Amount
  <2>3. AtMost(amounts[x], bounds[x]) /\ AtMost(g[u], h[u])
    BY <1>7, <2>1
  <2>4. g[s] = plus(amounts[x], g[u]) /\ h[s] = plus(bounds[x], h[u])
    BY <1>4, <1>5, <1>7
  <2> HIDE DEF x, u
  <2>5. AtMost(plus(amounts[x], g[u]), plus(bounds[x], h[u]))
    BY <2>2, <2>3, PlusMonotone
  <2> QED
    BY <2>4, <2>5
<1>8. P \in SUBSET (SUBSET D)
  OBVIOUS
<1>9. \A s \in SUBSET D : s \in P
  <2> HIDE DEF P
  <2> QED BY <1>6, <1>7, <1>8, SubsetInduction
<1> QED
  BY <1>1, <1>2, <1>3, <1>9

\* The total of amounts is as near to the sum of their rounded values as they
\* are many.
LEMMA TotalNear ==
    ASSUME NEW D, IsFiniteSet(D), NEW amounts \in [D -> Amount], NEW w \in [D -> Nat],
           \A i \in D : Near(amounts[i], w[i], 1)
    PROVE  Near(total(amounts), SumOver(w, D), Cardinality(D))
<1>1. PICK g : total(amounts) = g[D] /\ Adding(amounts, D, g)
  BY TotalUnfolds
<1>2. \A s \in SUBSET D : g[s] \in Amount
  BY <1>1, TotalAmount
<1>3. \A s \in SUBSET D : g[s] = IF s = {} THEN Cents(0) ELSE plus(amounts[Pick(s)], g[s \ {Pick(s)}])
  BY <1>1 DEF Adding
<1>4. \A s \in SUBSET D : Unfolds(w, s)
  BY SumUnfolds
<1> DEFINE P == {s \in SUBSET D : Near(g[s], SumOver(w, s), Cardinality(s))}
<1>5. {} \in P
  <2>1. g[{}] = Cents(0) /\ SumOver(w, {}) = 0 /\ Cardinality({}) = 0
    BY <1>3, <1>4, FS_EmptySet DEF Unfolds
  <2> QED
    BY <2>1 DEF Near, Cents
<1>6. ASSUME NEW s \in SUBSET D, s # {}, s \ {Pick(s)} \in P PROVE s \in P
  <2> DEFINE x == Pick(s)
             u == s \ {x}
             k == Cardinality(u)
             e == SumOver(w, u)
  <2>1. x \in s /\ x \in D /\ u \in SUBSET D
    BY <1>6, PickType
  <2>2. IsFiniteSet(s) /\ IsFiniteSet(u)
    BY <2>1, FS_Subset
  <2>3. k \in Nat /\ Cardinality(s) = 1 + k
    <3>1. k = Cardinality(s) - 1 /\ Cardinality(s) \in Nat
      BY <2>1, <2>2, FS_RemoveElement, FS_CardinalityType
    <3>2. k \in Nat
      BY <2>2, FS_CardinalityType
    <3> QED
      BY <3>1, <3>2
  <2>4. e \in Nat /\ w[x] \in Nat /\ SumOver(w, s) = w[x] + e
    BY <1>4, <1>6, <2>1 DEF Unfolds
  <2>5. amounts[x] \in Fraction /\ g[u] \in Fraction
    BY <1>2, <2>1 DEF Amount
  <2>6. Near(amounts[x], w[x], 1) /\ Near(g[u], e, k)
    BY <1>6, <2>1
  <2>7. g[s] = plus(amounts[x], g[u])
    BY <1>3, <1>6
  <2> HIDE DEF x, u, k, e
  <2>8. Near(plus(amounts[x], g[u]), w[x] + e, 1 + k)
    BY <2>3, <2>4, <2>5, <2>6, PlusNear
  <2> QED
    BY <2>3, <2>4, <2>7, <2>8
<1>7. P \in SUBSET (SUBSET D)
  OBVIOUS
<1>8. \A s \in SUBSET D : s \in P
  <2> HIDE DEF P
  <2> QED BY <1>5, <1>6, <1>7, SubsetInduction
<1> QED
  BY <1>1, <1>8

\* A fold that adds a natural for each element is a sum.
Counting(w, D, g) ==
    g = [s \in SUBSET D |-> IF s = {} THEN 0 ELSE g[s \ {Pick(s)}] + w[Pick(s)]]

LEMMA CountingSums ==
    ASSUME NEW D, IsFiniteSet(D), NEW w \in [D -> Nat]
    PROVE  /\ Counting(w, D, [s \in SUBSET D |-> SumOver(w, s)])
           /\ \A g : Counting(w, D, g) => g[D] = SumOver(w, D)
<1> DEFINE h == [s \in SUBSET D |-> SumOver(w, s)]
<1>1. \A s \in SUBSET D : Unfolds(w, s)
  BY SumUnfolds
<1>2. ASSUME NEW s \in SUBSET D
      PROVE  SumOver(w, s) = IF s = {} THEN 0 ELSE SumOver(w, s \ {Pick(s)}) + w[Pick(s)]
  <2>1. s # {} => /\ Pick(s) \in D /\ w[Pick(s)] \in Nat
                  /\ SumOver(w, s \ {Pick(s)}) \in Nat
    BY <1>1, PickType DEF Unfolds
  <2> QED
    BY <1>1, <2>1 DEF Unfolds
<1>3. Counting(w, D, h)
  <2>1. \A s \in SUBSET D : h[s] = IF s = {} THEN 0 ELSE h[s \ {Pick(s)}] + w[Pick(s)]
    BY <1>2
  <2>2. h = [s \in SUBSET D |-> h[s]]
    OBVIOUS
  <2> HIDE DEF h
  <2>3. h = [s \in SUBSET D |-> IF s = {} THEN 0 ELSE h[s \ {Pick(s)}] + w[Pick(s)]]
    BY <2>1, <2>2, Zenon
  <2> QED
    BY <2>3 DEF Counting
<1>4. ASSUME NEW g, Counting(w, D, g) PROVE g[D] = SumOver(w, D)
  <2> DEFINE P == {s \in SUBSET D : g[s] = SumOver(w, s)}
  <2>1. \A s \in SUBSET D : g[s] = IF s = {} THEN 0 ELSE g[s \ {Pick(s)}] + w[Pick(s)]
    BY <1>4 DEF Counting
  <2>2. {} \in P
    BY <1>2, <2>1
  <2>3. \A s \in SUBSET D : s # {} /\ s \ {Pick(s)} \in P => s \in P
    BY <1>2, <2>1
  <2>4. P \in SUBSET (SUBSET D)
    OBVIOUS
  <2>5. \A s \in SUBSET D : s \in P
    <3> HIDE DEF P
    <3> QED BY <2>2, <2>3, <2>4, SubsetInduction
  <2> QED
    BY <2>5
<1> QED
  BY <1>3, <1>4

\* The sum of the line totals of a document.
LEMMA SumOfTotals ==
    ASSUME NEW D, IsFiniteSet(D), NEW rows, DOMAIN rows = D, \A i \in D : rows[i].total \in Nat
    PROVE  sumOfTotals(rows) = SumOver([i \in D |-> rows[i].total], D)
<1> DEFINE w == [i \in D |-> rows[i].total]
           step(g) == [s \in SUBSET D |-> IF s = {} THEN 0 ELSE g[s \ {Pick(s)}] + rows[Pick(s)].total]
<1>1. w \in [D -> Nat]
  OBVIOUS
<1>2. sumOfTotals(rows) = (CHOOSE g : g = step(g))[D]
  BY DEF sumOfTotals, FoldSeq, FoldFunction, FoldFunctionOnSet, MapThenFoldSet, Pick
<1>3. ASSUME NEW g PROVE g = step(g) <=> Counting(w, D, g)
  <2> DEFINE a == [s \in SUBSET D |-> IF s = {} THEN 0 ELSE g[s \ {Pick(s)}] + w[Pick(s)]]
             b == step(g)
  <2>1. ASSUME NEW s \in SUBSET D PROVE a[s] = b[s]
    <3>1. s # {} => w[Pick(s)] = rows[Pick(s)].total
      BY PickType
    <3> QED
      BY <3>1
  <2>2. a = [s \in SUBSET D |-> a[s]] /\ b = [s \in SUBSET D |-> b[s]]
    OBVIOUS
  <2>3. a = b
    <3> HIDE DEF a, b
    <3> QED
      BY <2>1, <2>2
  <2> QED
    BY <2>3 DEF Counting
<1> DEFINE h == CHOOSE g : g = step(g)
<1>4. h = step(h)
  <2>1. \E g : Counting(w, D, g)
    BY <1>1, CountingSums
  <2> HIDE DEF step
  <2> QED
    BY <1>3, <2>1
<1>5. h[D] = SumOver(w, D)
  <2> HIDE DEF h, w, step
  <2> QED
    BY <1>1, <1>3, <1>4, CountingSums
<1> QED
  BY <1>2, <1>5

\* Rates are percentages, and so are their sums for a line.
LEMMA MethodRateNat ==
    ASSUME NEW l, NEW rates, NEW method, NEW D, DOMAIN l.taxes = D, IsFiniteSet(D),
           \A i \in D : rates[l.taxes[i]].rate \in Nat
    PROVE  methodRate(l, rates, method) \in Nat
<1> DEFINE w == [i \in D |-> IF rates[l.taxes[i]].method = method THEN rates[l.taxes[i]].rate ELSE 0]
           step(g) == [s \in SUBSET D |-> IF s = {} THEN 0 ELSE g[s \ {Pick(s)}]
                          + (IF rates[l.taxes[Pick(s)]].method = method THEN rates[l.taxes[Pick(s)]].rate ELSE 0)]
<1>1. w \in [D -> Nat]
  OBVIOUS
<1>2. methodRate(l, rates, method) = (CHOOSE g : g = step(g))[D]
  BY DEF methodRate, FoldSeq, FoldFunction, FoldFunctionOnSet, MapThenFoldSet, Pick
<1>3. ASSUME NEW g PROVE g = step(g) <=> Counting(w, D, g)
  <2> DEFINE a == [s \in SUBSET D |-> IF s = {} THEN 0 ELSE g[s \ {Pick(s)}] + w[Pick(s)]]
             b == step(g)
  <2>1. ASSUME NEW s \in SUBSET D PROVE a[s] = b[s]
    <3>1. s # {} => w[Pick(s)] = IF rates[l.taxes[Pick(s)]].method = method
                                 THEN rates[l.taxes[Pick(s)]].rate ELSE 0
      BY PickType
    <3> QED
      BY <3>1
  <2>2. a = [s \in SUBSET D |-> a[s]] /\ b = [s \in SUBSET D |-> b[s]]
    OBVIOUS
  <2>3. a = b
    <3> HIDE DEF a, b
    <3> QED
      BY <2>1, <2>2
  <2> QED
    BY <2>3 DEF Counting
<1> DEFINE h == CHOOSE g : g = step(g)
<1>4. h = step(h)
  <2>1. \E g : Counting(w, D, g)
    BY <1>1, CountingSums
  <2> HIDE DEF step
  <2> QED
    BY <1>3, <2>1
<1>5. h[D] = SumOver(w, D)
  <2> HIDE DEF h, w, step
  <2> QED
    BY <1>1, <1>3, <1>4, CountingSums
<1>6. SumOver(w, D) \in Nat
  BY <1>1, SumType
<1> QED
  BY <1>2, <1>5, <1>6

-----------------------------------------------------------------------------
(* The lines of an accepted calculation.                                    *)

RatesNat(rates) == \A t \in DOMAIN rates : rates[t].rate \in Nat

LineTyped(l) ==
    /\ l.quantity \in Int /\ l.price \in Int /\ l.discount \in Int
    /\ l.discountType \in {"amount", "percent"}
    /\ \E S : l.taxes \in Seq(S)

\* No amount of an accepted line is negative: its discount is at most its base.
LEMMA LineAmounts ==
    ASSUME NEW l, NEW rates, LineTyped(l), RatesNat(rates), lineAccepted(l, rates)
    PROVE  /\ discountAmt(l) \in Amount
           /\ lineSubtotal(l) \in Amount
           /\ lineTax(l, rates) \in Amount
           /\ lineTotal(l, rates) \in Amount
           /\ AtMost(lineSubtotal(l), lineTotal(l, rates))
<1>1. /\ l.quantity \in Nat /\ l.price \in Nat /\ l.discount \in Nat
      /\ l.discountType = "percent" => l.discount <= 100
      /\ l.discountType = "amount" => ~exceeds(Cents(l.discount), base(l))
      /\ l.discountType \in {"amount", "percent"}
  <2>1. /\ l.quantity > 0 /\ l.price >= 0 /\ l.discount >= 0
        /\ l.discountType = "amount" => ~exceeds(Cents(l.discount), base(l))
        /\ l.discountType # "amount" => l.discount <= 100
    BY Zenon DEF lineAccepted
  <2>2. /\ l.quantity \in Int /\ l.price \in Int /\ l.discount \in Int
        /\ l.discountType \in {"amount", "percent"}
    BY DEF LineTyped
  <2>3. l.quantity \in Nat /\ l.price \in Nat /\ l.discount \in Nat
    BY <2>1, <2>2
  <2> QED
    BY <2>1, <2>2, <2>3
<1>2. base(l) \in Amount
  <2>1. l.quantity * l.price \in Nat
    BY <1>1
  <2> QED
    BY <2>1, FractionNat, ScaleAssumption DEF base
<1>3. discountAmt(l) \in Amount /\ AtMost(discountAmt(l), base(l))
  <2>1. CASE l.discountType = "amount"
    <3>1. discountAmt(l) = Cents(l.discount) /\ Cents(l.discount) \in Amount
      BY <1>1, <2>1, CentsAmount DEF discountAmt
    <3>2. ~(Cents(l.discount).n * base(l).d > base(l).n * Cents(l.discount).d)
      BY <1>1, <2>1 DEF exceeds
    <3>3. /\ Cents(l.discount).n * base(l).d \in Int
          /\ base(l).n * Cents(l.discount).d \in Int
      BY <1>2, <3>1 DEF Amount, Fraction
    <3> QED
      BY <3>1, <3>2, <3>3 DEF AtMost
  <2>2. CASE l.discountType = "percent"
    <3>1. discountAmt(l) = times(base(l), l.discount, 100)
      BY <2>2 DEF discountAmt
    <3> QED
      BY <1>1, <1>2, <2>2, <3>1, TimesAmount
  <2> QED
    BY <1>1, <2>1, <2>2
<1>4. lineSubtotal(l) \in Amount
  BY <1>2, <1>3, MinusAmount DEF lineSubtotal
<1>5. \A method : methodRate(l, rates, method) \in Nat
  <2>1. PICK S : l.taxes \in Seq(S)
    BY DEF LineTyped
  <2>2. DOMAIN l.taxes = 1..Len(l.taxes) /\ Len(l.taxes) \in Nat
    BY <2>1
  <2>3. IsFiniteSet(DOMAIN l.taxes)
    BY <2>2, IndicesFinite
  <2>4. \A i \in DOMAIN l.taxes : l.taxes[i] \in ToSet(l.taxes)
    BY DEF ToSet
  <2>5. \A i \in DOMAIN l.taxes : rates[l.taxes[i]].rate \in Nat
    BY <2>4 DEF lineAccepted, RatesNat
  <2> QED
    BY <2>3, <2>5, MethodRateNat
<1>6. exclusiveTax(l, rates) \in Amount
  BY <1>4, <1>5, TimesAmount DEF exclusiveTax
<1>7. inclusiveTax(l, rates) \in Amount
  <2>1. 100 + methodRate(l, rates, "inclusive") \in Nat \ {0}
    BY <1>5
  <2> QED
    BY <1>4, <1>5, <2>1, TimesAmount DEF inclusiveTax
<1> QED
  BY <1>3, <1>4, <1>6, <1>7, PlusAmount DEF lineTax, lineTotal

\* Half a cent per line and half a cent for the sum.
LEMMA NearRounded ==
    ASSUME NEW a \in Amount, NEW s \in Nat, NEW k \in Nat, Near(a, s, k)
    PROVE  2 * distance(round2(a), s) <= k + 1
<1> DEFINE r == round2(a)
<1>1. a.n \in Int /\ a.d \in Nat \ {0} /\ r \in Int /\ Near(a, r, 1)
  BY RoundNear, RoundBounds DEF Amount, Fraction
<1> HIDE DEF r
<1>2. /\ 2 * a.n <= 2 * (s * a.d) + k * a.d /\ 2 * (s * a.d) <= 2 * a.n + k * a.d
      /\ 2 * a.n <= 2 * (r * a.d) + 1 * a.d /\ 2 * (r * a.d) <= 2 * a.n + 1 * a.d
  BY <1>1 DEF Near
<1>3. /\ s * a.d \in Int /\ r * a.d \in Int /\ k * a.d \in Int /\ 1 * a.d = a.d
      /\ 2 * a.n \in Int
  BY <1>1
<1>4. 2 * r <= 2 * s + k + 1
  <2>1. (2 * r) * a.d = 2 * (r * a.d) /\ (2 * s + k + 1) * a.d = 2 * (s * a.d) + k * a.d + a.d
    BY <1>1
  <2>2. (2 * r) * a.d <= (2 * s + k + 1) * a.d
    BY <1>1, <1>2, <1>3, <2>1
  <2>3. 2 * r \in Int /\ 2 * s + k + 1 \in Int
    BY <1>1
  <2> QED
    BY <1>1, <2>2, <2>3, ProductCancels
<1>5. 2 * s <= 2 * r + k + 1
  <2>1. (2 * s) * a.d = 2 * (s * a.d) /\ (2 * r + k + 1) * a.d = 2 * (r * a.d) + k * a.d + a.d
    BY <1>1
  <2>2. (2 * s) * a.d <= (2 * r + k + 1) * a.d
    BY <1>1, <1>2, <1>3, <2>1
  <2>3. 2 * s \in Int /\ 2 * r + k + 1 \in Int
    BY <1>1
  <2> QED
    BY <1>1, <2>2, <2>3, ProductCancels
<1> QED
  BY <1>1, <1>4, <1>5 DEF distance, r

\* What a calculation that is not refused returns: the discount is at most the
\* subtotal and the subtotal at most the total, and the total is the sum of the
\* lines but for rounding.
Reconciled(calc) ==
    /\ calc.grandTotal \in Nat /\ calc.additional \in Nat
    /\ 2 * distance(calc.grandTotal + calc.additional, sumOfTotals(calc.lines))
         <= Len(calc.lines) + 1

LEMMA CalcReconciled ==
    ASSUME NEW ls, NEW rates, NEW disc, NEW S, ls \in Seq(S),
           \A i \in DOMAIN ls : LineTyped(ls[i]),
           RatesNat(rates), disc.type \in {"amount", "percent"}, disc.value \in Int,
           CalcAccepts(ls, rates, disc)
    PROVE  Reconciled(CalcLines(ls, rates, disc))
<1> DEFINE D == DOMAIN ls
           subs == [i \in D |-> lineSubtotal(ls[i])]
           tots == [i \in D |-> lineTotal(ls[i], rates)]
           rows == [i \in D |-> LineResult(ls[i], rates)]
           w == [i \in D |-> rows[i].total]
           R == round2(total(tots))
           add == additionalDiscountAmount(ls, disc)
           sub == Subtotal(ls)
<1>1. D = 1..Len(ls) /\ Len(ls) \in Nat
  OBVIOUS
<1>2. IsFiniteSet(D) /\ Cardinality(D) = Len(ls)
  <2>1. 1 \in Int /\ Len(ls) \in Int /\ (IF 1 > Len(ls) THEN 0 ELSE Len(ls) - 1 + 1) = Len(ls)
    BY <1>1
  <2> QED
    BY <1>1, <2>1, FS_Interval
<1>3. ASSUME NEW i \in D
      PROVE  /\ lineSubtotal(ls[i]) \in Amount /\ lineTotal(ls[i], rates) \in Amount
             /\ AtMost(lineSubtotal(ls[i]), lineTotal(ls[i], rates))
  BY LineAmounts DEF CalcAccepts
<1>4. subs \in [D -> Amount] /\ tots \in [D -> Amount] /\ \A i \in D : AtMost(subs[i], tots[i])
  BY <1>3
<1>5. \A i \in D : rows[i].total = round2(tots[i])
  BY DEF LineResult
<1>6. w \in [D -> Nat] /\ \A i \in D : rows[i].total \in Nat /\ Near(tots[i], w[i], 1)
  <2>1. ASSUME NEW i \in D PROVE round2(tots[i]) \in Nat /\ Near(tots[i], round2(tots[i]), 1)
    <3>1. tots[i] \in Fraction /\ tots[i].n >= 0
      BY <1>4 DEF Amount
    <3> HIDE DEF tots
    <3> QED
      BY <3>1, RoundNat, RoundNear
  <2>2. \A i \in D : w[i] = round2(tots[i])
    BY <1>5
  <2> HIDE DEF rows, tots
  <2> QED
    BY <1>5, <2>1, <2>2
<1>7. DOMAIN rows = D
  OBVIOUS
<1>8. sub = round2(total(subs))
  BY DEF Subtotal
<1>9. CalcLines(ls, rates, disc).lines = rows /\ CalcLines(ls, rates, disc).additional = add
      /\ CalcLines(ls, rates, disc).grandTotal = R - add
  BY DEF CalcLines, GrandTotal
<1> HIDE DEF subs, tots, rows
<1>10. /\ total(subs) \in Amount /\ total(tots) \in Amount /\ AtMost(total(subs), total(tots))
       /\ Near(total(tots), SumOver(w, D), Cardinality(D))
  <2> HIDE DEF w, D
  <2> QED
    BY <1>2, <1>4, <1>6, TotalMonotone, TotalNear
<1>11. sub \in Nat /\ R \in Nat /\ sub <= R
  <2>1. total(subs) \in Fraction /\ total(subs).n >= 0 /\ total(tots) \in Fraction /\ total(tots).n >= 0
    BY <1>10 DEF Amount
  <2> QED
    BY <1>8, <1>10, <2>1, RoundNat, RoundMonotone
<1>12. sumOfTotals(rows) = SumOver(w, D)
  <2> HIDE DEF D
  <2> QED
    BY <1>2, <1>6, <1>7, SumOfTotals
<1>13. SumOver(w, D) \in Nat
  <2> HIDE DEF w, D
  <2> QED
    BY <1>2, <1>6, SumType
<1>14. 2 * distance(R, sumOfTotals(rows)) <= Len(ls) + 1
  BY <1>1, <1>2, <1>10, <1>12, <1>13, NearRounded
<1> HIDE DEF R, sub, w
<1>15. add \in Nat /\ add <= sub
  <2>0. disc.value \in Nat
    BY DEF CalcAccepts, additionalAccepted
  <2>1. CASE disc.type = "amount"
    BY <2>0, <2>1 DEF CalcAccepts, additionalAccepted, additionalDiscountAmount, sub
  <2>2. CASE disc.type = "percent"
    <3> DEFINE n == sub * disc.value
               f == fraction(n, 100)
    <3>1. disc.value <= 100 /\ add = round2(f)
      BY <2>2 DEF CalcAccepts, additionalAccepted, additionalDiscountAmount, sub
    <3>2. n \in Nat /\ n <= sub * 100
      <4>1. disc.value * sub <= 100 * sub
        BY <1>11, <2>0, <3>1, ProductMonotone
      <4>2. disc.value * sub = n /\ 100 * sub = sub * 100
        BY <1>11, <2>0
      <4> QED
        BY <1>11, <2>0, <4>1, <4>2
    <3>3. Cents(sub) \in Fraction /\ Cents(sub).n = sub /\ Cents(sub).d = 1
      BY <1>11 DEF Cents, Fraction
    <3> HIDE DEF n
    <3>4. n * Cents(sub).d <= Cents(sub).n * 100
      BY <3>2, <3>3
    <3>5. f \in Amount /\ AtMost(f, Cents(sub))
      BY <3>2, <3>3, <3>4, FractionNat, FractionAtMost
    <3> HIDE DEF f
    <3>6. f \in Fraction /\ f.n >= 0
      BY <3>5 DEF Amount
    <3>7. round2(f) <= round2(Cents(sub)) /\ round2(Cents(sub)) = sub /\ round2(f) \in Nat
      BY <1>11, <3>3, <3>5, <3>6, RoundMonotone, RoundCents, RoundNat
    <3> QED
      BY <3>1, <3>7
  <2> QED
    BY <2>1, <2>2
<1>16. Len(rows) = Len(ls)
  BY <1>1, <1>7
<1>17. R - add \in Nat /\ R - add + add = R
  BY <1>11, <1>15
<1> HIDE DEF add
<1> QED
  BY <1>9, <1>14, <1>15, <1>16, <1>17 DEF Reconciled

-----------------------------------------------------------------------------
(* Totals.  An order has the lines of the save that wrote its totals: an    *)
(* edit replaces the lines it saw under the lock of the row, and an order   *)
(* that is inserted was never there before.                                 *)

Updating == {"update_rates", "update_find", "update_header", "update_lines"}

\* The order has the lines of one save, and they add up to its totals.
Whole(o) == \E b :
    /\ lines[o] = {b}
    /\ Reconciled([lines |-> b.rows, additional |-> orders[o].additional,
                   grandTotal |-> orders[o].grandTotal])

CalcsReconciled == \A r \in Requests : requests[r].op \in Calced => Reconciled(requests[r].calc)

\* An order that is edited is there, or was deleted meanwhile.
EditsExist == \A r \in Requests :
    requests[r].op \in Updating => orders[requests[r].order].row # "absent"

\* What an edit is about to delete are the lines there are, unless the order
\* is not live any more.
EditsLock == \A r \in Requests :
    requests[r].op = "update_lines" => LET o == requests[r].order IN
        \/ locks[o] = r /\ requests[r].old = lines[o]
        \/ orders[o].row # "live"

WholeInv ==
    /\ Shape
    /\ CalcsReconciled
    /\ EditsExist
    /\ EditsLock
    /\ \A o \in OrderIds : orders[o].row = "live" => Whole(o)

\* Whatever a form has, a calculation that is not refused adds up.
LEMMA FormReconciled ==
    ASSUME NEW form \in Forms, NEW rates, RatesNat(rates),
           CalcAccepts(form.lines, rates, form.disc)
    PROVE  Reconciled(CalcLines(form.lines, rates, form.disc))
<1> DEFINE Item == [product : STRING, quantity : Int, price : Int, taxes : Seq(Taxes),
                    discountType : {"amount", "percent"}, discount : Int]
<1>1. form.lines \in Seq(Item) /\ form.disc.type \in {"amount", "percent"} /\ form.disc.value \in Int
  BY FormsAssumption
<1>2. \A l \in Item : LineTyped(l)
  BY DEF LineTyped
<1> HIDE DEF Item
<1>3. \A i \in DOMAIN form.lines : LineTyped(form.lines[i])
  BY <1>1, <1>2
<1> QED
  BY <1>1, <1>3, CalcReconciled

\* The rates that are read are percentages.
LEMMA RatesRead ==
    ASSUME Shape, NEW form \in Forms
    PROVE  RatesNat(resolveTaxRates(form.lines))
<1> DEFINE named == UNION {ToSet(form.lines[i].taxes) : i \in DOMAIN form.lines}
           read == {t \in named : taxes[t].row = "live" /\ taxes[t].active}
           rates == [t \in read |-> [rate |-> taxes[t].rate, method |-> taxes[t].method]]
<1>1. named \subseteq Taxes
  BY FormTaxesTyped DEF FormTaxes
<1>2. \A t \in Taxes : taxes[t].rate \in Nat
  <2>1. \A t \in Taxes : taxes[t].rate \in Rates
    BY DEF Shape, Tax
  <2>2. \A rate \in Rates : rate \in Nat
    <3>1. Rates \subseteq 0..100
      BY IdsAssumption
    <3> QED
      BY <3>1
  <2> QED
    BY <2>1, <2>2
<1>3. resolveTaxRates(form.lines) = rates
  BY DEF resolveTaxRates
<1>4. RatesNat(rates)
  <2> HIDE DEF named
  <2> QED
    BY <1>1, <1>2 DEF RatesNat
<1> QED
  BY <1>3, <1>4

\* A request that is saving began to, calculated, looked up, or took the lock.
LEMMA SavingProceeds ==
    ASSUME RequestsOK, NEW r \in Requests, requests'[r].op \in Saving,
           \/ \E ids \in SUBSET OrderIds : OrderStep(r, ids)
           \/ \E ids \in SUBSET NoteIds : NoteStep(r, ids)
           \/ PartnerRequest(r) \/ TaxRequest(r) \/ Abort(r)
    PROVE  \E ids \in SUBSET OrderIds :
              \/ OrderCreate(r, ids) \/ OrderUpdate(r, ids) \/ OrderCalc(r, ids)
              \/ OrderUpdateFind(r, ids) \/ OrderUpdateHeader(r, ids)
<1>1. ~(Serve(r) \/ Answer(r))
  BY DEF RequestsOK, Serve, Answer, Continue, Saving
<1>2. ASSUME NEW m, m.op \notin Saving, Begin(r, m) \/ Continue(r, m) PROVE FALSE
  BY <1>2 DEF RequestsOK, Begin, Continue
<1>3. ASSUME NEW ids \in SUBSET OrderIds, OrderStep(r, ids)
      PROVE  \/ OrderCreate(r, ids) \/ OrderUpdate(r, ids) \/ OrderCalc(r, ids)
             \/ OrderUpdateFind(r, ids) \/ OrderUpdateHeader(r, ids)
  <2>1. CASE OrderConfirm(r, ids) \/ OrderBackToDraft(r, ids) \/ OrderCancel(r, ids)
    <3>1. PICK m : m.op \notin Saving /\ Begin(r, m)
      BY <2>1 DEF OrderConfirm, OrderBackToDraft, OrderCancel, Saving
    <3> QED
      BY <1>2, <3>1
  <2>2. CASE OrderDelete(r, ids) \/ OrderInsert(r, ids) \/ SetStatus(r, ids) \/ OrderUpdateCommit(r, ids)
    BY <1>1, <2>2 DEF OrderDelete, OrderInsert, SetStatus, OrderUpdateCommit
  <2> QED
    BY <1>3, <2>1, <2>2 DEF OrderStep
<1>4. ASSUME NEW ids \in SUBSET NoteIds, NoteStep(r, ids) PROVE FALSE
  <2>1. CASE NoteCreate(r, ids) \/ NoteUpdate(r, ids)
    <3>1. PICK m : m.op \notin Saving /\ Begin(r, m)
      BY <2>1 DEF NoteCreate, NoteUpdate, Saving
    <3> QED
      BY <1>2, <3>1
  <2>2. CASE NoteInsert(r, ids) \/ NoteReplace(r, ids) \/ NoteDelete(r, ids)
    BY <1>1, <2>2 DEF NoteInsert, NoteReplace, NoteDelete
  <2> QED
    BY <1>4, <2>1, <2>2 DEF NoteStep
<1>5. ASSUME PartnerRequest(r) \/ TaxRequest(r) \/ Abort(r) PROVE FALSE
  <2>1. CASE MitraDeleteCheck(r) \/ TaxDeleteCheck(r)
    <3>1. PICK m : m.op \notin Saving /\ Begin(r, m)
      BY <2>1 DEF MitraDeleteCheck, TaxDeleteCheck, Saving
    <3> QED
      BY <1>2, <3>1
  <2> QED
    BY <1>1, <1>5, <2>1 DEF PartnerRequest, MitraCreate, MitraUpdate, MitraDelete, ContactCreate,
         ContactUpdate, ContactDelete, TaxRequest, TaxUpdate, TaxDelete, Abort
<1> QED
  BY <1>3, <1>4, <1>5

LEMMA CalcsReconciledStep ==
    ASSUME WholeInv, NEW r \in Requests,
           \/ \E ids \in SUBSET OrderIds : OrderStep(r, ids)
           \/ \E ids \in SUBSET NoteIds : NoteStep(r, ids)
           \/ PartnerRequest(r) \/ TaxRequest(r) \/ Abort(r)
    PROVE  CalcsReconciled'
<1> SUFFICES ASSUME NEW q \in Requests, requests'[q].op \in Calced
             PROVE  Reconciled(requests'[q].calc)
  BY DEF CalcsReconciled
<1>1. RequestsOK /\ RequestOK(requests[r]) /\ CalcsReconciled /\ Calced \subseteq Saving
  BY DEF WholeInv, Shape, RequestsOK, Calced, Saving
<1>2. CASE q # r
  <2>1. requests'[q] = requests[q]
    BY <1>1, <1>2, OneRequest
  <2> QED
    BY <1>1, <2>1 DEF CalcsReconciled
<1>3. CASE q = r
  <2>1. PICK ids \in SUBSET OrderIds :
              \/ OrderCreate(r, ids) \/ OrderUpdate(r, ids) \/ OrderCalc(r, ids)
              \/ OrderUpdateFind(r, ids) \/ OrderUpdateHeader(r, ids)
    BY <1>1, <1>3, SavingProceeds
  <2>2. ~(OrderCreate(r, ids) \/ OrderUpdate(r, ids))
    BY <1>1, <1>3 DEF OrderCreate, OrderUpdate, Begin, RequestsOK, Calced
  <2>3. CASE OrderCalc(r, ids)
    <3> DEFINE m == requests[r]
               rates == resolveTaxRates(m.form.lines)
               calc == CalcLines(m.form.lines, rates, m.form.disc)
    <3>1. /\ m.op \in {"create_rates", "update_rates"}
          /\ CalcAccepts(m.form.lines, rates, m.form.disc)
          /\ requests'[r].calc = calc
      BY <1>1, <2>3 DEF OrderCalc, Continue, RequestsOK
    <3>2. m.form \in Forms
      BY <1>1, <3>1 DEF RequestOK, Saving
    <3>3. RatesNat(rates)
      BY <3>2, RatesRead DEF WholeInv
    <3>4. Reconciled(calc)
      BY <3>1, <3>2, <3>3, FormReconciled
    <3> QED
      BY <1>3, <3>1, <3>4
  <2>4. CASE OrderUpdateFind(r, ids) \/ OrderUpdateHeader(r, ids)
    <3>1. requests[r].op \in Calced /\ requests'[r].calc = requests[r].calc
      BY <1>1, <2>4 DEF OrderUpdateFind, OrderUpdateHeader, Continue, RequestsOK, Calced
    <3> QED
      BY <1>1, <1>3, <3>1 DEF CalcsReconciled
  <2> QED
    BY <2>1, <2>2, <2>3, <2>4
<1> QED
  BY <1>2, <1>3

-----------------------------------------------------------------------------
\* What a step may do to an order and its lines.
Inserted(r, o) ==
    /\ requests[r].op = "create_insert" /\ requests[r].order = o
    /\ orders[o].row = "absent" /\ orders'[o].row = "live"
    /\ orders'[o].additional = requests[r].calc.additional
    /\ orders'[o].grandTotal = requests[r].calc.grandTotal
    /\ lines'[o] = {buildSalesOrderLines(r, requests[r])}

Committed(r, o) ==
    /\ requests[r].op = "update_lines" /\ requests[r].order = o
    /\ orders'[o].row = orders[o].row
    /\ orders[o].row = "live" =>
          /\ orders'[o].additional = requests[r].calc.additional
          /\ orders'[o].grandTotal = requests[r].calc.grandTotal
    /\ lines'[o] = (lines[o] \ requests[r].old) \cup {buildSalesOrderLines(r, requests[r])}

Unchanged(o) ==
    /\ \/ orders'[o].row = orders[o].row
       \/ orders[o].row = "live" /\ orders'[o].row = "deleted"
    /\ orders'[o].additional = orders[o].additional /\ orders'[o].grandTotal = orders[o].grandTotal
    /\ lines'[o] = lines[o]

LEMMA OrderMoves ==
    ASSUME Shape, NEW r \in Requests, NEW o \in OrderIds,
           \/ \E ids \in SUBSET OrderIds : OrderStep(r, ids)
           \/ \E ids \in SUBSET NoteIds : NoteStep(r, ids)
           \/ PartnerRequest(r) \/ TaxRequest(r) \/ Abort(r)
    PROVE  Unchanged(o) \/ Inserted(r, o) \/ Committed(r, o)
<1>1. OrderOK(orders[o]) /\ OrdersOK /\ LinesOK
  BY DEF Shape, OrdersOK
<1>2. CASE UNCHANGED <<orders, lines>>
  BY <1>2 DEF Unchanged
<1>3. ASSUME NEW p \in OrderIds, orders[p].row = "live",
             orders' = [orders EXCEPT ![p].row = "deleted"], UNCHANGED lines
      PROVE  Unchanged(o)
  BY <1>1, <1>3 DEF OrdersOK, OrderOK, Unchanged
<1>4. ASSUME NEW p \in OrderIds, NEW status, orders' = [orders EXCEPT ![p].status = status], UNCHANGED lines
      PROVE  Unchanged(o)
  BY <1>1, <1>4 DEF OrdersOK, OrderOK, Unchanged
<1>5. ASSUME NEW ids \in SUBSET OrderIds, OrderInsert(r, ids)
      PROVE  Unchanged(o) \/ Inserted(r, o)
  <2> DEFINE m == requests[r]
             snap == contactSnapshot(m.contact, None)
             row == [row |-> "live", mitra |-> m.mitra, status |-> "draft", contact |-> snap.contact,
                     copy |-> snap.copy, disc |-> m.form.disc,
                     additional |-> m.calc.additional, grandTotal |-> m.calc.grandTotal]
  <2>1. /\ m.op = "create_insert" /\ m.order \in OrderIds /\ orders[m.order].row = "absent"
        /\ orders' = [orders EXCEPT ![m.order] = row]
        /\ lines' = [lines EXCEPT ![m.order] = {buildSalesOrderLines(r, m)}]
    BY <1>5 DEF OrderInsert
  <2>2. /\ row.row = "live" /\ row.additional = m.calc.additional /\ row.grandTotal = m.calc.grandTotal
    OBVIOUS
  <2> HIDE DEF snap, row
  <2>3. CASE o = m.order
    <3>1. orders'[o] = row /\ lines'[o] = {buildSalesOrderLines(r, m)}
      BY <1>1, <2>1, <2>3 DEF OrdersOK, LinesOK
    <3> QED
      BY <2>1, <2>2, <2>3, <3>1 DEF Inserted
  <2>4. CASE o # m.order
    BY <1>1, <2>1, <2>4 DEF OrdersOK, LinesOK, Unchanged
  <2> QED
    BY <2>3, <2>4
<1>6. ASSUME NEW ids \in SUBSET OrderIds, OrderUpdateCommit(r, ids)
      PROVE  Unchanged(o) \/ Committed(r, o)
  <2> DEFINE m == requests[r]
             old == orders[m.order]
             new == [old EXCEPT !.mitra = m.mitra,
                            !.contact = IF m.snap.keep THEN old.contact ELSE m.snap.contact,
                            !.copy = IF m.snap.keep THEN old.copy ELSE m.snap.copy,
                            !.disc = m.form.disc, !.additional = m.calc.additional,
                            !.grandTotal = m.calc.grandTotal]
  <2>1. /\ m.op = "update_lines" /\ m.order \in OrderIds
        /\ orders' = [orders EXCEPT ![m.order] = IF old.row /= "live" THEN old ELSE new]
    BY <1>6 DEF OrderUpdateCommit
  <2>2. lines' = [lines EXCEPT ![m.order] = (lines[m.order] \ m.old) \cup {buildSalesOrderLines(r, m)}]
    BY <1>1, <1>6, <2>1 DEF OrderUpdateCommit, LinesOK
  <2>3. CASE o = m.order
    <3>1. lines'[o] = (lines[o] \ m.old) \cup {buildSalesOrderLines(r, m)}
      BY <1>1, <2>2, <2>3 DEF LinesOK
    <3>2. CASE old.row # "live"
      <4>1. orders'[o] = orders[o]
        BY <1>1, <2>1, <2>3, <3>2 DEF OrdersOK
      <4> QED
        BY <2>1, <2>3, <3>1, <3>2, <4>1 DEF Committed
    <3>3. CASE old.row = "live"
      <4>1. orders'[o] = new
        BY <1>1, <2>1, <2>3, <3>3 DEF OrdersOK
      <4>2. /\ new.row = old.row /\ new.additional = m.calc.additional
            /\ new.grandTotal = m.calc.grandTotal
        BY <1>1, <2>3 DEF OrderOK
      <4> HIDE DEF new
      <4> QED
        BY <2>1, <2>3, <3>1, <4>1, <4>2 DEF Committed
    <3> QED
      BY <3>2, <3>3
  <2>4. CASE o # m.order
    BY <1>1, <2>1, <2>2, <2>4 DEF OrdersOK, LinesOK, Unchanged
  <2> QED
    BY <2>3, <2>4
<1>7. ASSUME NEW ids \in SUBSET OrderIds, OrderStep(r, ids)
      PROVE  Unchanged(o) \/ Inserted(r, o) \/ Committed(r, o)
  <2>1. CASE OrderDelete(r, ids)
    <3>1. PICK p \in OrderIds : orders[p].row = "live" /\ orders' = [orders EXCEPT ![p].row = "deleted"]
      BY <2>1 DEF OrderDelete
    <3>2. UNCHANGED lines
      BY <2>1 DEF OrderDelete
    <3> QED
      BY <1>3, <3>1, <3>2
  <2>2. CASE SetStatus(r, ids)
    <3> DEFINE m == requests[r]
               status == IF orders[m.order].row = "live" THEN m.status ELSE orders[m.order].status
    <3>1. m.order \in OrderIds /\ UNCHANGED lines
      BY <2>2 DEF SetStatus
    <3>2. orders' = [orders EXCEPT ![m.order].status = status]
      BY <1>1, <2>2, <3>1 DEF SetStatus, OrdersOK
    <3> HIDE DEF status
    <3> QED
      BY <1>4, <3>1, <3>2
  <2>3. CASE ~(OrderDelete(r, ids) \/ SetStatus(r, ids) \/ OrderInsert(r, ids) \/ OrderUpdateCommit(r, ids))
    BY <1>2, <1>7, <2>3 DEF OrderStep, OrderCreate, OrderUpdate, OrderConfirm, OrderBackToDraft,
         OrderCancel, OrderCalc, OrderUpdateFind, OrderUpdateHeader
  <2> QED
    BY <1>5, <1>6, <2>1, <2>2, <2>3
<1>8. ASSUME NEW ids \in SUBSET NoteIds, NoteStep(r, ids)
      PROVE  UNCHANGED <<orders, lines>>
  BY <1>8 DEF NoteStep, NoteCreate, NoteInsert, NoteUpdate, NoteReplace, NoteDelete
<1>9. ASSUME PartnerRequest(r) \/ TaxRequest(r) \/ Abort(r)
      PROVE  UNCHANGED <<orders, lines>>
  BY <1>9 DEF PartnerRequest, MitraCreate, MitraUpdate, MitraDeleteCheck, MitraDelete, ContactCreate,
       ContactUpdate, ContactDelete, TaxRequest, TaxUpdate, TaxDeleteCheck, TaxDelete, Abort
<1> QED
  BY <1>2, <1>7, <1>8, <1>9

\* The lock that another request has is not taken from it.
LEMMA LocksStay ==
    ASSUME Shape, NEW r \in Requests, NEW q \in Requests \ {r}, NEW o \in OrderIds, locks[o] = q,
           \/ \E ids \in SUBSET OrderIds : OrderStep(r, ids)
           \/ \E ids \in SUBSET NoteIds : NoteStep(r, ids)
           \/ PartnerRequest(r) \/ TaxRequest(r) \/ Abort(r)
    PROVE  locks'[o] = q
<1>1. locks \in [OrderIds -> Requests \cup {None}] /\ q # None /\ q # r
  BY IdsAssumption DEF Shape
<1>2. CASE UNCHANGED locks
  BY <1>2
<1>3. ASSUME NEW ids \in SUBSET OrderIds, OrderStep(r, ids)
      PROVE  locks'[o] = q
  <2>1. CASE OrderUpdateHeader(r, ids)
    BY <1>1, <2>1 DEF OrderUpdateHeader
  <2>2. CASE OrderUpdateCommit(r, ids)
    BY <1>1, <2>2 DEF OrderUpdateCommit
  <2>3. CASE ~(OrderUpdateHeader(r, ids) \/ OrderUpdateCommit(r, ids))
    BY <1>2, <1>3, <2>3 DEF OrderStep, OrderCreate, OrderUpdate, OrderDelete, OrderConfirm,
         OrderBackToDraft, OrderCancel, OrderCalc, OrderInsert, SetStatus, OrderUpdateFind
  <2> QED
    BY <2>1, <2>2, <2>3
<1>4. ASSUME NEW ids \in SUBSET NoteIds, NoteStep(r, ids)
      PROVE  UNCHANGED locks
  BY <1>4 DEF NoteStep, NoteCreate, NoteInsert, NoteUpdate, NoteReplace, NoteDelete
<1>5. ASSUME PartnerRequest(r) \/ TaxRequest(r)
      PROVE  UNCHANGED locks
  BY <1>5 DEF PartnerRequest, MitraCreate, MitraUpdate, MitraDeleteCheck, MitraDelete, ContactCreate,
       ContactUpdate, ContactDelete, TaxRequest, TaxUpdate, TaxDeleteCheck, TaxDelete
<1>6. CASE Abort(r)
  BY <1>1, <1>6 DEF Abort
<1> QED
  BY <1>2, <1>3, <1>4, <1>5, <1>6

LEMMA OrdersStayWhole ==
    ASSUME WholeInv, NEW r \in Requests, NEW o \in OrderIds,
           \/ \E ids \in SUBSET OrderIds : OrderStep(r, ids)
           \/ \E ids \in SUBSET NoteIds : NoteStep(r, ids)
           \/ PartnerRequest(r) \/ TaxRequest(r) \/ Abort(r)
    PROVE  /\ orders'[o].row = "live" => Whole(o)'
           /\ orders[o].row # "absent" => orders'[o].row # "absent"
           /\ orders[o].row # "absent" /\ orders[o].row # "live" => orders'[o].row # "live"
<1>1. Unchanged(o) \/ Inserted(r, o) \/ Committed(r, o)
  BY OrderMoves DEF WholeInv
<1>2. ASSUME NEW calc, Reconciled(calc),
             orders'[o].additional = calc.additional, orders'[o].grandTotal = calc.grandTotal,
             NEW b, b.rows = calc.lines, lines'[o] = {b}
      PROVE  Whole(o)'
  BY <1>2 DEF Whole, Reconciled
<1> DEFINE batch == buildSalesOrderLines(r, requests[r])
<1>3. requests[r].op \in Calced => Reconciled(requests[r].calc) /\ batch.rows = requests[r].calc.lines
  BY DEF WholeInv, CalcsReconciled, buildSalesOrderLines
<1> HIDE DEF batch
<1>4. CASE Unchanged(o)
  <2>1. orders[o].row = "live" => Whole(o)
    BY DEF WholeInv
  <2> QED
    BY <1>4, <2>1 DEF Unchanged, Whole
<1>5. CASE Inserted(r, o)
  <2>1. requests[r].op \in Calced /\ lines'[o] = {batch}
    BY <1>5 DEF Inserted, Calced, batch
  <2> QED
    BY <1>2, <1>3, <1>5, <2>1 DEF Inserted
<1>6. CASE Committed(r, o)
  <2>1. requests[r].op \in Calced /\ lines'[o] = (lines[o] \ requests[r].old) \cup {batch}
    BY <1>6 DEF Committed, Calced, batch
  <2>2. orders[o].row = "live" => requests[r].old = lines[o]
    BY <1>6 DEF Committed, WholeInv, EditsLock
  <2>3. orders[o].row = "live" => lines'[o] = {batch}
    BY <2>1, <2>2
  <2> QED
    BY <1>2, <1>3, <1>6, <2>1, <2>3 DEF Committed
<1> QED
  BY <1>1, <1>4, <1>5, <1>6

\* The order of a request that is updating stays the same, and is there.
LEMMA EditsStep ==
    ASSUME WholeInv, NEW r \in Requests, NEW q \in Requests, requests'[q].op \in Updating,
           \/ \E ids \in SUBSET OrderIds : OrderStep(r, ids)
           \/ \E ids \in SUBSET NoteIds : NoteStep(r, ids)
           \/ PartnerRequest(r) \/ TaxRequest(r) \/ Abort(r)
    PROVE  /\ orders'[requests'[q].order].row # "absent"
           /\ requests'[q].op = "update_lines" =>
                 \/ locks'[requests'[q].order] = q /\ requests'[q].old = lines'[requests'[q].order]
                 \/ orders'[requests'[q].order].row # "live"
<1>1. RequestsOK /\ OrdersOK /\ Shape /\ Updating \subseteq Saving
  BY DEF WholeInv, Shape, Updating, Saving
<1>2. \A p \in Requests : requests[p].op \in Updating => requests[p].order \in OrderIds
  BY <1>1 DEF RequestsOK, RequestOK
<1>3. ASSUME NEW o \in OrderIds
      PROVE  /\ orders[o].row # "absent" => orders'[o].row # "absent"
             /\ orders[o].row # "absent" /\ orders[o].row # "live" => orders'[o].row # "live"
  BY OrdersStayWhole
<1>4. CASE q # r
  <2> DEFINE o == requests[q].order
  <2>1. requests'[q] = requests[q]
    BY <1>1, <1>4, OneRequest
  <2>2. o \in OrderIds /\ orders[o].row # "absent"
    BY <1>2, <2>1 DEF WholeInv, EditsExist
  <2> HIDE DEF o
  <2>3. CASE requests[q].op = "update_lines" /\ orders[o].row = "live"
    <3>1. locks[o] = q /\ requests[q].old = lines[o]
      BY <2>3 DEF WholeInv, EditsLock, o
    <3>2. locks'[o] = q
      BY <1>1, <1>4, <2>2, <3>1, LocksStay
    <3>3. ~Inserted(r, o)
      BY <2>2 DEF Inserted
    <3>4. ~Committed(r, o)
      BY <1>4, <2>3, <3>1 DEF Committed, WholeInv, EditsLock
    <3>5. Unchanged(o)
      BY <1>1, <2>2, <3>3, <3>4, OrderMoves
    <3> QED
      BY <1>3, <2>1, <2>2, <3>1, <3>2, <3>5 DEF Unchanged, o
  <2>4. CASE requests[q].op = "update_lines" /\ orders[o].row # "live"
    BY <1>3, <2>1, <2>2, <2>4 DEF o
  <2>5. CASE requests[q].op # "update_lines"
    BY <1>3, <2>1, <2>2, <2>5 DEF o
  <2> QED
    BY <2>3, <2>4, <2>5
<1>5. CASE q = r
  <2>1. PICK ids \in SUBSET OrderIds :
              \/ OrderCreate(r, ids) \/ OrderUpdate(r, ids) \/ OrderCalc(r, ids)
              \/ OrderUpdateFind(r, ids) \/ OrderUpdateHeader(r, ids)
    BY <1>1, <1>5, SavingProceeds
  <2>2. ~OrderCreate(r, ids)
    BY <1>1, <1>5 DEF OrderCreate, Begin, RequestsOK, Updating
  <2>3. CASE OrderUpdate(r, ids)
    <3>1. PICK o \in OrderIds : /\ orders[o].row = "live"
                                /\ requests'[r].order = o /\ requests'[r].op = "update_rates"
      BY <1>1, <2>3 DEF OrderUpdate, Begin, RequestsOK
    <3> QED
      BY <1>3, <1>5, <3>1
  <2>4. CASE OrderCalc(r, ids) \/ OrderUpdateFind(r, ids)
    <3>1. /\ requests[r].op \in Updating /\ requests'[r].order = requests[r].order
          /\ requests'[r].op # "update_lines"
      BY <1>1, <1>5, <2>4 DEF OrderCalc, OrderUpdateFind, Continue, RequestsOK, Updating
    <3>2. orders[requests[r].order].row # "absent"
      BY <3>1 DEF WholeInv, EditsExist
    <3> QED
      BY <1>2, <1>3, <1>5, <3>1, <3>2
  <2>5. CASE OrderUpdateHeader(r, ids)
    <3> DEFINE o == requests[r].order
    <3>1. /\ requests[r].op = "update_header" /\ requests'[r].order = o
          /\ requests'[r].old = lines[o] /\ UNCHANGED <<orders, lines>>
          /\ locks' = [locks EXCEPT ![o] = IF orders[o].row = "live" THEN r ELSE None]
      BY <1>1, <2>5 DEF OrderUpdateHeader, Continue, RequestsOK
    <3>2. o \in OrderIds /\ orders[o].row # "absent"
      BY <1>2, <3>1 DEF WholeInv, EditsExist, Updating
    <3> HIDE DEF o
    <3>3. orders[o].row = "live" => locks'[o] = r
      BY <1>1, <3>1, <3>2 DEF Shape
    <3> QED
      BY <1>5, <3>1, <3>2, <3>3
  <2> QED
    BY <2>1, <2>2, <2>3, <2>4, <2>5
<1> QED
  BY <1>4, <1>5

LEMMA WholeInvStep == WholeInv /\ [Next]_vars => WholeInv'
<1> SUFFICES ASSUME WholeInv, [Next]_vars PROVE WholeInv'
  OBVIOUS
<1>1. Shape'
  BY ShapeStep DEF WholeInv
<1>2. CASE UNCHANGED <<orders, lines, locks, requests>>
  BY <1>1, <1>2 DEF WholeInv, CalcsReconciled, EditsExist, EditsLock, Whole
<1>3. ASSUME NEW r \in Requests,
             \/ \E ids \in SUBSET OrderIds : OrderStep(r, ids)
             \/ \E ids \in SUBSET NoteIds : NoteStep(r, ids)
             \/ PartnerRequest(r) \/ TaxRequest(r) \/ Abort(r)
      PROVE  WholeInv'
  <2>1. CalcsReconciled'
    BY <1>3, CalcsReconciledStep
  <2>2. EditsExist'
    BY <1>3, EditsStep DEF EditsExist
  <2>3. EditsLock'
    BY <1>3, EditsStep DEF EditsLock, Updating
  <2>4. \A o \in OrderIds : orders'[o].row = "live" => Whole(o)'
    BY <1>3, OrdersStayWhole
  <2> QED
    BY <1>1, <2>1, <2>2, <2>3, <2>4 DEF WholeInv
<1>4. CASE RemovePICBackfilledContacts
  BY <1>2, <1>4 DEF RemovePICBackfilledContacts
<1>5. CASE UNCHANGED vars
  BY <1>2, <1>5 DEF vars
<1> QED
  BY <1>3, <1>4, <1>5, Steps

LEMMA InitWholeInv == Init => WholeInv
<1> SUFFICES ASSUME Init PROVE WholeInv
  OBVIOUS
<1>1. Shape
  BY InitShape
<1>2. PICK known \in Partners, contact \in Contacts, d \in Details, formed \in Forms :
        InitWith(known, contact, d, formed)
  BY InitPicks DEF Init
<1> DEFINE rates == [t \in Taxes |-> [rate |-> taxes[t].rate, method |-> taxes[t].method]]
           calc == CalcLines(formed.lines, rates, formed.disc)
           batch == [by |-> None, input |-> formed.lines, rows |-> calc.lines]
<1>3. CalcAccepts(formed.lines, rates, formed.disc)
  BY <1>2 DEF InitWith
<1>4. RatesNat(rates)
  <2>1. \A t \in Taxes : taxes[t].rate \in Rates
    BY <1>1 DEF Shape, Tax
  <2>2. \A rate \in Rates : rate \in Nat
    <3>1. Rates \subseteq 0..100
      BY IdsAssumption
    <3> QED
      BY <3>1
  <2> QED
    BY <2>1, <2>2 DEF RatesNat
<1>5. Reconciled(calc)
  BY <1>3, <1>4, FormReconciled
<1>6. /\ requests = [r \in Requests |-> [op |-> "new"]]
      /\ \A o \in OrderIds : orders[o].row = "live" =>
            /\ orders[o].additional = calc.additional /\ orders[o].grandTotal = calc.grandTotal
            /\ lines[o] = {batch}
  BY <1>2 DEF InitWith
<1>7. batch.rows = calc.lines
  OBVIOUS
<1> HIDE DEF batch, calc
<1>8. \A o \in OrderIds : orders[o].row = "live" => Whole(o)
  BY <1>5, <1>6, <1>7 DEF Whole, Reconciled
<1>9. CalcsReconciled /\ EditsExist /\ EditsLock
  BY <1>6 DEF CalcsReconciled, EditsExist, EditsLock, Calced, Updating
<1> QED
  BY <1>1, <1>8, <1>9 DEF WholeInv

\* A live order has the lines of the save its totals come from, whatever edits
\* overlap, and they add up but for rounding: whatever the prices, quantities,
\* rates and discounts of the forms, and however many lines they have.
THEOREM TotalsReconcileSound == Spec => []TotalsReconcile
<1>1. WholeInv => TotalsReconcile
  <2> SUFFICES ASSUME WholeInv, NEW o \in OrderIds, orders[o].row = "live"
               PROVE  /\ orders[o].grandTotal >= 0
                      /\ Cardinality(lines[o]) = 1
                      /\ \A batch \in lines[o] :
                            2 * distance(orders[o].grandTotal + orders[o].additional, sumOfTotals(batch.rows))
                              <= Len(batch.rows) + 1
    BY DEF TotalsReconcile
  <2>1. PICK b : /\ lines[o] = {b}
                 /\ Reconciled([lines |-> b.rows, additional |-> orders[o].additional,
                                grandTotal |-> orders[o].grandTotal])
    BY DEF WholeInv, Whole
  <2>2. /\ orders[o].grandTotal \in Nat
        /\ 2 * distance(orders[o].grandTotal + orders[o].additional, sumOfTotals(b.rows))
             <= Len(b.rows) + 1
    BY <2>1 DEF Reconciled
  <2>3. Cardinality(lines[o]) = 1
    BY <2>1, FS_Singleton
  <2> QED
    BY <2>1, <2>2, <2>3
<1> QED
  BY InitWholeInv, WholeInvStep, <1>1, PTL DEF Spec
=============================================================================
