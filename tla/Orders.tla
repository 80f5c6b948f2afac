------------------------------- MODULE Orders -------------------------------
(***************************************************************************)
(* Partners, their contact persons, and the documents that name them:      *)
(* sales and purchase orders with lines, taxes and totals, delivery notes  *)
(* and goods receipts.                                                     *)
(*                                                                         *)
(* A request is served in several statements, and every statement is an    *)
(* action.  An edit of an order is one transaction of two: its UPDATE      *)
(* locks the order's row until the lines are replaced.  Contact persons    *)
(* change under a lock on their partner's row, in one transaction each.    *)
(* Numbers are in DocumentNumbers, the limits in Workspace.                *)
(***************************************************************************)
EXTENDS LineCalc, FiniteSets

CONSTANTS
    Partners, Contacts, Taxes,          \* ids
    SalesOrders, PurchaseOrders,        \* ids
    DeliveryNotes, GoodsReceipts,       \* ids
    Details,        \* what tells the contacts of a partner apart (name, email, phone)
    Forms,          \* submitted line lists with their discount: [lines, disc]
    Rates,          \* percentages
    Methods,        \* the calculation methods the taxes may have, by tax
    MaxListed,      \* the longest contact list of a partner form
    Requests,       \* requests, each served once: the bound of a behaviour
    None

ASSUME IdsAssumption ==
    /\ SalesOrders \cap PurchaseOrders = {} /\ DeliveryNotes \cap GoodsReceipts = {}
    /\ None \notin Partners \cup Contacts \cup Taxes \cup Details \cup Requests
    /\ Rates \subseteq 0..100
    /\ Methods \subseteq [Taxes -> {"exclusive", "inclusive"}]

\* What the initial state takes its partner, contact and rate from.
ASSUME NonEmptyAssumption ==
    Partners # {} /\ Contacts # {} /\ Details # {} /\ Rates # {}

\* A table has finitely many rows, so that those that are left can be counted.
ASSUME RowsAssumption == IsFiniteSet(Contacts)

\* What a request may submit, before it is validated; a type of discount that is
\* left out is "percent".
ASSUME FormsAssumption ==
    Forms \subseteq
        [lines : Seq([product : STRING, quantity : Int, price : Int, taxes : Seq(Taxes),
                      discountType : {"amount", "percent"}, discount : Int]),
         disc : [type : {"amount", "percent"}, value : Int]]

VARIABLES
    partners,   \* is the mitras row live?
    contacts,   \* the contact_persons rows
    taxes,      \* the taxes rows
    orders,     \* the sales_orders and purchase_orders rows, without their lines
    lines,      \* the lines of each order, with their taxes
    notes,      \* the partner on delivery_notes and goods_receipts rows
    locks,      \* the request that holds the lock on an order's row
    requests,   \* what each request has read so far
    seen,       \* history: the details each contact ever had
    raced       \* history: what was deleted while a request that names it was served

vars == <<partners, contacts, taxes, orders, lines, notes, locks, requests, seen, raced>>

OrderIds == SalesOrders \cup PurchaseOrders
NoteIds == DeliveryNotes \cup GoodsReceipts

Mitra == {"absent", "live", "deleted"}

ContactPerson ==
    [row : {"absent", "live", "deleted", "purged"}, mitra : Partners \cup {None},
     details : Details \cup {None}, by : {"user", "backfill"}]

Tax == [row : {"live", "deleted"}, active : BOOLEAN, rate : Rates,
        method : {"exclusive", "inclusive"}]

SalesOrder ==
    [row : {"absent", "live", "deleted"}, mitra : Partners \cup {None},
     status : {"draft", "confirmed", "cancelled"}, contact : Contacts \cup {None},
     copy : Details \cup {None}, disc : {f.disc : f \in Forms},
     additional : Nat, grandTotal : Nat]

PurchaseOrder == SalesOrder

DeliveryNote == [row : {"absent", "live", "deleted"}, mitra : Partners \cup {None}]
GoodsReceipt == DeliveryNote

Line == [subtotal : Nat, tax : Nat, total : Nat, taxes : SUBSET Taxes]

TypeOK ==
    /\ partners \in [Partners -> Mitra]
    /\ contacts \in [Contacts -> ContactPerson]
    /\ taxes \in [Taxes -> Tax]
    /\ \A o \in SalesOrders : orders[o] \in SalesOrder
    /\ \A o \in PurchaseOrders : orders[o] \in PurchaseOrder
    /\ \A o \in OrderIds : \A batch \in lines[o] :
          batch.by \in Requests \cup {None} /\ batch.rows \in Seq(Line)
    /\ \A n \in DeliveryNotes : notes[n] \in DeliveryNote
    /\ \A n \in GoodsReceipts : notes[n] \in GoodsReceipt
    /\ locks \in [OrderIds -> Requests \cup {None}]
    /\ DOMAIN requests = Requests
    /\ seen \in [Contacts -> SUBSET Details]
    /\ raced \subseteq Partners \cup Taxes

----------------------------------------------------------------------------
(* Requests. *)

Begin(r, m) == requests[r] = [op |-> "new"] /\ requests' = [requests EXCEPT ![r] = m]
Continue(r, m) == requests' = [requests EXCEPT ![r] = m]
Answer(r) == Continue(r, [op |-> "done"])
Serve(r) == requests[r] = [op |-> "new"] /\ Answer(r)
InFlight(r) == requests[r].op \notin {"new", "done"}

\* A refused check, a failed statement or a lost connection; an open
\* transaction is rolled back and gives up its lock.
Abort(r) ==
    /\ InFlight(r)
    /\ Answer(r)
    /\ locks' = [o \in OrderIds |-> IF locks[o] = r THEN None ELSE locks[o]]
    /\ UNCHANGED <<partners, contacts, taxes, orders, lines, notes, seen>>

----------------------------------------------------------------------------
(* What an order is saved with. *)

MitraExists(m) == partners[m] = "live"

\* TaxRates: the taxes that are live and active, as far as the form names them.
resolveTaxRates(input) ==
    LET named == UNION {ToSet(input[i].taxes) : i \in DOMAIN input} IN
    [t \in {t \in named : taxes[t].row = "live" /\ taxes[t].active} |->
        [rate |-> taxes[t].rate, method |-> taxes[t].method]]

\* Faulty variant: the contact the order already has is written again,
\* without the details that were not read.
FaultyContactSnapshot(c, current) ==
    CASE c = None -> [keep |-> FALSE, contact |-> None, copy |-> None]
      [] c /= None /\ c = current -> [keep |-> FALSE, contact |-> c, copy |-> None]
      [] OTHER -> [keep |-> FALSE, contact |-> c, copy |-> contacts[c].details]

\* No contact clears the fields, the contact the order has when it is read
\* is kept with its copy, another one is copied.
contactSnapshot(c, current) ==
    CASE c = None -> [keep |-> FALSE, contact |-> None, copy |-> None]
      [] c /= None /\ c = current -> [keep |-> TRUE, contact |-> c, copy |-> None]
      [] OTHER -> [keep |-> FALSE, contact |-> c, copy |-> contacts[c].details]

\* errContactInvalid: another contact has to be a live one of this partner.
contactValid(m, c, current) ==
    c \notin {None, current} => contacts[c].row = "live" /\ contacts[c].mitra = m

\* The line rows one transaction inserts, with their taxes.
buildSalesOrderLines(r, m) == [by |-> r, input |-> m.form.lines, rows |-> m.calc.lines]

----------------------------------------------------------------------------
(* Orders.  The two kinds are served by the same code over their own tables. *)

OrderCreate(r, ids) ==
    \E o \in ids, m \in Partners, c \in Contacts \cup {None}, form \in Forms :
        /\ orders[o].row = "absent"
        /\ MitraExists(m)
        /\ Begin(r, [op |-> "create_rates", order |-> o, mitra |-> m, contact |-> c, form |-> form])
        /\ UNCHANGED <<partners, contacts, taxes, orders, lines, notes, locks, seen>>

\* service.calc: read the rates, then CalcLines.
OrderCalc(r, ids) ==
    LET m == requests[r] IN
    /\ m.op \in {"create_rates", "update_rates"} /\ m.order \in ids
    /\ LET rates == resolveTaxRates(m.form.lines) IN
       /\ CalcAccepts(m.form.lines, rates, m.form.disc)
       /\ Continue(r, [op |-> IF m.op = "create_rates" THEN "create_insert" ELSE "update_find",
                       order |-> m.order, mitra |-> m.mitra, contact |-> m.contact, form |-> m.form,
                       calc |-> CalcLines(m.form.lines, rates, m.form.disc)])
    /\ UNCHANGED <<partners, contacts, taxes, orders, lines, notes, locks, seen>>

\* One transaction: the row, its lines and their taxes.
OrderInsert(r, ids) ==
    LET m == requests[r]
        snap == contactSnapshot(m.contact, None) IN
    /\ m.op = "create_insert" /\ m.order \in ids
    /\ orders[m.order].row = "absent"
    /\ contactValid(m.mitra, m.contact, None)
    /\ orders' = [orders EXCEPT ![m.order] =
            [row |-> "live", mitra |-> m.mitra, status |-> "draft", contact |-> snap.contact,
             copy |-> snap.copy, disc |-> m.form.disc,
             additional |-> m.calc.additional, grandTotal |-> m.calc.grandTotal]]
    /\ lines' = [lines EXCEPT ![m.order] = {buildSalesOrderLines(r, m)}]
    /\ Answer(r)
    /\ UNCHANGED <<partners, contacts, taxes, notes, locks, seen>>

\* An order is edited in any status.
OrderUpdate(r, ids) ==
    \E o \in ids, m \in Partners, c \in Contacts \cup {None}, form \in Forms :
        /\ orders[o].row = "live"
        /\ MitraExists(m)
        /\ Begin(r, [op |-> "update_rates", order |-> o, mitra |-> m, contact |-> c, form |-> form])
        /\ UNCHANGED <<partners, contacts, taxes, orders, lines, notes, locks, seen>>

\* The order is read once more, for the contact it has, and the new contact
\* is looked up.
OrderUpdateFind(r, ids) ==
    LET m == requests[r]
        current == orders[m.order].contact IN
    /\ m.op = "update_find" /\ m.order \in ids
    /\ orders[m.order].row = "live"
    /\ contactValid(m.mitra, m.contact, current)
    /\ Continue(r, [op |-> "update_header", order |-> m.order, mitra |-> m.mitra,
                    form |-> m.form, calc |-> m.calc, snap |-> contactSnapshot(m.contact, current)])
    /\ UNCHANGED <<partners, contacts, taxes, orders, lines, notes, locks, seen>>

\* Faulty variant: the lines are looked up before the row is locked.
FaultyOrderUpdateHeader(r, ids) ==
    LET m == requests[r] IN
    /\ m.op = "update_header" /\ m.order \in ids
    /\ Continue(r, [op |-> "update_lines", order |-> m.order, mitra |-> m.mitra,
                    form |-> m.form, calc |-> m.calc, snap |-> m.snap, old |-> lines[m.order]])
    /\ UNCHANGED <<partners, contacts, taxes, orders, lines, notes, locks, seen>>

\* The UPDATE of the row waits for its lock and keeps it until the
\* transaction ends; a row deleted meanwhile is not locked.  Then the lines
\* that can be seen are deleted.  Nobody sees either before the commit.
OrderUpdateHeader(r, ids) ==
    LET m == requests[r] IN
    /\ m.op = "update_header" /\ m.order \in ids
    /\ locks[m.order] = None
    /\ locks' = [locks EXCEPT ![m.order] = IF orders[m.order].row = "live" THEN r ELSE None]
    /\ Continue(r, [op |-> "update_lines", order |-> m.order, mitra |-> m.mitra,
                    form |-> m.form, calc |-> m.calc, snap |-> m.snap, old |-> lines[m.order]])
    /\ UNCHANGED <<partners, contacts, taxes, orders, lines, notes, seen>>

\* The new lines are inserted and the transaction commits.
OrderUpdateCommit(r, ids) ==
    LET m == requests[r]
        old == orders[m.order] IN
    /\ m.op = "update_lines" /\ m.order \in ids
    /\ orders' = [orders EXCEPT ![m.order] =
            IF old.row /= "live" THEN old
            ELSE [old EXCEPT !.mitra = m.mitra,
                           !.contact = IF m.snap.keep THEN old.contact ELSE m.snap.contact,
                           !.copy = IF m.snap.keep THEN old.copy ELSE m.snap.copy,
                           !.disc = m.form.disc, !.additional = m.calc.additional,
                           !.grandTotal = m.calc.grandTotal]]
    /\ lines' = [lines EXCEPT ![m.order] = (@ \ m.old) \cup {buildSalesOrderLines(r, m)}]
    /\ locks' = [locks EXCEPT ![m.order] = IF @ = r THEN None ELSE @]
    /\ Answer(r)
    /\ UNCHANGED <<partners, contacts, taxes, notes, seen>>

\* Soft: the row is marked, its lines stay.
OrderDelete(r, ids) ==
    \E o \in ids :
        /\ orders[o].row = "live" /\ locks[o] = None
        /\ orders' = [orders EXCEPT ![o].row = "deleted"]
        /\ Serve(r)
        /\ UNCHANGED <<partners, contacts, taxes, lines, notes, locks, seen>>

\* Confirm: the draft's own lines are calculated again, for their errors only.
OrderConfirm(r, ids) ==
    \E o \in ids : \E batch \in lines[o] :
        /\ orders[o].row = "live" /\ orders[o].status = "draft"
        /\ CalcAccepts(batch.input, resolveTaxRates(batch.input), orders[o].disc)
        /\ Begin(r, [op |-> "set_status", order |-> o, status |-> "confirmed"])
        /\ UNCHANGED <<partners, contacts, taxes, orders, lines, notes, locks, seen>>

OrderBackToDraft(r, ids) ==
    \E o \in ids :
        /\ orders[o].row = "live" /\ orders[o].status /= "draft"
        /\ Begin(r, [op |-> "set_status", order |-> o, status |-> "draft"])
        /\ UNCHANGED <<partners, contacts, taxes, orders, lines, notes, locks, seen>>

OrderCancel(r, ids) ==
    \E o \in ids :
        /\ orders[o].row = "live" /\ orders[o].status /= "cancelled"
        /\ Begin(r, [op |-> "set_status", order |-> o, status |-> "cancelled"])
        /\ UNCHANGED <<partners, contacts, taxes, orders, lines, notes, locks, seen>>

\* Sets the status of a row that is still live, whatever its status is by now.
SetStatus(r, ids) ==
    LET m == requests[r] IN
    /\ m.op = "set_status" /\ m.order \in ids
    /\ locks[m.order] = None
    /\ orders' = [orders EXCEPT ![m.order].status = IF orders[m.order].row = "live" THEN m.status ELSE @]
    /\ Answer(r)
    /\ UNCHANGED <<partners, contacts, taxes, lines, notes, locks, seen>>

SalesOrderCreate(r) == OrderCreate(r, SalesOrders)
SalesOrderUpdate(r) == OrderUpdate(r, SalesOrders)
SalesOrderDelete(r) == OrderDelete(r, SalesOrders)
SalesOrderConfirm(r) == OrderConfirm(r, SalesOrders)
SalesOrderBackToDraft(r) == OrderBackToDraft(r, SalesOrders)
SalesOrderCancel(r) == OrderCancel(r, SalesOrders)
SalesOrderCalc(r) == OrderCalc(r, SalesOrders)
SalesOrderInsert(r) == OrderInsert(r, SalesOrders)
SalesOrderUpdateFind(r) == OrderUpdateFind(r, SalesOrders)
SalesOrderUpdateHeader(r) == OrderUpdateHeader(r, SalesOrders)
SalesOrderUpdateCommit(r) == OrderUpdateCommit(r, SalesOrders)
SalesOrderSetStatus(r) == SetStatus(r, SalesOrders)

PurchaseOrderCreate(r) == OrderCreate(r, PurchaseOrders)
PurchaseOrderUpdate(r) == OrderUpdate(r, PurchaseOrders)
PurchaseOrderDelete(r) == OrderDelete(r, PurchaseOrders)
PurchaseOrderConfirm(r) == OrderConfirm(r, PurchaseOrders)
PurchaseOrderBackToDraft(r) == OrderBackToDraft(r, PurchaseOrders)
PurchaseOrderCancel(r) == OrderCancel(r, PurchaseOrders)
PurchaseOrderCalc(r) == OrderCalc(r, PurchaseOrders)
PurchaseOrderInsert(r) == OrderInsert(r, PurchaseOrders)
PurchaseOrderUpdateFind(r) == OrderUpdateFind(r, PurchaseOrders)
PurchaseOrderUpdateHeader(r) == OrderUpdateHeader(r, PurchaseOrders)
PurchaseOrderUpdateCommit(r) == OrderUpdateCommit(r, PurchaseOrders)
PurchaseOrderSetStatus(r) == SetStatus(r, PurchaseOrders)

----------------------------------------------------------------------------
(* Delivery notes and goods receipts, of which the partner is modelled. *)

NoteCreate(r, ids) ==
    \E n \in ids, m \in Partners :
        /\ notes[n].row = "absent"
        /\ MitraExists(m)
        /\ Begin(r, [op |-> "note_insert", note |-> n, mitra |-> m])
        /\ UNCHANGED <<partners, contacts, taxes, orders, lines, notes, locks, seen>>

NoteInsert(r, ids) ==
    LET m == requests[r] IN
    /\ m.op = "note_insert" /\ m.note \in ids
    /\ notes[m.note].row = "absent"
    /\ notes' = [notes EXCEPT ![m.note] = [row |-> "live", mitra |-> m.mitra]]
    /\ Answer(r)
    /\ UNCHANGED <<partners, contacts, taxes, orders, lines, locks, seen>>

NoteUpdate(r, ids) ==
    \E n \in ids, m \in Partners :
        /\ notes[n].row /= "absent"
        /\ MitraExists(m)
        /\ Begin(r, [op |-> "note_update", note |-> n, mitra |-> m])
        /\ UNCHANGED <<partners, contacts, taxes, orders, lines, notes, locks, seen>>

\* The row is read and then replaced, if it is live.
NoteReplace(r, ids) ==
    LET m == requests[r] IN
    /\ m.op = "note_update" /\ m.note \in ids
    /\ notes[m.note].row = "live"
    /\ notes' = [notes EXCEPT ![m.note].mitra = m.mitra]
    /\ Answer(r)
    /\ UNCHANGED <<partners, contacts, taxes, orders, lines, locks, seen>>

NoteDelete(r, ids) ==
    \E n \in ids :
        /\ notes[n].row = "live"
        /\ notes' = [notes EXCEPT ![n].row = "deleted"]
        /\ Serve(r)
        /\ UNCHANGED <<partners, contacts, taxes, orders, lines, locks, seen>>

DeliveryNoteCreate(r) == NoteCreate(r, DeliveryNotes)
DeliveryNoteInsert(r) == NoteInsert(r, DeliveryNotes)
DeliveryNoteUpdate(r) == NoteUpdate(r, DeliveryNotes)
DeliveryNoteReplace(r) == NoteReplace(r, DeliveryNotes)
DeliveryNoteDelete(r) == NoteDelete(r, DeliveryNotes)
GoodsReceiptCreate(r) == NoteCreate(r, GoodsReceipts)
GoodsReceiptInsert(r) == NoteInsert(r, GoodsReceipts)
GoodsReceiptUpdate(r) == NoteUpdate(r, GoodsReceipts)
GoodsReceiptReplace(r) == NoteReplace(r, GoodsReceipts)
GoodsReceiptDelete(r) == NoteDelete(r, GoodsReceipts)

----------------------------------------------------------------------------
(* Partners and their contact persons. *)

liveContacts(m) == {c \in Contacts : contacts[c].row = "live" /\ contacts[c].mitra = m}

\* uq_contact_persons_dup_active.
duplicate(rows, c, m, d) ==
    \E x \in Contacts \ {c} : rows[x].row = "live" /\ rows[x].mitra = m /\ rows[x].details = d

newContact(m, d) == [row |-> "live", mitra |-> m, details |-> d, by |-> "user"]

\* One entry of the list of a partner form: [id, details], with the id None
\* for a new contact.  state is [rows, ok], and ok fails with the save.
syncContact(m, perms, entry, state) ==
    LET c == IF entry.id /= None THEN entry.id
             ELSE CHOOSE x \in Contacts : state.rows[x].row = "absent"
        needed == IF entry.id /= None THEN "update" ELSE "create" IN
    IF entry.id /= None /\ state.rows[c].details = entry.details THEN state
    ELSE [rows |-> [state.rows EXCEPT ![c] = newContact(m, entry.details)],
          ok |-> state.ok /\ needed \in perms /\ ~duplicate(state.rows, c, m, entry.details)]

listed(list) == {list[i].id : i \in DOMAIN list} \ {None}

\* Faulty variant: contacts that are not in the list stay.
FaultySyncContacts(m, list, perms) ==
    FoldLeft(LAMBDA state, entry : syncContact(m, perms, entry, state),
             [rows |-> contacts, ok |-> TRUE], list)

\* The contacts that are not in the list go first, then the entries follow
\* in their order.
syncContacts(m, list, perms) ==
    LET gone == liveContacts(m) \ listed(list)
        kept == [c \in Contacts |-> IF c \in gone THEN [contacts[c] EXCEPT !.row = "deleted"]
                                                   ELSE contacts[c]] IN
    FoldLeft(LAMBDA state, entry : syncContact(m, perms, entry, state),
             [rows |-> kept, ok |-> gone = {} \/ "delete" \in perms], list)

\* What has to hold of the ids in the list, and the bound: enough contacts
\* are left for the new ones.
listValid(m, list) ==
    /\ listed(list) \subseteq liveContacts(m)
    /\ \A i, j \in DOMAIN list : list[i].id = list[j].id /\ list[i].id /= None => i = j
    /\ Cardinality({i \in DOMAIN list : list[i].id = None})
         <= Cardinality({c \in Contacts : contacts[c].row = "absent"})

\* The lists a form may have: MaxListed is their bound.
Entry == [id : Contacts \cup {None}, details : Details]
Lists == UNION {[1..n -> Entry] : n \in 0..MaxListed}
Perms == SUBSET {"create", "update", "delete"}

remember(rows) == [c \in Contacts |-> seen[c] \cup ({rows[c].details} \ {None})]

\* The partner and its contacts in one transaction.
MitraCreate(r, m, list, perms) ==
    LET synced == syncContacts(m, list, perms \cap {"create"}) IN
    /\ Serve(r)
    /\ partners[m] = "absent"
    /\ listValid(m, list) /\ synced.ok
    /\ partners' = [partners EXCEPT ![m] = "live"]
    /\ contacts' = synced.rows
    /\ seen' = remember(synced.rows)
    /\ UNCHANGED <<taxes, orders, lines, notes, locks>>

\* Under lockMitra.  A form without a contact list changes no contact.
MitraUpdate(r, m, list, perms) ==
    LET synced == syncContacts(m, list, perms) IN
    /\ Serve(r)
    /\ MitraExists(m)
    /\ listValid(m, list) /\ synced.ok
    /\ contacts' = synced.rows
    /\ seen' = remember(synced.rows)
    /\ UNCHANGED <<partners, taxes, orders, lines, notes, locks>>

\* Faulty variant: goods receipts are forgotten.
FaultyMitraUnused(m) ==
    /\ \A o \in OrderIds : ~(orders[o].row = "live" /\ orders[o].mitra = m)
    /\ \A n \in DeliveryNotes : ~(notes[n].row = "live" /\ notes[n].mitra = m)

\* Counts the live documents that name the partner, as far as they are modelled.
checkMitraUnused(m) ==
    /\ \A o \in OrderIds : ~(orders[o].row = "live" /\ orders[o].mitra = m)
    /\ \A n \in NoteIds : ~(notes[n].row = "live" /\ notes[n].mitra = m)

MitraDeleteCheck(r) ==
    \E m \in Partners :
        /\ MitraExists(m)
        /\ checkMitraUnused(m)
        /\ Begin(r, [op |-> "mitra_delete", mitra |-> m])
        /\ UNCHANGED <<partners, contacts, taxes, orders, lines, notes, locks, seen>>

\* The contacts of the partner stay as they are.
MitraDelete(r) ==
    LET m == requests[r] IN
    /\ m.op = "mitra_delete"
    /\ MitraExists(m.mitra)
    /\ partners' = [partners EXCEPT ![m.mitra] = "deleted"]
    /\ Answer(r)
    /\ UNCHANGED <<contacts, taxes, orders, lines, notes, locks, seen>>

ContactCreate(r) ==
    \E m \in Partners, c \in Contacts, d \in Details :
        /\ MitraExists(m)
        /\ contacts[c].row = "absent"
        /\ ~duplicate(contacts, c, m, d)
        /\ contacts' = [contacts EXCEPT ![c] = newContact(m, d)]
        /\ seen' = [seen EXCEPT ![c] = @ \cup {d}]
        /\ Serve(r)
        /\ UNCHANGED <<partners, taxes, orders, lines, notes, locks>>

ContactUpdate(r) ==
    \E m \in Partners, d \in Details : \E c \in liveContacts(m) :
        /\ MitraExists(m)
        /\ ~duplicate(contacts, c, m, d)
        /\ contacts' = [contacts EXCEPT ![c].details = d, ![c].by = "user"]
        /\ seen' = [seen EXCEPT ![c] = @ \cup {d}]
        /\ Serve(r)
        /\ UNCHANGED <<partners, taxes, orders, lines, notes, locks>>

ContactDelete(r) ==
    \E m \in Partners : \E c \in liveContacts(m) :
        /\ MitraExists(m)
        /\ contacts' = [contacts EXCEPT ![c].row = "deleted"]
        /\ Serve(r)
        /\ UNCHANGED <<partners, taxes, orders, lines, notes, locks, seen>>

----------------------------------------------------------------------------
(* Taxes, as far as orders read them. *)

TaxUpdate(r) ==
    \E t \in Taxes, rate \in Rates, method \in {"exclusive", "inclusive"}, active \in BOOLEAN :
        /\ taxes[t].row = "live"
        /\ taxes' = [taxes EXCEPT ![t].rate = rate, ![t].method = method, ![t].active = active]
        /\ Serve(r)
        /\ UNCHANGED <<partners, contacts, orders, lines, notes, locks, seen>>

\* Line taxes count as long as their document is live.
checkTaxUnused(t) ==
    \A o \in OrderIds : \A batch \in lines[o] : \A i \in DOMAIN batch.rows :
        ~(orders[o].row = "live" /\ t \in batch.rows[i].taxes)

TaxDeleteCheck(r) ==
    \E t \in Taxes :
        /\ taxes[t].row = "live"
        /\ checkTaxUnused(t)
        /\ Begin(r, [op |-> "tax_delete", tax |-> t])
        /\ UNCHANGED <<partners, contacts, taxes, orders, lines, notes, locks, seen>>

TaxDelete(r) ==
    LET m == requests[r] IN
    /\ m.op = "tax_delete"
    /\ taxes' = [taxes EXCEPT ![m.tax].row = "deleted"]
    /\ Answer(r)
    /\ UNCHANGED <<partners, contacts, orders, lines, notes, locks, seen>>

----------------------------------------------------------------------------
(* Startup. *)

\* RemovePICBackfilledContacts: machine-made contacts no document refers to,
\* deleted documents included, are removed before requests are served.
RemovePICBackfilledContacts ==
    /\ \A r \in Requests : ~InFlight(r)
    /\ contacts' = [c \in Contacts |->
          IF /\ contacts[c].row \in {"live", "deleted"}
             /\ contacts[c].by = "backfill"
             /\ c \notin {orders[o].contact : o \in OrderIds}
          THEN [contacts[c] EXCEPT !.row = "purged"] ELSE contacts[c]]
    /\ UNCHANGED <<partners, taxes, orders, lines, notes, locks, requests, seen>>

----------------------------------------------------------------------------
(* The specification. *)

\* The partners and taxes a request in flight names in a document, and the
\* ones it is about to delete.
names(r) ==
    LET m == requests[r] IN
    CASE m.op \in {"create_rates", "create_insert", "update_rates", "update_find",
                   "update_header", "update_lines"}
           -> {m.mitra} \cup UNION {ToSet(m.form.lines[i].taxes) : i \in DOMAIN m.form.lines}
      [] m.op \in {"note_insert", "note_update"} -> {m.mitra}
      [] OTHER -> {}

deletes(r) ==
    LET m == requests[r] IN
    CASE m.op = "mitra_delete" -> {m.mitra} [] m.op = "tax_delete" -> {m.tax} [] OTHER -> {}

overlaps == (UNION {names(r) : r \in Requests}) \cap (UNION {deletes(r) : r \in Requests})

\* So that a behaviour is interesting from its first steps: partner known has
\* a contact an earlier version made, and may have an order with it.
InitWith(known, contact, d, formed) ==
    LET rates == [t \in Taxes |-> [rate |-> taxes[t].rate, method |-> taxes[t].method]]
        calc == CalcLines(formed.lines, rates, formed.disc)
        absent == [row |-> "absent", mitra |-> None, status |-> "draft", contact |-> None,
                   copy |-> None, disc |-> formed.disc, additional |-> 0, grandTotal |-> 0]
        draft == [row |-> "live", mitra |-> known, status |-> "draft", contact |-> contact,
                  copy |-> d, disc |-> formed.disc, additional |-> calc.additional,
                  grandTotal |-> calc.grandTotal] IN
    /\ CalcAccepts(formed.lines, rates, formed.disc)
    /\ partners = [m \in Partners |-> IF m = known THEN "live" ELSE "absent"]
    /\ contacts = [c \in Contacts |->
          IF c = contact THEN [row |-> "live", mitra |-> known, details |-> d, by |-> "backfill"]
          ELSE [row |-> "absent", mitra |-> None, details |-> None, by |-> "user"]]
    /\ \E made \in SUBSET OrderIds :
          /\ orders = [o \in OrderIds |-> IF o \in made THEN draft ELSE absent]
          /\ lines = [o \in OrderIds |->
                IF o \in made THEN {[by |-> None, input |-> formed.lines, rows |-> calc.lines]} ELSE {}]
    /\ notes = [n \in NoteIds |-> [row |-> "absent", mitra |-> None]]
    /\ locks = [o \in OrderIds |-> None]
    /\ requests = [r \in Requests |-> [op |-> "new"]]
    /\ seen = [c \in Contacts |-> IF c = contact THEN {d} ELSE {}]
    /\ raced = {}

Init ==
    /\ \E method \in Methods :
          taxes = [t \in Taxes |-> [row |-> "live", active |-> TRUE,
                                    rate |-> CHOOSE rate \in Rates : TRUE, method |-> method[t]]]
    /\ \E formed \in Forms :
          InitWith(CHOOSE m \in Partners : TRUE, CHOOSE c \in Contacts : TRUE,
                   CHOOSE d \in Details : TRUE, formed)

SalesOrderRequest(r) ==
    \/ SalesOrderCreate(r) \/ SalesOrderUpdate(r) \/ SalesOrderDelete(r)
    \/ SalesOrderConfirm(r) \/ SalesOrderBackToDraft(r) \/ SalesOrderCancel(r)
    \/ SalesOrderCalc(r) \/ SalesOrderInsert(r) \/ SalesOrderSetStatus(r)
    \/ SalesOrderUpdateFind(r) \/ SalesOrderUpdateHeader(r) \/ SalesOrderUpdateCommit(r)

PurchaseOrderRequest(r) ==
    \/ PurchaseOrderCreate(r) \/ PurchaseOrderUpdate(r) \/ PurchaseOrderDelete(r)
    \/ PurchaseOrderConfirm(r) \/ PurchaseOrderBackToDraft(r) \/ PurchaseOrderCancel(r)
    \/ PurchaseOrderCalc(r) \/ PurchaseOrderInsert(r) \/ PurchaseOrderSetStatus(r)
    \/ PurchaseOrderUpdateFind(r) \/ PurchaseOrderUpdateHeader(r) \/ PurchaseOrderUpdateCommit(r)

NoteRequest(r) ==
    \/ DeliveryNoteCreate(r) \/ DeliveryNoteInsert(r) \/ DeliveryNoteUpdate(r)
    \/ DeliveryNoteReplace(r) \/ DeliveryNoteDelete(r)
    \/ GoodsReceiptCreate(r) \/ GoodsReceiptInsert(r) \/ GoodsReceiptUpdate(r)
    \/ GoodsReceiptReplace(r) \/ GoodsReceiptDelete(r)

PartnerRequest(r) ==
    \/ \E m \in Partners, list \in Lists, perms \in Perms :
          MitraCreate(r, m, list, perms) \/ MitraUpdate(r, m, list, perms)
    \/ MitraDeleteCheck(r) \/ MitraDelete(r)
    \/ ContactCreate(r) \/ ContactUpdate(r) \/ ContactDelete(r)

TaxRequest(r) == TaxUpdate(r) \/ TaxDeleteCheck(r) \/ TaxDelete(r)

Next ==
    /\ \/ \E r \in Requests :
             \/ SalesOrderRequest(r) \/ PurchaseOrderRequest(r)
             \/ NoteRequest(r) \/ PartnerRequest(r) \/ TaxRequest(r) \/ Abort(r)
       \/ RemovePICBackfilledContacts
    /\ raced' = raced \cup overlaps'

Spec == Init /\ [][Next]_vars

----------------------------------------------------------------------------
(* Properties. *)

sumOfTotals(rows) == FoldSeq(LAMBDA l, sum : sum + l.total, 0, rows)

distance(a, b) == IF a > b THEN a - b ELSE b - a

\* A live order has the lines of exactly one save, the one its totals were
\* calculated from: the grand total and the additional discount add up to the
\* line totals, but for half a cent of rounding per line and for the sum, and
\* no discount makes the grand total negative.
TotalsReconcile ==
    \A o \in OrderIds : orders[o].row = "live" =>
        /\ orders[o].grandTotal >= 0
        /\ Cardinality(lines[o]) = 1
        /\ \A batch \in lines[o] :
              2 * distance(orders[o].grandTotal + orders[o].additional, sumOfTotals(batch.rows))
                <= Len(batch.rows) + 1

\* The contact on an order stays a row of the database, and the copy the order
\* prints is something that contact has really been, whatever is edited,
\* deleted or cleaned up meanwhile.
ContactCopied ==
    \A o \in OrderIds : LET c == orders[o].contact IN
        /\ c = None <=> orders[o].copy = None
        /\ c /= None => contacts[c].row \in {"live", "deleted"} /\ orders[o].copy \in seen[c]

\* A live document names a live partner, and a live order's lines live taxes,
\* unless the deletion ran while a request with that partner or tax was served.
ReferencesLive ==
    /\ \A o \in OrderIds : orders[o].row = "live" =>
          /\ partners[orders[o].mitra] = "live" \/ orders[o].mitra \in raced
          /\ \A batch \in lines[o] : \A i \in DOMAIN batch.rows : \A t \in batch.rows[i].taxes :
                taxes[t].row = "live" \/ t \in raced
    /\ \A n \in NoteIds : notes[n].row = "live" =>
          partners[notes[n].mitra] = "live" \/ notes[n].mitra \in raced

\* A saved partner form leaves the partner with the contacts of its list and
\* no others; without the permission for it, none is gone, none is new and
\* none is changed.
PartnerSaveIsExact ==
    [][\A r \in Requests : Serve(r) =>
        \A m \in Partners, list \in Lists, perms \in Perms : MitraUpdate(r, m, list, perms) =>
            /\ Cardinality(liveContacts(m)') = Len(list)
            /\ {contacts'[c].details : c \in liveContacts(m)'} = {list[i].details : i \in DOMAIN list}
            /\ "delete" \notin perms => liveContacts(m) \subseteq liveContacts(m)'
            /\ "create" \notin perms => liveContacts(m)' \subseteq liveContacts(m)
            /\ "update" \notin perms => \A c \in liveContacts(m) : contacts'[c].details = contacts[c].details
      ]_vars
=============================================================================
