CONSTANTS
    t1 = t1
    t2 = t2
    None = None
    QuantityScale = 2
    Partners = {m1, m2}
    Contacts = {c1, c2}
    Taxes = {t1, t2}
    SalesOrders = {so}
    PurchaseOrders = {po}
    DeliveryNotes = {dn}
    GoodsReceipts = {gr}
    Details = {ana, ben}
    Forms <- MCForms
    Rates = {7, 10}
    Methods <- MCMethods
    MaxListed = 2
    Requests = {r1, r2}
SPECIFICATION Spec
SYMMETRY MCSymmetry
INVARIANTS TotalsReconcile ContactCopied ReferencesLive
PROPERTY PartnerSaveIsExact
