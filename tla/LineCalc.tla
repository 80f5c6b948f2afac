------------------------------ MODULE LineCalc ------------------------------
(***************************************************************************)
(* The arithmetic of a document with lines, discounts and taxes            *)
(* (utils/linecalc.go), which sales and purchase orders and invoices       *)
(* share.  Prices, discounts of type "amount" and totals are in cents,     *)
(* quantities in units of 1/QuantityScale, rates and discounts of type     *)
(* "percent" in whole percent.  What Go computes in float64 is computed    *)
(* exactly here, as a fraction of cents, and rounded where Go rounds.      *)
(***************************************************************************)
EXTENDS Integers, Sequences, SequencesExt

CONSTANT QuantityScale      \* quantities have a finite number of decimals

ASSUME ScaleAssumption == QuantityScale \in Nat \ {0}

gcd[p \in Nat \X Nat] == IF p[2] = 0 THEN p[1] ELSE gcd[<<p[2], p[1] % p[2]>>]

\* A fraction of cents, in lowest terms.
fraction(n, d) == LET g == gcd[<<d, n % d>>] IN [n |-> n \div g, d |-> d \div g]
Cents(n) == [n |-> n, d |-> 1]
plus(a, b) == fraction(a.n * b.d + b.n * a.d, a.d * b.d)
minus(a, b) == plus(a, [b EXCEPT !.n = -b.n])
times(a, n, d) == fraction(a.n * n, a.d * d)
exceeds(a, b) == a.n * b.d > b.n * a.d

\* math.Round on cents: halves are rounded away from zero.  No amount of the
\* calculation is negative.
round2(a) == (2 * a.n + a.d) \div (2 * a.d)

\* A line as it is submitted: [product, quantity, price, discountType,
\* discount, taxes], where taxes is a list and may name a tax twice.
base(l) == fraction(l.quantity * l.price, QuantityScale)

discountAmt(l) ==
    IF l.discountType = "amount" THEN Cents(l.discount) ELSE times(base(l), l.discount, 100)

lineSubtotal(l) == minus(base(l), discountAmt(l))

\* The rates of the line's taxes, added up by calculation method.
methodRate(l, rates, method) ==
    FoldSeq(LAMBDA t, sum : sum + (IF rates[t].method = method THEN rates[t].rate ELSE 0),
            0, l.taxes)

exclusiveTax(l, rates) == times(lineSubtotal(l), methodRate(l, rates, "exclusive"), 100)

\* Backed out of the subtotal, which contains it: s - s / (1 + rate/100).
inclusiveTax(l, rates) ==
    LET rate == methodRate(l, rates, "inclusive") IN
    times(lineSubtotal(l), rate, 100 + rate)

lineTax(l, rates) == plus(exclusiveTax(l, rates), inclusiveTax(l, rates))
lineTotal(l, rates) == plus(lineSubtotal(l), exclusiveTax(l, rates))

\* The checks that refuse a line.  rates has the taxes that exist and are active.
lineAccepted(l, rates) ==
    /\ l.product /= ""
    /\ l.quantity > 0
    /\ l.price >= 0
    /\ l.discount >= 0
    /\ IF l.discountType = "amount" THEN ~exceeds(Cents(l.discount), base(l))
                                    ELSE l.discount <= 100
    /\ ToSet(l.taxes) \subseteq DOMAIN rates

total(amounts) == FoldSeq(plus, Cents(0), amounts)

Subtotal(lines) == round2(total([i \in DOMAIN lines |-> lineSubtotal(lines[i])]))

\* The document's own discount, as it is stored: rounded to cents.
additionalDiscountAmount(lines, disc) ==
    IF disc.type = "amount" THEN disc.value
    ELSE round2(fraction(Subtotal(lines) * disc.value, 100))

additionalAccepted(lines, disc) ==
    /\ disc.value >= 0
    /\ IF disc.type = "amount" THEN disc.value <= Subtotal(lines) ELSE disc.value <= 100

\* The guard of CalcLines: everything that is not an error.
CalcAccepts(lines, rates, disc) ==
    /\ Len(lines) >= 1
    /\ \A i \in DOMAIN lines : lineAccepted(lines[i], rates)
    /\ additionalAccepted(lines, disc)

LineResult(l, rates) ==
    [subtotal |-> round2(lineSubtotal(l)), tax |-> round2(lineTax(l, rates)),
     total |-> round2(lineTotal(l, rates)), taxes |-> ToSet(l.taxes)]

\* The sums of the unrounded lines are rounded once; the discount is taken
\* from the total and not from Subtotal + TaxTotal, which has the inclusive
\* taxes twice.
GrandTotal(lines, rates, disc) ==
    round2(total([i \in DOMAIN lines |-> lineTotal(lines[i], rates)]))
        - additionalDiscountAmount(lines, disc)

CalcLines(lines, rates, disc) ==
    [lines |-> [i \in DOMAIN lines |-> LineResult(lines[i], rates)],
     subtotal |-> Subtotal(lines),
     discountTotal |-> round2(total([i \in DOMAIN lines |-> discountAmt(lines[i])])),
     taxTotal |-> round2(total([i \in DOMAIN lines |-> lineTax(lines[i], rates)])),
     additional |-> additionalDiscountAmount(lines, disc),
     grandTotal |-> GrandTotal(lines, rates, disc)]
=============================================================================
