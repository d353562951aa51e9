---------------------------- MODULE InvoiceTotals ----------------------------
(***************************************************************************)
(* Money from a quote, or a form, to an order and to its invoice.  A quote *)
(* keeps prices with four decimals and totals with two, and its totals may *)
(* be written by hand; its order keeps prices with two and copies the      *)
(* totals.  The invoice is sent with the order's prices, and the header    *)
(* discount as a percentage of each line: before that the code rebuilds    *)
(* what the accounting service will come to, and refuses an order whose    *)
(* total it does not meet.                                                 *)
(*                                                                         *)
(* Prices are hundredths of a cent and all other amounts are cents,        *)
(* rounded half up; the binary representation of fractions in JavaScript   *)
(* is left out.                                                            *)
(***************************************************************************)
EXTENDS Integers, Sequences, Functions

CONSTANTS
    MaxLines,   \* bound: lines of an order
    Quantity,   \* bound: quantities of a line
    Price,      \* bound: prices, in hundredths of a cent
    Percent,    \* bound: discounts of a line
    Discount,   \* bound: discounts of the header, in cents
    Rate,       \* bound: VAT rates of a quote
    Off         \* bound: by how much a total written by hand is off, in cents

VARIABLES
    order,    \* the order and what it was made from
    byHand,   \* history: a total of its quote was written by hand
    invoice   \* "open", "refused", or "sent" with what Expected comes to
-----------------------------------------------------------------------------
Rounded(n, d) == (2 * n + d) \div (2 * d)
Cents(price) == Rounded(price, 100)
Sum(f) == FoldFunction(+, 0, f)
Distance(a, b) == IF a < b THEN b - a ELSE a - b

\* roundMoney(quantity * price * (1 - discount)), with the price as it was typed.
LineTotal(l) == Rounded(l.quantity * l.price * (100 - l.percent), 10000)

Computed(lines) == Sum([i \in DOMAIN lines |-> LineTotal(lines[i])])

\* The totals of QuoteForm: the subtotal, the VAT and the total are each computed
\* from what stands above them, or written by hand and off by so much.
Totalled(lines, discount, rate, off) ==
    LET sub == Computed(lines) + off.subtotal
        less == IF discount < sub THEN discount ELSE sub
        vat == Rounded((sub - less) * rate, 100) + off.vat
    IN  [lines |-> lines, subtotal |-> sub, discount |-> less, rate |-> rate,
         grand |-> sub - less + vat + off.grand]

AsComputed == [subtotal |-> 0, vat |-> 0, grand |-> 0]

\* assert_quote_totals_sane: off by the twentieth part, or by a hundred.
Near(a, b) == Distance(a, b) <= IF b > 200000 THEN b \div 20 ELSE 10000
Sane(o) ==
    /\ Near(o.subtotal, Computed(o.lines))
    /\ Near(o.grand, Rounded((o.subtotal - o.discount) * (100 + o.rate), 100))

Line == [quantity : Quantity, price : Price, percent : Percent]

\* The lines of an order from a quote have no discounts, and its rate.
FromQuote(lines) ==
    /\ \A i \in DOMAIN lines : lines[i].percent = 0
    /\ \E discount \in Discount, rate \in Rate, off \in [DOMAIN AsComputed -> Off] :
        /\ order = Totalled(lines, discount, rate, off) /\ Sane(order)
        /\ byHand = (off # AsComputed)

\* dbCreateOrder sends neither a rate nor a discount nor totals: header and lines
\* get the default rate.
DefaultRate == 20
FromForm(lines) == order = Totalled(lines, 0, DefaultRate, AsComputed) /\ byHand = FALSE

Init ==
    /\ \E n \in 1..MaxLines : \E lines \in [1..n -> Line] : FromQuote(lines) \/ FromForm(lines)
    /\ invoice = "open"
-----------------------------------------------------------------------------
\* A line of the invoice, with the header discount as its share of the subtotal.
Invoiced(l) ==
    LET gross == l.quantity * Cents(l.price)  s == order.subtotal IN
    IF order.discount = 0
    THEN Rounded(gross * (100 - l.percent) * (100 + order.rate), 10000)
    ELSE Rounded(gross * (100 * s - l.percent * s - 100 * order.discount) * (100 + order.rate),
                 10000 * s)

Expected == Sum([i \in DOMAIN order.lines |-> Invoiced(order.lines[i])])

Tolerance == Len(order.lines) + 1

Refused == order.discount > 0 /\ Distance(Expected, order.grand) > Tolerance

Sync ==
    /\ invoice = "open"
    /\ invoice' = IF Refused THEN "refused" ELSE "sent"
    /\ UNCHANGED <<order, byHand>>

Next == Sync

Spec == Init /\ [][Next]_<<order, byHand, invoice>>
-----------------------------------------------------------------------------
InCents == \A i \in DOMAIN order.lines : order.lines[i].price % 100 = 0
Close == Distance(Expected, order.grand) <= Len(order.lines) + 1

\* An order priced in cents, with its totals as they were computed, is never refused
\* for its discount, and its invoice comes to its total but for a cent for every line
\* and one more: the rounding of the lines, of the subtotal and of the VAT cannot add
\* up to more.  A total written by hand is the exception, and so is a price with four
\* decimals: such an order may be refused, or invoiced at another total.
PricedInCentsAgrees ==
    InCents /\ ~byHand => invoice # "refused" /\ (invoice = "sent" => Close)
=============================================================================
