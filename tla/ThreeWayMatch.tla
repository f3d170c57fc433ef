---------------------------- MODULE ThreeWayMatch ----------------------------
(***************************************************************************)
(* The reconciliation engine: reconcile (app/reconciliation/engine.py) and *)
(* the rules it applies (app/reconciliation/rules.py) to a purchase order, *)
(* its goods receipts and an invoice.                                      *)
(*                                                                         *)
(* A document is a record, its lines a set of records.  The input has sets *)
(* for the documents that may be missing: `order' and `invoice' hold one   *)
(* document or none.  Amounts are natural numbers in units of the smallest *)
(* decimal.  A draft is what its fingerprint is made of: the rule and the  *)
(* labelled ids; the message and the evidence are left out.                *)
(***************************************************************************)
EXTENDS Integers, FiniteSets, FiniteSetsExt

CONSTANTS
    Normal      \* invoice number -> the number under normalize_invoice_number

NoRef == 0      \* a foreign key that is NULL

Severity == [MISSING_DOCUMENT |-> "CRITICAL", DUPLICATE_INVOICE |-> "CRITICAL",
             IDENTIFIER_MISMATCH |-> "HIGH", QUANTITY_MISMATCH |-> "HIGH",
             PRICE_MISMATCH |-> "HIGH", TAX_MISMATCH |-> "MEDIUM", DATE_MISMATCH |-> "MEDIUM"]

ReconciliationStatuses == {"MATCHED", "EXCEPTIONS_FOUND", "INCOMPLETE"}

\* `order' is the purchase_order_id of the row, or NoRef; it is in `parts' only
\* where the fingerprint has it.
Draft(type, rule, order, parts) == [type |-> type, rule |-> rule, order |-> order, parts |-> parts]
Fingerprint(draft) == <<draft.type, draft.rule, draft.parts>>

\* The ids of documents `docs' with the label of their kind.
Label(kind, docs) == {<<kind, d.id>> : d \in docs}

-----------------------------------------------------------------------------
(* Arithmetic of the rules.                                                *)

Distance(a, b) == IF a > b THEN a - b ELSE b - a

\* exceeds_percent_tolerance of percent_variance: an expected amount of zero
\* counts as 100 percent off.
Exceeds(expected, actual, n) ==
    IF expected = 0 THEN (IF actual = 0 THEN 0 ELSE 100) > n
    ELSE 100 * Distance(expected, actual) > n * expected

\* exceeds_quantity_tolerance
Over(left, right, tolerance) == left > right + tolerance

-----------------------------------------------------------------------------
(* Line matching.                                                          *)

\* match_line_to_po: by foreign key, else by a line number that only one line
\* of the order has.  At most one line.
MatchedLines(p, line) ==
    IF line.ref # NoRef THEN {l \in p.lines : l.id = line.ref}
    ELSE LET same == {l \in p.lines : l.number = line.number}
         IN  IF Cardinality(same) = 1 THEN same ELSE {}

Unmatched(p, kind, doc) ==
    {Draft("IDENTIFIER_MISMATCH",
           IF line.ref # NoRef THEN "missing_po_line_ref" ELSE "ambiguous_or_missing_line",
           p.id,
           {<<kind, doc.id>>, <<"line", line.id>>,
            IF line.ref # NoRef THEN <<"ref", line.ref>> ELSE <<"number", line.number>>})
        : line \in {l \in doc.lines : MatchedLines(p, l) = {}}}

LinesOn(p, l, docs) == {line \in UNION {d.lines : d \in docs} : l \in MatchedLines(p, line)}
QuantityOn(p, l, docs) == MapThenSumSet(LAMBDA line : line.quantity, LinesOn(p, l, docs))

-----------------------------------------------------------------------------
(* Rules.                                                                  *)

\* check_header_po_reference
HeaderMismatches(p, kind, docs) ==
    {Draft("IDENTIFIER_MISMATCH",
           IF d.order = NoRef THEN "missing_po_header_ref" ELSE "po_header_mismatch",
           p.id, {<<kind, d.id>>, <<"order", p.id>>, <<"ref", d.order>>})
        : d \in {e \in docs : e.order # p.id}}

\* date_exceptions
EarlyDocuments(p, kind, docs) ==
    {Draft("DATE_MISMATCH", kind, p.id, {<<"order", p.id>>, <<kind, d.id>>})
        : d \in {e \in docs : e.date < p.date}}

\* price_exception_for_line and tax_exception_for_line, over the lines of the
\* invoice and the line of the order each of them matches.
Amount(line, type) == IF type = "PRICE_MISMATCH" THEN line.price ELSE line.tax
AmountMismatches(p, v, type, tolerance) ==
    UNION {{Draft(type, "line", p.id, {<<"order", p.id>>, <<"order_line", l.id>>,
                                       <<"invoice", v.id>>, <<"line", line.id>>})
              : l \in {m \in MatchedLines(p, line) :
                          Exceeds(Amount(m, type), Amount(line, type), tolerance)}}
             : line \in v.lines}

\* Mutant: what is invoiced is compared with the order alone.
QuantityExceptionsOfOrder(p, v, receipts, l, tolerance) ==
    LET invoiced == QuantityOn(p, l, {v})
        parts == {<<"order", p.id>>, <<"order_line", l.id>>, <<"invoice", v.id>>}
    IN  {Draft("QUANTITY_MISMATCH", "invoiced_gt_ordered", p.id, parts)
            : x \in {y \in {1} : Over(invoiced, l.quantity, tolerance)}}

\* quantity_exceptions_for_line: a delivery or an invoice of a part is fine.
QuantityExceptions(p, v, receipts, l, tolerance) ==
    LET invoiced == QuantityOn(p, l, {v})
        received == QuantityOn(p, l, receipts)
        broken == (IF Over(invoiced, received, tolerance) THEN {"invoiced_gt_received"} ELSE {})
                  \union (IF Over(received, l.quantity, tolerance) THEN {"received_gt_ordered"} ELSE {})
                  \union (IF Over(invoiced, l.quantity, tolerance) THEN {"invoiced_gt_ordered"} ELSE {})
        parts == {<<"order", p.id>>, <<"order_line", l.id>>, <<"invoice", v.id>>}
    IN  IF received = 0 /\ invoiced = 0 THEN {}
        ELSE {Draft("QUANTITY_MISMATCH", rule, p.id, parts) : rule \in broken}

\* missing_document_exception
Missing(what, orders, receipts, invoices) ==
    {Draft("MISSING_DOCUMENT", what, IF orders = {} THEN NoRef ELSE (CHOOSE p \in orders : TRUE).id,
           Label("order", orders) \union Label("invoice", invoices) \union Label("receipt", receipts))}

\* duplicate_invoice_exception, for the candidates _find_duplicate_candidates
\* selects: other invoices of the vendor with the same normalized number.
IsDuplicate(v, w) == w.id # v.id /\ w.vendor = v.vendor /\ Normal[w.number] = Normal[v.number]
DuplicateExceptions(v, others) ==
    {Draft("DUPLICATE_INVOICE", "identity", v.order, {<<"invoice", v.id>>, <<"other", w.id>>})
        : w \in {x \in others : IsDuplicate(v, x)}}

-----------------------------------------------------------------------------
(* reconcile.                                                              *)

\* Input of a run.  `config' has the tolerances: quantity absolute, price and
\* tax in percent.
Inputs(order, receipts, invoice, others, config) ==
    [order |-> order, receipts |-> receipts, invoice |-> invoice, others |-> others,
     config |-> config]

MissingDocuments(in) ==
    (IF in.order = {} THEN Missing("PO", {}, in.receipts, in.invoice) ELSE {})
    \union (IF in.invoice = {} THEN Missing("INVOICE", in.order, in.receipts, {}) ELSE {})
    \union (IF in.order # {} /\ in.invoice # {} /\ in.receipts = {}
            THEN Missing("GRN", in.order, {}, in.invoice) ELSE {})

\* What is found once there is an order `p'.
AgainstOrder(p, in) ==
    HeaderMismatches(p, "receipt", in.receipts) \union HeaderMismatches(p, "invoice", in.invoice)
    \union EarlyDocuments(p, "receipt", in.receipts) \union EarlyDocuments(p, "invoice", in.invoice)
    \union (UNION {Unmatched(p, "receipt", g) : g \in in.receipts})
    \union UNION {Unmatched(p, "invoice", v)
                  \union AmountMismatches(p, v, "PRICE_MISMATCH", in.config.price)
                  \union AmountMismatches(p, v, "TAX_MISMATCH", in.config.tax)
                  \union (IF in.receipts = {} THEN {}
                          ELSE UNION {QuantityExceptions(p, v, in.receipts, l, in.config.quantity)
                                        : l \in p.lines})
                    : v \in in.invoice}

\* The drafts, which _dedupe_drafts makes a set.
Drafts(in) ==
    IF in.order = {} /\ in.invoice = {} /\ in.receipts = {} THEN Missing("PO", {}, {}, {})
    ELSE MissingDocuments(in)
         \union (UNION {DuplicateExceptions(v, in.others) : v \in in.invoice})
         \union UNION {AgainstOrder(p, in) : p \in in.order}

\* _resolve_status; `incomplete' is set exactly where a document is missing.
StatusOf(drafts) ==
    IF \E d \in drafts : d.type = "MISSING_DOCUMENT" THEN "INCOMPLETE"
    ELSE IF drafts # {} THEN "EXCEPTIONS_FOUND" ELSE "MATCHED"

=============================================================================
