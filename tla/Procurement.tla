----------------------------- MODULE Procurement -----------------------------
(***************************************************************************)
(* Procurement records and their reconciliation: ProcurementService        *)
(* (app/services/procurement_service.py) records orders, receipts and      *)
(* invoices; ReconciliationService (app/services/reconciliation_service.py)*)
(* loads the documents of a request, runs the engine of ThreeWayMatch on   *)
(* them, and commits the exceptions and the outcome on the invoice.        *)
(*                                                                         *)
(* Requests run at the same time.  A run works on what it has loaded while *)
(* receipts and other invoices are recorded, and while other runs commit.  *)
(* No code sets the status of an exception to anything but OPEN, so rows   *)
(* have none here and the branch that reopens a RESOLVED row is left out.  *)
(***************************************************************************)
EXTENDS AnomalyRules, OrmSession

CONSTANTS
    Vendors,
    OrderForms,         \* documents clients may record, each with its id
    ReceiptForms,
    InvoiceForms,
    Posted,             \* statuses clients give the invoices they record
    Configs,            \* tolerances requests ask for
    Today,
    Reconcilers,        \* requests
    MaxRuns             \* bound: runs begun

OrderLine == [id : Nat \ {NoRef}, number : Nat, quantity : Nat, price : Nat, tax : Nat]
PurchaseOrder == [id : Nat \ {NoRef}, vendor : Vendors, date : Int, lines : SUBSET OrderLine]
ReceiptLine == [id : Nat, number : Nat, ref : Nat, quantity : Nat]
GoodsReceipt == [id : Nat, order : Nat \ {NoRef}, date : Int, lines : SUBSET ReceiptLine]
InvoiceLine == [id : Nat, number : Nat, ref : Nat, quantity : Nat, price : Nat, tax : Nat]
Invoice == [id : Nat, vendor : Vendors, number : DOMAIN Normal, order : Nat, date : Int,
            total : Nat, lines : SUBSET InvoiceLine]

InvoiceStatuses == {"DRAFT", "RECEIVED", "MATCHED", "EXCEPTION", "APPROVED", "REJECTED",
                    "CANCELLED"}

\* A line number is given once in an order, an id to one line; a document has the
\* lines that its request has, and a request a tolerance for each of the amounts.
ASSUME FormsAssumption ==
    /\ OrderForms \subseteq PurchaseOrder /\ ReceiptForms \subseteq GoodsReceipt
    /\ InvoiceForms \subseteq Invoice
    /\ \A d \in OrderForms \union ReceiptForms \union InvoiceForms :
          IsFiniteSet(d.lines) /\ \A l, m \in d.lines : l.id = m.id => l = m
    /\ Posted \subseteq InvoiceStatuses
    /\ Configs \subseteq [quantity : Nat, price : Nat, tax : Nat] /\ IsFiniteSet(Configs)
    /\ \A p \in OrderForms : \A l, m \in p.lines : l.number = m.number => l = m

Ids(docs) == {d.id : d \in docs}
NoPick == 0

VARIABLES
    vendors,
    orders, receipts, invoices,     \* the committed documents
    status,         \* id of an invoice -> its status
    exception,      \* committed rows: a draft and the run that inserted it
    run,            \* runs in progress
    reported,       \* drafts that a committed run has returned
    overlap,        \* TRUE once two runs were in progress at the same time
    last,           \* id of an invoice -> the status of the run committed last
    runs

vars == <<vendors, orders, receipts, invoices, status, exception, run, reported, overlap, last, runs>>
documents == <<vendors, orders, receipts, invoices>>

\* `picked' is the id of the invoice, `held' its status when it was loaded;
\* `new' the drafts that had no row.
Resting == [pc |-> "idle", picked |-> NoPick, held |-> "RECEIVED", drafts |-> {}, new |-> {}]

ProcTypeOK ==
    /\ vendors \subseteq Vendors
    /\ orders \subseteq OrderForms /\ receipts \subseteq ReceiptForms /\ invoices \subseteq InvoiceForms
    /\ status \in [Ids(invoices) -> InvoiceStatuses]
    /\ DOMAIN last \subseteq Ids(invoices)
    /\ \A e \in exception : e.draft.type \in DOMAIN Severity
    /\ \A r \in Reconcilers : /\ run[r].pc \in {"idle", "loaded", "flushing"}
                              /\ run[r].new \subseteq run[r].drafts
    /\ overlap \in BOOLEAN /\ runs \in Nat

ProcInit ==
    /\ vendors = {} /\ orders = {} /\ receipts = {} /\ invoices = {}
    /\ status = [i \in {} |-> "RECEIVED"]
    /\ exception = {} /\ reported = {}
    /\ run = [r \in Reconcilers |-> Resting]
    /\ overlap = FALSE
    /\ last = [i \in {} |-> "MATCHED"]
    /\ runs = 0

-----------------------------------------------------------------------------
(* Recording documents: one transaction each.                              *)

\* The lines of the order a document may refer to.
RefsOf(id) == UNION {Ids(p.lines) : p \in OrderIn(id, [orders |-> orders])}
RefsAreOf(lines, id) == \A l \in lines : l.ref = NoRef \/ l.ref \in RefsOf(id)

CreateVendor(n) ==
    /\ n \notin vendors
    /\ vendors' = vendors \union {n}
    /\ UNCHANGED <<orders, receipts, invoices, status, exception, run, reported, overlap, last, runs>>

CreateOrder(p) ==
    /\ p.vendor \in vendors
    /\ p.id \notin Ids(orders)
    /\ orders' = orders \union {p}
    /\ UNCHANGED <<vendors, receipts, invoices, status, exception, run, reported, overlap, last, runs>>

CreateReceipt(g) ==
    /\ g.id \notin Ids(receipts)
    /\ g.order \in Ids(orders)
    /\ RefsAreOf(g.lines, g.order)
    /\ receipts' = receipts \union {g}
    /\ UNCHANGED <<vendors, orders, invoices, status, exception, run, reported, overlap, last, runs>>

\* The number of an invoice is unique as it is written.  Its status is the one the
\* client gives, MATCHED included.
CreateInvoice(v, s) ==
    /\ v.id \notin Ids(invoices)
    /\ v.vendor \in vendors
    /\ v.number \notin {w.number : w \in invoices}
    /\ v.order \in Ids(orders) \union {NoRef}
    /\ RefsAreOf(v.lines, v.order)
    /\ invoices' = invoices \union {v}
    /\ status' = [i \in Ids(invoices') |-> IF i = v.id THEN s ELSE status[i]]
    /\ UNCHANGED <<vendors, orders, receipts, exception, run, reported, overlap, last, runs>>

-----------------------------------------------------------------------------
(* A run of reconciliation.                                                *)

\* What run loads for an order id and an invoice id, either of which may be
\* missing from the request: the order of the invoice is taken when the request
\* has none.
Loaded(order, picked, config) ==
    LET invoice == {v \in invoices : v.id = picked}
        id == IF order # NoRef \/ invoice = {} THEN order ELSE (CHOOSE v \in invoice : TRUE).order
    IN  Inputs(OrderIn(id, [orders |-> orders]), ReceiptsIn(id, [receipts |-> receipts]),
               invoice, invoices, config)

BeginRun(r, order, picked, config) ==
    /\ run[r].pc = "idle" /\ runs < MaxRuns
    /\ order # NoRef \/ picked # NoPick
    /\ order \in Ids(orders) \union {NoRef} /\ picked \in Ids(invoices) \union {NoPick}
    /\ run' = [run EXCEPT ![r] =
                  [pc |-> "loaded", picked |-> picked, new |-> {},
                   held |-> IF picked = NoPick THEN "RECEIVED" ELSE status[picked],
                   drafts |-> Drafts(Loaded(order, picked, config))]]
    /\ overlap' = (overlap \/ \E q \in Reconcilers : run[q].pc # "idle")
    /\ runs' = runs + 1
    /\ UNCHANGED <<documents, status, exception, reported, last>>

HasRow(d) == \E e \in exception : Fingerprint(e.draft) = Fingerprint(d)

\* _upsert_exceptions: a SELECT by fingerprint for each draft.
Upsert(r) ==
    /\ run[r].pc = "loaded"
    /\ run' = [run EXCEPT ![r].pc = "flushing",
                          ![r].new = {d \in run[r].drafts : ~HasRow(d)}]
    /\ UNCHANGED <<documents, status, exception, reported, overlap, last, runs>>

\* The statuses that a run may replace.
Open == {"RECEIVED", "MATCHED", "EXCEPTION"}

\* Mutant: a match stands.
OutcomeOnce(held, result) ==
    CASE held \notin Open \ {"MATCHED"} -> held
      [] held \in Open \ {"MATCHED"} /\ result = "MATCHED" -> "MATCHED"
      [] held \in Open \ {"MATCHED"} /\ result = "EXCEPTIONS_FOUND" -> "EXCEPTION"
      [] OTHER -> "RECEIVED"

\* _record_invoice_outcome: an invoice a person has decided on is left alone.
Outcome(held, result) ==
    CASE held \notin Open -> held
      [] held \in Open /\ result = "MATCHED" -> "MATCHED"
      [] held \in Open /\ result = "EXCEPTIONS_FOUND" -> "EXCEPTION"
      [] OTHER -> "RECEIVED"

\* Mutant: no unique constraint on the fingerprint.
TakenNever(r) == FALSE

\* A row this run has not seen has one of its fingerprints: IntegrityError.
Taken(r) == \E d \in run[r].new, e \in exception : Fingerprint(e.draft) = Fingerprint(d)

\* Rows that were found take the order of the draft; the others are inserted.
Upserted(r) ==
    {[e EXCEPT !.draft.order =
        LET again == {d \in run[r].drafts \ run[r].new : Fingerprint(d) = Fingerprint(e.draft)}
        IN  IF again = {} THEN @ ELSE (CHOOSE d \in again : TRUE).order] : e \in exception}
    \union {[draft |-> d, run |-> r] : d \in run[r].new}

\* The flush and the commit, which a unique violation rolls back whole.
CommitRun(r) ==
    LET i == run[r].picked
        result == StatusOf(run[r].drafts)
        outcome == Outcome(run[r].held, result)
    IN  /\ run[r].pc = "flushing"
        /\ run' = [run EXCEPT ![r] = Resting]
        /\ \/ /\ Taken(r)
              /\ UNCHANGED <<status, exception, reported, last>>
           \/ /\ ~Taken(r)
              /\ exception' = Upserted(r)
              /\ reported' = reported \union run[r].drafts
              /\ status' = IF i = NoPick \/ outcome = run[r].held THEN status
                           ELSE [status EXCEPT ![i] = outcome]
              /\ last' = IF i = NoPick THEN last
                         ELSE [j \in DOMAIN last \union {i} |-> IF j = i THEN result ELSE last[j]]
        /\ UNCHANGED <<documents, overlap, runs>>

\* The request is lost with its session.
AbandonRun(r) ==
    /\ run[r].pc # "idle"
    /\ run' = [run EXCEPT ![r] = Resting]
    /\ UNCHANGED <<documents, status, exception, reported, overlap, last, runs>>

ProcNext ==
    \/ \E n \in Vendors : CreateVendor(n)
    \/ \E p \in OrderForms : CreateOrder(p)
    \/ \E g \in ReceiptForms : CreateReceipt(g)
    \/ \E v \in InvoiceForms, s \in Posted : CreateInvoice(v, s)
    \/ \E r \in Reconcilers, config \in Configs :
          \E order \in Ids(OrderForms) \union {NoRef}, picked \in Ids(InvoiceForms) \union {NoPick} :
             BeginRun(r, order, picked, config)
    \/ \E r \in Reconcilers : Upsert(r) \/ CommitRun(r) \/ AbandonRun(r)

ProcSpec == ProcInit /\ [][ProcNext]_vars

-----------------------------------------------------------------------------
(* Properties.                                                             *)

Tolerance(f) == Max({config[f] : config \in Configs})
Value(lines) == MapThenSumSet(LAMBDA line : line.quantity * line.price, lines)

\* What receipts `docs' are worth at the prices of order p, in hundredths, with
\* the most that the tolerances of a request allow.
WorthOf(p, docs) ==
    MapThenSumSet(LAMBDA l : (QuantityOn(p, l, docs) + Tolerance("quantity")) * l.price
                                * (100 + Tolerance("price")), p.lines)
Worth(p) == WorthOf(p, ReceiptsIn(p.id, [receipts |-> receipts]))

\* The point of the three-way match: an invoice that has been reconciled and stands
\* as MATCHED bills for no more than has been received on its order, at the prices of
\* the order, whichever runs and recordings it raced with, and also where the client
\* recorded it as MATCHED.
MatchedBillsWhatIsReceived ==
    \A v \in invoices : v.id \in DOMAIN last /\ status[v.id] = "MATCHED" =>
        \E p \in orders : p.id = v.order /\ 100 * Value(v.lines) <= Worth(p)

\* "Insert new exceptions or refresh existing ones with the same fingerprint":
\* however runs overlap, a fact has one row, and what a run that committed has
\* returned to its client is on record.
OneRowPerFingerprint ==
    /\ ProcTypeOK
    /\ \A e, f \in exception : Fingerprint(e.draft) = Fingerprint(f.draft) => e = f
    /\ \A d \in reported : \E e \in exception : Fingerprint(e.draft) = Fingerprint(d)

\* "Remember a finished run on the invoice": as long as runs do not overlap, an
\* open invoice shows what the last of them found.
LastOutcomeStands ==
    ~overlap => \A i \in DOMAIN last : status[i] \in Open =>
        status[i] = CASE last[i] = "MATCHED" -> "MATCHED"
                      [] last[i] = "EXCEPTIONS_FOUND" -> "EXCEPTION"
                      [] OTHER -> "RECEIVED"

Docs == [orders |-> orders, receipts |-> receipts, invoices |-> invoices,
         exceptions |-> {e.draft : e \in exception}, today |-> Today]

\* Reconciliation and anomaly detection are two engines with rules of their own
\* over the same documents.  They do not contradict each other: what is a signal
\* of price, of a duplicate or of an invoice before its order is an exception
\* under the default tolerances, and the last two also the other way round.  Nor
\* is a signal counted twice where detection for an exception looks at its invoice
\* and at the vendor, whose latest invoice may be the same.
EnginesAgree ==
    /\ \A e \in exception : \A s, f \in SignalsForException(e.draft, Docs) :
          Fingerprint(s) = Fingerprint(f) => s = f
    /\ \A v \in invoices : v.order # NoRef =>
        LET drafts == Drafts(Loaded(NoRef, v.id, [quantity |-> 0, price |-> 0, tax |-> 0]))
            signals == SignalsForInvoice(v, Docs)
            found(type, rule) == \E d \in drafts : d.type = type /\ d.rule = rule
            signalled(type, rule) == \E s \in signals : s.type = type /\ s.rule = rule
        IN  /\ \A s \in signals : s.type = "PRICE_VARIANCE" =>
                  \E d \in drafts : d.type = "PRICE_MISMATCH"
                                   /\ s.parts \ {<<"vendor", v.vendor>>} \subseteq d.parts
            /\ signalled("DUPLICATE_INVOICE", "identity") <=> found("DUPLICATE_INVOICE", "identity")
            /\ signalled("TIMING_ANOMALY", "invoice_before_po") <=> found("DATE_MISMATCH", "invoice")

\* "A clean match has status MATCHED and no exception row"
\* (docs/M12_DEMO_RUNTIME.md), of an invoice that a run has matched.
CleanMatchHasNoException ==
    \A v \in invoices : v.id \in DOMAIN last /\ status[v.id] = "MATCHED" =>
        \A e \in exception : <<"invoice", v.id>> \notin e.draft.parts

=============================================================================
