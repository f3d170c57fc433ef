---------------------------- MODULE AnomalyRules -----------------------------
(***************************************************************************)
(* The anomaly rules (app/anomaly/rules.py), the engine that runs them     *)
(* (app/anomaly/engine.py) and what the service gives it to look at        *)
(* (app/services/anomaly_service.py).                                      *)
(*                                                                         *)
(* A signal is its type, its severity and what its fingerprint is made of. *)
(* A signal is about risk and has no bearing on reconciliation; the two    *)
(* look at the same documents.  Averages and rates are compared by         *)
(* multiplication: the four digits they are rounded to are left out.       *)
(***************************************************************************)
EXTENDS ThreeWayMatch

CONSTANTS
    Percent,            \* severity -> percent of variance from which it is given
    SpikeRatio,         \* severity -> multiple of the average
    MismatchRate,       \* severity -> exceptions per hundred invoices
    SpikeHistory,       \* vendor_spike_min_history
    MismatchHistory,    \* repeated_mismatch_min_history
    WindowDays,         \* repeated_mismatch_window_days
    LongDelay           \* timing_long_delay_days

Severities == <<"LOW", "MEDIUM", "HIGH", "CRITICAL">>

ASSUME ThresholdAssumption ==       \* each ladder rises; only percents have LOW
    /\ DOMAIN Percent = {"LOW", "MEDIUM", "HIGH", "CRITICAL"}
    /\ DOMAIN SpikeRatio = {"MEDIUM", "HIGH", "CRITICAL"}
    /\ DOMAIN MismatchRate = DOMAIN SpikeRatio
    /\ \A ladder \in {Percent, SpikeRatio, MismatchRate} :
          \A i, j \in 1 .. 4 :
             i < j /\ {Severities[i], Severities[j]} \subseteq DOMAIN ladder =>
                 ladder[Severities[i]] <= ladder[Severities[j]]

Signal(type, rule, severity, parts) ==
    [type |-> type, rule |-> rule, severity |-> severity, parts |-> parts]

\* The highest severity whose threshold is met, {} below the lowest.
Highest(met) == {Severities[i] : i \in {Max({j \in 1 .. 4 : Severities[j] \in met} \union {0})} \ {0}}

\* severity_from_percent_thresholds of percent_variance
VarianceSeverity(expected, actual) ==
    Highest({s \in DOMAIN Percent :
                IF expected = 0 THEN actual # 0 /\ Percent[s] <= 100
                ELSE 100 * Distance(expected, actual) >= Percent[s] * expected})

\* severity_from_ratio_thresholds, with the ratio as part / whole
RatioSeverity(part, whole, ladder) == Highest({s \in DOMAIN ladder : part >= ladder[s] * whole})

-----------------------------------------------------------------------------
(* Rules about an invoice `v'; `orders' has its order or nothing.          *)

\* Lines by foreign key alone: a line without one is not compared.
Linked(v, orders) ==
    {pair \in v.lines \X UNION {p.lines : p \in orders} : pair[1].ref = pair[2].id}

LineSignals(v, orders, type) ==
    UNION {{Signal(type, "line", s, {<<"vendor", v.vendor>>, <<"invoice", v.id>>,
                                     <<"line", pair[1].id>>, <<"order_line", pair[2].id>>})
              : s \in IF type = "PRICE_VARIANCE" THEN VarianceSeverity(pair[2].price, pair[1].price)
                      ELSE VarianceSeverity(pair[2].quantity, pair[1].quantity)}
             : pair \in Linked(v, orders)}

\* Mutant: the numbers are compared as they are written.
DuplicateSignalsRaw(v, siblings) ==
    {Signal("DUPLICATE_INVOICE", "identity", "HIGH",
            {<<"vendor", v.vendor>>, <<"number", Normal[v.number]>>})
        : w \in {x \in siblings : x.number = v.number /\ x.id # v.id}}

\* One signal for all invoices of the vendor with this number.
DuplicateSignals(v, siblings) ==
    {Signal("DUPLICATE_INVOICE", "identity", "HIGH",
            {<<"vendor", v.vendor>>, <<"number", Normal[v.number]>>})
        : same \in {m \in {{x \in siblings : Normal[x.number] = Normal[v.number]}} :
                        Cardinality(m) >= 2}}

TimingSignals(v, orders, receipts) ==
    {Signal("TIMING_ANOMALY", "invoice_before_po", "HIGH", {<<"invoice", v.id>>, <<"order", p.id>>})
        : p \in {q \in orders : v.date < q.date}}
    \union {Signal("TIMING_ANOMALY", "invoice_before_grn", "MEDIUM",
                   {<<"invoice", v.id>>, <<"receipt", g.id>>})
        : g \in {h \in receipts : v.date < h.date}}
    \union {Signal("TIMING_ANOMALY", "long_delay", "LOW", {<<"invoice", v.id>>, <<"order", p.id>>})
        : p \in {q \in orders : v.date - q.date > LongDelay}}

\* The total of the invoice over the average of the others.
SpikeSignals(v, others) ==
    LET history == {w \in others : w.id # v.id}
        total == MapThenSumSet(LAMBDA w : w.total, history)
    IN  IF Cardinality(history) < SpikeHistory \/ total = 0 THEN {}
        ELSE {Signal("VENDOR_SPIKE", "latest", s, {<<"vendor", v.vendor>>, <<"invoice", v.id>>})
                : s \in RatioSeverity(v.total * Cardinality(history), total, SpikeRatio)}

MismatchSignals(vendor, invoices, exceptions, today) ==
    IF invoices < MismatchHistory THEN {}
    ELSE {Signal("REPEATED_MISMATCH", "window", s, {<<"vendor", vendor>>, <<"day", today>>})
            : s \in RatioSeverity(100 * exceptions, invoices, MismatchRate)}

-----------------------------------------------------------------------------
(* AnomalyEngine, on what AnomalyService loads: `docs' has the sets of      *)
(* orders, receipts, invoices and exceptions, and the date of today.       *)

\* detect_for_invoice of the engine, for the order (or nothing) and the receipts
\* it is called with.
InvoiceSignals(v, order, receipts, docs) ==
    LET siblings == {w \in docs.invoices : w.vendor = v.vendor}
    IN  LineSignals(v, order, "PRICE_VARIANCE") \union LineSignals(v, order, "QUANTITY_VARIANCE")
        \union DuplicateSignals(v, siblings) \union TimingSignals(v, order, receipts)
        \union SpikeSignals(v, siblings)

\* max by (invoice_date, str(id))
Latest(invoices) ==
    {v \in invoices : \A w \in invoices : w.date < v.date \/ (w.date = v.date /\ w.id <= v.id)}

\* The documents of an order id, which may be NoRef.
OrderIn(id, docs) == {p \in docs.orders : p.id = id}
ReceiptsIn(id, docs) == {g \in docs.receipts : id # NoRef /\ g.order = id}

\* detect_for_invoice, detect_for_vendor and detect_for_exception of the service.
SignalsForInvoice(v, docs) ==
    InvoiceSignals(v, OrderIn(v.order, docs), ReceiptsIn(v.order, docs), docs)

SignalsForVendor(vendor, docs) ==
    LET all == {v \in docs.invoices : v.vendor = vendor}
        recent == {v \in all : v.date >= docs.today - WindowDays}
        about == {e \in docs.exceptions : \E v \in recent : <<"invoice", v.id>> \in e.parts}
    IN  (UNION {SpikeSignals(v, all) : v \in Latest(all)})
        \union MismatchSignals(vendor, Cardinality(recent), Cardinality(about), docs.today)

\* The order is the exception's, or else the invoice's; the vendor's signals are
\* added where the invoice's have none of that fingerprint.
SignalsForException(e, docs) ==
    LET about == {v \in docs.invoices : <<"invoice", v.id>> \in e.parts}
        id == IF e.order # NoRef \/ about = {} THEN e.order ELSE (CHOOSE v \in about : TRUE).order
        vendors == IF about # {} THEN {v.vendor : v \in about}
                   ELSE {p.vendor : p \in OrderIn(id, docs)}
        first == UNION {InvoiceSignals(v, OrderIn(id, docs), ReceiptsIn(id, docs), docs) : v \in about}
    IN  first \union {s \in UNION {SignalsForVendor(vendor, docs) : vendor \in vendors} :
                        \A f \in first : Fingerprint(f) # Fingerprint(s)}

=============================================================================
