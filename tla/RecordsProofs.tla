---------------------------- MODULE RecordsProofs -----------------------------
(***************************************************************************)
(* Theorems about the records of a tenant: Promotion, which writes them    *)
(* from approved papers, and Procurement, which reconciles them; for every *)
(* number of papers, requests, documents, vendors and runs.                *)
(*                                                                         *)
(* A record is written once under its number and never changed, so that    *)
(* what a request has found is there when it commits, and the order that   *)
(* a record refers to keeps its lines; a record with a number that was     *)
(* taken in between is refused (OrdersStay, PromotionInv).                 *)
(*                                                                         *)
(* A run of reconciliation makes its drafts from one order and one invoice *)
(* at most, and from these every rule finds a fact once: two drafts with   *)
(* one fingerprint are one (FactsAreFoundOnce).  With that, the unique key *)
(* gives a fact one row; and a row is refreshed but never removed, so that *)
(* a draft that had a row before the commit has it after (ProcInv).        *)
(*                                                                         *)
(* What a match bills is a sum over the lines of an invoice, taken in the  *)
(* groups that match one line of the order (ComparedIsWorth); receipts are *)
(* only added, so that what was enough stays enough (BillsStay).  The two  *)
(* engines are compared rule by rule (InvoiceAgrees).                      *)
(***************************************************************************)
EXTENDS Promotion, Procurement, FiniteLemmas

-----------------------------------------------------------------------------
(* Promotion: the inductive invariant.                                     *)

VendorRow == [id : Nat, name : STRING]
RecordLine == [number : Nat, ordered : BOOLEAN]
PromotedRow ==
    [type : {"PO", "GRN", "INVOICE"}, number : Nat \ {NoNumber}, vendor : Nat, order : Nat,
     lines : SUBSET RecordLine]

\* The row refers to an order on record, or to none.
RowRefers(r) ==
    /\ r \in PromotedRow
    /\ r.type = "GRN" => r.order # NoNumber
    /\ r.order # NoNumber => OrderNumbered(r.order) # {}
    /\ \A l \in r.lines : l.ordered <=>
          \E o \in OrderNumbered(r.order) : \E m \in o.lines : m.number = l.number

\* Some paper of that name has as many lines.
Whole(r) ==
    \E e \in PaperDocuments : /\ Name(approved[e]) = Name(r)
                              /\ Cardinality(r.lines) = Len(approved[e].lines)

\* The vendor that request p has found or made.
VendorHeld(p, vendor) ==
    /\ p.made \subseteq VendorRow
    /\ \A v \in p.made : v.id = vendor /\ v.name = approved[p.of].vendor
    /\ IF approved[p.of].type = "GRN" THEN p.made = {}
       ELSE \E v \in vendorRows \union p.made : v.id = vendor

RequestInv(p) ==
    /\ p.pc \in {"idle", "begun", "looked", "placed"}
    /\ p.pc = "idle" <=> p = Waiting
    /\ p.pc # "idle" => p.of \in PaperDocuments
    /\ p.pc = "begun" => p.id \in Nat /\ p.made = {}
    /\ p.pc = "looked" => p.vendor \in Nat /\ VendorHeld(p, p.vendor)
    /\ p.pc = "placed" =>
          /\ p.found \in BOOLEAN
          /\ Name(p.row) = Name(approved[p.of])
          /\ p.found => p.row \in records /\ p.made = {}
          /\ ~p.found => /\ RowRefers(p.row) /\ VendorHeld(p, p.row.vendor)
                         /\ IsFiniteSet(p.row.lines)
                         /\ Cardinality(p.row.lines) <= Len(approved[p.of].lines)

RecordsInv ==
    /\ approved \in [PaperDocuments -> ApprovedForms]
    /\ vendorRows \subseteq VendorRow
    /\ begun \in 0..MaxPromotions
    /\ \A r \in records : /\ RowRefers(r) /\ Whole(r)
                          /\ r.type # "GRN" => r.vendor \in VendorIds

TasksInv ==
    /\ DOMAIN promotedTo = PaperDocuments
    /\ \A d \in PaperDocuments : promotedTo[d] # Unpromoted =>
          \E r \in records : Name(r) = promotedTo[d] /\ Name(r) = Name(approved[d])

RequestsInv ==
    /\ DOMAIN promotion = Promoters
    /\ \A s \in Promoters : RequestInv(promotion[s])

EarnedInv ==
    /\ overlapped \in BOOLEAN
    /\ VendorsAreEarned
    /\ ~overlapped => \A s \in Promoters : promotion[s] # Waiting =>
          /\ \A q \in Promoters : promotion[q] # Waiting => q = s
          /\ \A v \in promotion[s].made, w \in vendorRows : v.name # w.name

PromotionInv == RecordsInv /\ TasksInv /\ RequestsInv /\ EarnedInv

LEMMA PromotionConstants ==
    /\ MaxPromotions \in Nat
    /\ KnownVendors \subseteq VendorRow
    /\ ApprovedForms \subseteq PaperForm
BY PromotionAssumption DEF VendorRow

USE DEF NoNumber, NoVendor, NoName

\* The invariant is one of the initial states.
LEMMA PromotionStart == PromotionInit => PromotionInv
<1> SUFFICES ASSUME PromotionInit PROVE PromotionInv
    OBVIOUS
<1>1. RecordsInv
  <2>1. \A v \in KnownVendors : v \in VendorRow
      BY PromotionConstants DEF VendorRow
  <2>2. begun \in 0..MaxPromotions
      BY PromotionConstants DEF PromotionInit
  <2> QED
      BY <2>1, <2>2 DEF PromotionInit, RecordsInv
<1>2. TasksInv
    BY DEF PromotionInit, TasksInv
<1>3. RequestsInv
    BY DEF PromotionInit, RequestsInv, RequestInv, Waiting
<1>4. EarnedInv
    BY DEF PromotionInit, EarnedInv, VendorsAreEarned
<1> QED
    BY <1>1, <1>2, <1>3, <1>4 DEF PromotionInv

-----------------------------------------------------------------------------
(* Promotion: what stays.                                                  *)

\* A record with a name of its own leaves the orders that others refer to.
LEMMA OrdersStay ==
    ASSUME \A q \in records : q \in PromotedRow,
           NEW r \in PromotedRow, \A q \in records : Name(q) # Name(r),
           records' = records \union {r}
    PROVE  \A n : OrderNumbered(n) # {} \/ n = NoNumber => OrderNumbered(n)' = OrderNumbered(n)
<1> SUFFICES ASSUME NEW n, OrderNumbered(n) # {} \/ n = NoNumber
             PROVE  OrderNumbered(n)' = OrderNumbered(n)
    OBVIOUS
<1>1. ~(r.type = "PO" /\ r.number = n)
    BY DEF OrderNumbered, Orders, Name, PromotedRow
<1> QED
    BY <1>1 DEF OrderNumbered, Orders

\* What a row refers to stays on record, with its lines.
LEMMA ReferencesStay ==
    ASSUME \A q \in records : q \in PromotedRow,
           NEW r \in PromotedRow, \A q \in records : Name(q) # Name(r),
           records' = records \union {r}, NEW x, RowRefers(x)
    PROVE  RowRefers(x)'
<1>1. OrderNumbered(x.order)' = OrderNumbered(x.order)
    BY OrdersStay DEF RowRefers
<1> QED
    BY <1>1 DEF RowRefers

\* A request keeps what it has found while records and vendors are added.
LEMMA RequestStays ==
    ASSUME approved' = approved, vendorRows \subseteq vendorRows', records \subseteq records',
           \A x : RowRefers(x) => RowRefers(x)', NEW p, RequestInv(p)
    PROVE  RequestInv(p)'
<1>1. \A vendor : VendorHeld(p, vendor) => VendorHeld(p, vendor)'
    BY DEF VendorHeld
<1> QED
    BY <1>1 DEF RequestInv

\* The same for an action that adds none.
LEMMA RequestSame ==
    ASSUME UNCHANGED <<approved, vendorRows, records>>, NEW p, RequestInv(p)
    PROVE  RequestInv(p)'
<1>1. \A x : RowRefers(x) => RowRefers(x)'
    BY DEF RowRefers, OrderNumbered, Orders
<1> QED
    BY <1>1, RequestStays

\* An action that changes requests alone keeps what is on record.
LEMMA RecordsSame ==
    ASSUME PromotionInv, UNCHANGED <<approved, vendorRows, records, promotedTo>>,
           begun' \in 0..MaxPromotions
    PROVE  RecordsInv' /\ TasksInv'
BY DEF PromotionInv, RecordsInv, TasksInv, RowRefers, OrderNumbered, Orders, Whole, VendorIds

-----------------------------------------------------------------------------
(* Promotion: its steps.                                                   *)

LEMMA BeginPromotionStep ==
    ASSUME PromotionInv, NEW s \in Promoters, NEW d \in PaperDocuments, BeginPromotion(s, d)
    PROVE  PromotionInv'
<1>1. UNCHANGED <<approved, vendorRows, records, promotedTo>> /\ begun' \in 0..MaxPromotions
  <2>1. begun \in 0..MaxPromotions /\ begun < MaxPromotions /\ begun' = begun + 1
      BY DEF BeginPromotion, PromotionInv, RecordsInv
  <2> QED
      BY <2>1, PromotionConstants DEF BeginPromotion
<1>a. PICK p : p = [pc |-> "begun", id |-> begun', of |-> d, held |-> linked[d], made |-> {}]
    OBVIOUS
<1>2. RecordsInv' /\ TasksInv'
    BY <1>1, RecordsSame
<1>3. promotion' = [promotion EXCEPT ![s] = p] /\ promotion[s] = Waiting
    BY <1>a DEF BeginPromotion
<1>4. RequestInv(p)'
    BY <1>1, <1>a, PromotionConstants DEF RequestInv, Waiting
<1>5. p # Waiting /\ p.made = {}
    BY <1>a DEF Waiting
<1>6. RequestsInv'
    BY <1>1, <1>3, <1>4, RequestSame DEF PromotionInv, RequestsInv
<1>7. EarnedInv'
  <2>1. overlapped' = (overlapped \/ \E q \in Promoters : promotion[q] # Waiting)
      BY DEF BeginPromotion
  <2>2. VendorsAreEarned'
      BY <1>1, <2>1 DEF PromotionInv, EarnedInv, VendorsAreEarned
  <2> QED
      BY <1>1, <1>3, <1>5, <2>1, <2>2 DEF PromotionInv, EarnedInv, RequestsInv
<1> QED
    BY <1>2, <1>6, <1>7 DEF PromotionInv

\* A step of request s that gives it the state p and changes nothing else.
LEMMA RequestStep ==
    ASSUME PromotionInv, NEW s \in Promoters, promotion[s] # Waiting,
           NEW p, p # Waiting, RequestInv(p),
           ~overlapped => \A v \in p.made, w \in vendorRows : v.name # w.name,
           promotion' = [promotion EXCEPT ![s] = p],
           UNCHANGED <<approved, vendorRows, records, promotedTo, overlapped, begun>>
    PROVE  PromotionInv'
<1>1. RecordsInv' /\ TasksInv'
    BY RecordsSame DEF PromotionInv, RecordsInv
<1>2. RequestInv(p)'
    BY RequestSame
<1>3. RequestsInv'
    BY <1>2, RequestSame DEF PromotionInv, RequestsInv
<1>4. EarnedInv'
  <2>1. VendorsAreEarned'
      BY DEF PromotionInv, EarnedInv, VendorsAreEarned
  <2> QED
      BY <2>1 DEF PromotionInv, EarnedInv, RequestsInv
<1> QED
    BY <1>1, <1>3, <1>4 DEF PromotionInv

\* A vendor that is used is on record, or new with a name that none on record has.
LEMMA VendorFound ==
    ASSUME NEW s, NEW v \in VendorsFor(s)
    PROVE  \/ v \in vendorRows
           \/ /\ v = [id |-> promotion[s].id, name |-> Form(s).vendor]
              /\ \A w \in vendorRows : w.name # v.name
BY DEF VendorsFor

LEMMA LookUpStep ==
    ASSUME PromotionInv, NEW s \in Promoters, LookUp(s)
    PROVE  PromotionInv'
<1> DEFINE q == promotion[s]
<1>1. RequestInv(q) /\ q.pc = "begun" /\ q # Waiting /\ q.of \in PaperDocuments /\ q.id \in Nat
    BY DEF LookUp, PromotionInv, RequestsInv, RequestInv, Waiting
<1>2. UNCHANGED <<approved, vendorRows, records, promotedTo, overlapped, begun>>
    BY DEF LookUp
<1>3. Form(s) \in PaperForm /\ Form(s) = approved[q.of]
    BY <1>1, PromotionConstants DEF Form, PromotionInv, RecordsInv
<1>4. ASSUME NEW r \in Existing(s),
             promotion' = [promotion EXCEPT ![s] =
                    [pc |-> "placed", of |-> @.of, held |-> @.held, found |-> TRUE,
                     made |-> {}, row |-> r]]
      PROVE  PromotionInv'
  <2> DEFINE p == [pc |-> "placed", of |-> q.of, held |-> q.held, found |-> TRUE,
                   made |-> {}, row |-> r]
  <2>1. promotion' = [promotion EXCEPT ![s] = p]
      BY <1>4
  <2>2. RequestInv(p)
      BY <1>1, <1>3 DEF RequestInv, Existing, Waiting
  <2>3. p # Waiting /\ p.made = {}
      BY DEF Waiting
  <2> HIDE DEF p
  <2> QED
      BY <1>1, <1>2, <2>1, <2>2, <2>3, RequestStep
<1>5. ASSUME Form(s).type = "GRN",
             promotion' = [promotion EXCEPT ![s] =
                [pc |-> "looked", of |-> @.of, held |-> @.held, vendor |-> NoVendor,
                 made |-> {}]]
      PROVE  PromotionInv'
  <2> DEFINE p == [pc |-> "looked", of |-> q.of, held |-> q.held, vendor |-> NoVendor,
                   made |-> {}]
  <2>1. promotion' = [promotion EXCEPT ![s] = p]
      BY <1>5
  <2>2. RequestInv(p)
      BY <1>1, <1>3, <1>5 DEF RequestInv, VendorHeld, Waiting
  <2>3. p # Waiting /\ p.made = {}
      BY DEF Waiting
  <2> HIDE DEF p
  <2> QED
      BY <1>1, <1>2, <2>1, <2>2, <2>3, RequestStep
<1>6. ASSUME Form(s).type # "GRN", NEW v \in VendorsFor(s),
             promotion' = [promotion EXCEPT ![s] =
                    [pc |-> "looked", of |-> @.of, held |-> @.held, vendor |-> v.id,
                     made |-> {v} \ vendorRows]]
      PROVE  PromotionInv'
  <2> DEFINE p == [pc |-> "looked", of |-> q.of, held |-> q.held, vendor |-> v.id,
                   made |-> {v} \ vendorRows]
  <2>1. promotion' = [promotion EXCEPT ![s] = p]
      BY <1>6
  <2>2. v \in VendorRow /\ (v \in vendorRows \/ (/\ v.name = Form(s).vendor
                                                  /\ \A w \in vendorRows : w.name # v.name))
      BY <1>1, <1>3, VendorFound DEF VendorRow, PromotionInv, RecordsInv, PaperForm
  <2>3. VendorHeld(p, v.id)
      BY <1>3, <1>6, <2>2 DEF VendorHeld
  <2>4. RequestInv(p)
      BY <1>1, <2>2, <2>3 DEF RequestInv, Waiting, VendorRow
  <2>5. p # Waiting /\ \A u \in p.made, w \in vendorRows : u.name # w.name
      BY <2>2 DEF Waiting
  <2> HIDE DEF p
  <2> QED
      BY <1>1, <1>2, <2>1, <2>4, <2>5, RequestStep
<1> QED
    BY <1>4, <1>5, <1>6 DEF LookUp

\* What LinesOf returns: a line for each number of the paper, at most as many as it
\* has lines, that says whether the order has one of that number.
LEMMA LinesRefer ==
    ASSUME NEW lines \in Seq(Nat), NEW order
    PROVE  /\ LinesOf(lines, order) \subseteq RecordLine
           /\ \A l \in LinesOf(lines, order) : l.ordered <=>
                 \E o \in order : \E m \in o.lines : m.number = l.number
           /\ IsFiniteSet(LinesOf(lines, order))
           /\ Cardinality(LinesOf(lines, order)) <= Len(lines)
<1> DEFINE T == LinesOf(lines, order)
           line(i) == [number |-> LineNumber(lines, i),
                       ordered |-> \E o \in order : \E m \in o.lines :
                                      m.number = LineNumber(lines, i)]
           f == [i \in 1..Len(lines) |-> line(i)]
<1>1. \A i \in 1..Len(lines) : LineNumber(lines, i) \in Nat
    BY DEF LineNumber
<1>2. T = {line(i) : i \in 1..Len(lines)}
    BY DEF LinesOf
<1>3. \A i \in 1..Len(lines) : /\ line(i) \in RecordLine
                               /\ line(i).ordered <=> \E o \in order : \E m \in o.lines :
                                                         m.number = line(i).number
    BY <1>1 DEF RecordLine
<1> HIDE DEF line
<1>4. f \in Surjection(1..Len(lines), T)
    BY <1>2 DEF Surjection
<1> HIDE DEF f, T
<1>5. /\ IsFiniteSet(T)
      /\ Cardinality(T) <= Cardinality(1..Len(lines))
      /\ Cardinality(1..Len(lines)) = Len(lines)
  <2>1. Len(lines) \in Nat
      OBVIOUS
  <2>a. ASSUME NEW n \in Nat
        PROVE  IsFiniteSet(1..n) /\ Cardinality(1..n) = n
    <3>1. /\ IsFiniteSet(1..n)
          /\ Cardinality(1..n) = IF 1 > n THEN 0 ELSE n - 1 + 1
        BY FS_Interval, 1 \in Int, n \in Int
    <3> QED
        BY <3>1
  <2>2. IsFiniteSet(1..Len(lines)) /\ Cardinality(1..Len(lines)) = Len(lines)
      BY <2>1, <2>a
  <2> QED
      BY <2>2, <1>4, FS_Surjection
<1> QED
    BY <1>2, <1>3, <1>5 DEF T

\* The order of a record is on record under its number, or there is none.
LEMMA OrderFound ==
    ASSUME PromotionInv, NEW s, OrderFor(s) # {}
    PROVE  LET o == CHOOSE o \in OrderFor(s) : TRUE
           IN  o.number \in Nat \ {NoNumber} /\ OrderNumbered(o.number) = OrderFor(s)
<1>1. PICK n : OrderFor(s) = OrderNumbered(n)
    BY DEF OrderFor
<1> DEFINE o == CHOOSE o \in OrderFor(s) : TRUE
<1>2. o \in OrderNumbered(n)
    BY <1>1
<1>3. o.number = n /\ o \in records
    BY <1>2 DEF OrderNumbered, Orders
<1>4. o.number \in Nat \ {NoNumber}
    BY <1>3 DEF PromotionInv, RecordsInv, RowRefers, PromotedRow
<1> QED
    BY <1>1, <1>3, <1>4

\* No order has no number.
LEMMA NoOrderIsNumbered == ASSUME PromotionInv PROVE OrderNumbered(NoNumber) = {}
BY DEF PromotionInv, RecordsInv, RowRefers, PromotedRow, OrderNumbered, Orders

LEMMA PlaceStep ==
    ASSUME PromotionInv, NEW s \in Promoters, Place(s)
    PROVE  PromotionInv'
<1> DEFINE q == promotion[s]
           form == Form(s)
           order == IF form.type = "PO" THEN {} ELSE OrderFor(s)
           number == IF order = {} THEN NoNumber ELSE (CHOOSE o \in order : TRUE).number
           row == [type |-> form.type, number |-> form.number, vendor |-> q.vendor,
                   order |-> number, lines |-> LinesOf(form.lines, order)]
           p == [pc |-> "placed", of |-> q.of, held |-> q.held, found |-> FALSE,
                 made |-> q.made, row |-> row]
<1>1. /\ q.pc = "looked" /\ (form.type = "GRN" => order # {})
      /\ promotion' = [promotion EXCEPT ![s] = p]
      /\ UNCHANGED <<approved, vendorRows, records, promotedTo, overlapped, begun>>
    BY DEF Place
<1>2. RequestInv(q)
    BY DEF PromotionInv, RequestsInv
<1>3. q # Waiting /\ q.of \in PaperDocuments /\ q.vendor \in Nat /\ VendorHeld(q, q.vendor)
    BY <1>1, <1>2 DEF RequestInv, Waiting
<1>4. form \in PaperForm /\ form = approved[q.of]
    BY <1>3, PromotionConstants DEF Form, PromotionInv, RecordsInv
<1>5. /\ number \in Nat /\ OrderNumbered(number) = order
      /\ number # NoNumber <=> order # {}
    BY OrderFound, NoOrderIsNumbered
<1>6. /\ LinesOf(form.lines, order) \subseteq RecordLine
      /\ \A l \in LinesOf(form.lines, order) : l.ordered <=>
            \E o \in order : \E m \in o.lines : m.number = l.number
      /\ IsFiniteSet(LinesOf(form.lines, order))
      /\ Cardinality(LinesOf(form.lines, order)) <= Len(form.lines)
    BY <1>4, LinesRefer DEF PaperForm
<1>7. row \in PromotedRow
    BY <1>3, <1>4, <1>5, <1>6 DEF PromotedRow, PaperForm
<1>8. /\ row.order = number /\ row.type = form.type /\ row.vendor = q.vendor
      /\ row.number = form.number /\ row.lines = LinesOf(form.lines, order)
    OBVIOUS
<1>9. p # Waiting /\ p.made = q.made /\ p.pc = "placed" /\ p.found = FALSE /\ p.of = q.of
      /\ p.row = row
    BY DEF Waiting
<1> HIDE DEF p, row, number, order, form
<1>10. RowRefers(row)
    BY <1>1, <1>5, <1>6, <1>7, <1>8 DEF RowRefers
<1>11. VendorHeld(p, row.vendor)
    BY <1>3, <1>8, <1>9 DEF VendorHeld
<1>12. Name(row) = Name(approved[p.of])
    BY <1>4, <1>8, <1>9 DEF Name
<1>13. IsFiniteSet(row.lines) /\ Cardinality(row.lines) <= Len(approved[p.of].lines)
    BY <1>4, <1>6, <1>8, <1>9
<1>14. RequestInv(p)
    BY <1>3, <1>9, <1>10, <1>11, <1>12, <1>13 DEF RequestInv
<1>15. ~overlapped => \A v \in p.made, w \in vendorRows : v.name # w.name
    BY <1>3, <1>9 DEF PromotionInv, EarnedInv
<1> QED
    BY <1>1, <1>3, <1>9, <1>14, <1>15, RequestStep

\* The end of a request that leaves vendors and records as they are.
LEMMA AbandonPromotionStep ==
    ASSUME PromotionInv, NEW s \in Promoters, AbandonPromotion(s)
    PROVE  PromotionInv'
<1>1. /\ UNCHANGED <<approved, vendorRows, records, promotedTo, overlapped, begun>>
      /\ promotion' = [promotion EXCEPT ![s] = Waiting]
    BY DEF AbandonPromotion, LeftBy
<1>2. RecordsInv' /\ TasksInv'
    BY <1>1, RecordsSame DEF PromotionInv, RecordsInv
<1>3. RequestInv(Waiting)'
    BY DEF RequestInv, Waiting
<1>4. RequestsInv'
    BY <1>1, <1>3, RequestSame DEF PromotionInv, RequestsInv
<1>5. EarnedInv'
  <2>1. VendorsAreEarned'
      BY <1>1 DEF PromotionInv, EarnedInv, VendorsAreEarned
  <2> QED
      BY <1>1, <2>1 DEF PromotionInv, EarnedInv, RequestsInv
<1> QED
    BY <1>2, <1>4, <1>5 DEF PromotionInv

\* Steps that leave all that the invariant speaks of.
LEMMA AssociateStep ==
    ASSUME PromotionInv,
           UNCHANGED <<approved, vendorRows, records, promotedTo, promotion, overlapped, begun>>
    PROVE  PromotionInv'
<1>1. RecordsInv' /\ TasksInv'
    BY RecordsSame DEF PromotionInv, RecordsInv
<1>2. RequestsInv'
    BY RequestSame DEF PromotionInv, RequestsInv
<1>3. EarnedInv'
    BY DEF PromotionInv, EarnedInv, VendorsAreEarned
<1> QED
    BY <1>1, <1>2, <1>3 DEF PromotionInv

\* The commit of a record: the row it adds, or finds.
LEMMA WritePromotionStep ==
    ASSUME PromotionInv, NEW s \in Promoters, WritePromotion(s)
    PROVE  PromotionInv'
<1>a. PICK p : p = promotion[s]
    OBVIOUS
<1>b. PICK paper : paper = approved[p.of]
    OBVIOUS
<1>1. /\ p.pc = "placed" /\ ~Refused(s)
      /\ vendorRows' = vendorRows \union p.made
      /\ records' = IF p.found THEN records ELSE records \union {p.row}
      /\ promotedTo' = [promotedTo EXCEPT ![p.of] = Name(p.row)]
      /\ promotion' = [promotion EXCEPT ![s] = Waiting]
      /\ UNCHANGED <<approved, overlapped, begun>>
    BY <1>a DEF WritePromotion
<1>2. RequestInv(p)
    BY <1>a DEF PromotionInv, RequestsInv
<1>3. /\ p.of \in PaperDocuments /\ p # Waiting /\ p.found \in BOOLEAN
      /\ Name(p.row) = Name(paper)
      /\ p.found => p.row \in records /\ p.made = {}
      /\ ~p.found => /\ RowRefers(p.row) /\ VendorHeld(p, p.row.vendor)
                     /\ IsFiniteSet(p.row.lines)
                     /\ Cardinality(p.row.lines) <= Len(paper.lines)
    BY <1>1, <1>2, <1>b DEF RequestInv, Waiting
<1>4. paper \in PaperForm
    BY <1>3, <1>b, PromotionConstants DEF PromotionInv, RecordsInv
<1>5. ~p.found => /\ \A q \in records : Name(q) # Name(p.row)
                  /\ Cardinality(p.row.lines) = Len(paper.lines)
  <2> SUFFICES ASSUME ~p.found
               PROVE  /\ \A q \in records : Name(q) # Name(p.row)
                      /\ Cardinality(p.row.lines) = Len(paper.lines)
      OBVIOUS
  <2>1. Existing(s) = {} /\ ~(Cardinality(p.row.lines) < Len(paper.lines))
      BY <1>1, <1>a, <1>b DEF Refused, Form
  <2>2. \A q \in records : Name(q) # Name(p.row)
      BY <2>1, <1>3, <1>a, <1>b DEF Existing, Form
  <2>3. Cardinality(p.row.lines) \in Nat
      BY <1>3, FS_CardinalityType
  <2>4. Len(paper.lines) \in Nat
      BY <1>4 DEF PaperForm
  <2> QED
      BY <1>3, <2>1, <2>2, <2>3, <2>4
<1>6. /\ vendorRows \subseteq vendorRows' /\ records \subseteq records' /\ p.row \in records'
      /\ p.made \subseteq VendorRow
    BY <1>1, <1>3 DEF VendorHeld
<1>7. \A x : RowRefers(x) => RowRefers(x)'
  <2>1. CASE p.found
      BY <2>1, <1>1 DEF RowRefers, OrderNumbered, Orders
  <2>2. CASE ~p.found
    <3>1. \A q \in records : q \in PromotedRow
        BY DEF PromotionInv, RecordsInv, RowRefers
    <3>2. p.row \in PromotedRow
        BY <2>2, <1>3 DEF RowRefers
    <3> QED
        BY <1>1, <1>5, <2>2, <3>1, <3>2, ReferencesStay
  <2> QED
      BY <2>1, <2>2
<1>8. RecordsInv'
  <2>1. \A r \in records : RowRefers(r)' /\ Whole(r)' /\ (r.type # "GRN" => r.vendor \in VendorIds')
    <3>1. VendorIds \subseteq VendorIds'
        BY <1>6 DEF VendorIds
    <3>2. \A r : Whole(r)' <=> Whole(r)
        BY <1>1 DEF Whole
    <3> QED
        BY <1>7, <3>1, <3>2 DEF PromotionInv, RecordsInv
  <2>2. ASSUME ~p.found
        PROVE  /\ RowRefers(p.row)' /\ Whole(p.row)'
               /\ p.row.type # "GRN" => p.row.vendor \in VendorIds'
    <3>1. RowRefers(p.row)'
        BY <2>2, <1>3, <1>7
    <3>2. Whole(p.row)'
        BY <2>2, <1>1, <1>3, <1>5, <1>b DEF Whole
    <3>3. p.row.type # "GRN" => p.row.vendor \in VendorIds'
        BY <2>2, <1>1, <1>3, <1>b DEF VendorHeld, VendorIds, Name
    <3> QED
        BY <3>1, <3>2, <3>3
  <2>3. approved' \in [PaperDocuments -> ApprovedForms] /\ vendorRows' \subseteq VendorRow
        /\ begun' \in 0..MaxPromotions
      BY <1>1, <1>6 DEF PromotionInv, RecordsInv
  <2> QED
      BY <1>1, <1>3, <2>1, <2>2, <2>3 DEF RecordsInv
<1>9. TasksInv'
    BY <1>1, <1>3, <1>6, <1>b DEF PromotionInv, TasksInv
<1>10. RequestsInv'
  <2>1. RequestInv(Waiting)'
      BY DEF RequestInv, Waiting
  <2>2. \A q : RequestInv(q) => RequestInv(q)'
      BY <1>1, <1>6, <1>7, RequestStays
  <2> QED
      BY <1>1, <2>1, <2>2 DEF PromotionInv, RequestsInv
<1>11. EarnedInv'
  <2>1. \A v \in vendorRows' \ KnownVendors : \E r \in records' : r.vendor = v.id
      BY <1>1, <1>3, <1>6, <1>a DEF PromotionInv, EarnedInv, VendorsAreEarned, VendorHeld
  <2>2. \A v \in p.made : p.made = {v}
    <3>1. \A v, w \in p.made : v = w
        BY <1>3, <1>6 DEF VendorHeld, VendorRow
    <3> QED
        BY <3>1
  <2>3. ~overlapped => \A v \in vendorRows' \ KnownVendors, w \in vendorRows' :
                           v.name = w.name => v = w
      BY <1>1, <1>3, <2>2, <1>a DEF PromotionInv, EarnedInv, VendorsAreEarned
  <2>4. VendorsAreEarned'
      BY <1>1, <2>1, <2>3 DEF VendorsAreEarned
  <2>5. ~overlapped => \A q \in Promoters : promotion'[q] = Waiting
      BY <1>1, <1>3, <1>a DEF PromotionInv, EarnedInv, RequestsInv
  <2> QED
      BY <1>1, <2>4, <2>5 DEF EarnedInv, PromotionInv
<1> QED
    BY <1>8, <1>9, <1>10, <1>11 DEF PromotionInv

-----------------------------------------------------------------------------
(* Promotion: the theorem.                                                 *)

\* The invariant gives the property: a task names a record of its paper, and that
\* has the lines of a paper of its name.
LEMMA PromotionInvIsEnough == PromotionInv => PromotedIsWhole
<1> SUFFICES ASSUME PromotionInv PROVE PromotedIsWhole
    OBVIOUS
<1>1. PromotionTypeOK
  <2>1. \A v \in vendorRows : v.id \in Nat /\ v.name \in STRING
      BY DEF PromotionInv, RecordsInv, VendorRow
  <2>2. \A r \in records : /\ r.type \in {"PO", "GRN", "INVOICE"}
                           /\ \A l \in r.lines : l.number \in Nat /\ l.ordered \in BOOLEAN
      BY DEF PromotionInv, RecordsInv, RowRefers, PromotedRow, RecordLine
  <2>3. \A d \in PaperDocuments : \/ promotedTo[d] = Unpromoted
                                  \/ promotedTo[d] \in {Name(r) : r \in records}
      BY DEF PromotionInv, TasksInv
  <2>4. \A s \in Promoters : promotion[s].pc \in {"idle", "begun", "looked", "placed"}
      BY DEF PromotionInv, RequestsInv, RequestInv
  <2> QED
      BY <2>1, <2>2, <2>3, <2>4 DEF PromotionTypeOK, PromotionInv, RecordsInv
<1>2. RefersInside
    BY DEF PromotionInv, RecordsInv, RowRefers, RefersInside
<1>3. NamesItsRecord
    BY DEF PromotionInv, RecordsInv, TasksInv, Whole, NamesItsRecord
<1>4. VendorsAreEarned
    BY DEF PromotionInv, EarnedInv
<1> QED
    BY <1>1, <1>2, <1>3, <1>4 DEF PromotedIsWhole

\* What promotions leave (PromotionService, app/services/promotion_service.py),
\* for every number of documents, requests, vendors and faults: a record has its
\* vendor or its order, and its lines refer to exactly the lines of that order that
\* have their numbers; a task that was promoted names the record of its paper, with
\* a line for each of the paper's; and a vendor that was made has a record.
THEOREM PromotedRecordsAreWhole == PromotionSpec => []PromotedIsWhole
<1>1. PromotionInit => PromotionInv
    BY PromotionStart
<1>2. PromotionInv /\ [PromotionNext]_promotionVars => PromotionInv'
  <2> SUFFICES ASSUME PromotionInv, [PromotionNext]_promotionVars
               PROVE  PromotionInv'
      OBVIOUS
  <2>1. ASSUME NEW s \in Promoters, NEW d \in PaperDocuments, BeginPromotion(s, d)
        PROVE  PromotionInv'
      BY <2>1, BeginPromotionStep
  <2>2. ASSUME NEW s \in Promoters, LookUp(s) PROVE PromotionInv'
      BY <2>2, LookUpStep
  <2>3. ASSUME NEW s \in Promoters, Place(s) PROVE PromotionInv'
      BY <2>3, PlaceStep
  <2>4. ASSUME NEW s \in Promoters, WritePromotion(s) PROVE PromotionInv'
      BY <2>4, WritePromotionStep
  <2>5. ASSUME NEW s \in Promoters, AbandonPromotion(s) PROVE PromotionInv'
      BY <2>5, AbandonPromotionStep
  <2>6. ASSUME NEW d \in PaperDocuments, NEW v, NEW n, AssociateRecords(d, v, n)
        PROVE  PromotionInv'
      BY <2>6, AssociateStep DEF AssociateRecords
  <2>7. CASE UNCHANGED promotionVars
      BY <2>7, AssociateStep DEF promotionVars
  <2> QED
      BY <2>1, <2>2, <2>3, <2>4, <2>5, <2>6, <2>7 DEF PromotionNext
<1> QED
    BY <1>1, <1>2, PromotionInvIsEnough, PTL DEF PromotionSpec

-----------------------------------------------------------------------------
(* Procurement: the inductive invariant.                                   *)

OneDraftEach(drafts) == \A c, d \in drafts : Fingerprint(c) = Fingerprint(d) => c = d

IsDraft(d) == d = Draft(d.type, d.rule, d.order, d.parts) /\ d.type \in DOMAIN Severity

\* An id is that of one document.
DocumentsInv ==
    /\ vendors \subseteq Vendors
    /\ orders \subseteq OrderForms /\ receipts \subseteq ReceiptForms
    /\ invoices \subseteq InvoiceForms
    /\ \A p, q \in orders : p.id = q.id => p = q
    /\ \A v, w \in invoices : v.id = w.id => v = w
    /\ status \in [Ids(invoices) -> InvoiceStatuses]
    /\ DOMAIN last \subseteq Ids(invoices)

RowsInv ==
    /\ \A e \in exception : e = [draft |-> e.draft, run |-> e.run] /\ IsDraft(e.draft)
    /\ \A e, f \in exception : Fingerprint(e.draft) = Fingerprint(f.draft) => e = f
    /\ \A d \in reported : HasRow(d)

\* What a run holds; a draft it does not insert has its row, and keeps it.
RunInv(u) ==
    /\ u = [pc |-> u.pc, picked |-> u.picked, held |-> u.held, drafts |-> u.drafts, new |-> u.new]
    /\ u.pc \in {"idle", "loaded", "flushing"}
    /\ u.picked \in Ids(invoices) \union {NoPick} /\ u.held \in InvoiceStatuses
    /\ u.new \subseteq u.drafts
    /\ \A d \in u.drafts : IsDraft(d)
    /\ OneDraftEach(u.drafts)
    /\ u.pc = "flushing" => \A d \in u.drafts \ u.new : HasRow(d)

RunsInv == DOMAIN run = Reconcilers /\ runs \in Nat /\ \A r \in Reconcilers : RunInv(run[r])

\* As long as runs do not overlap, what the one in progress has loaded is current.
OutcomeInv ==
    /\ overlap \in BOOLEAN
    /\ LastOutcomeStands
    /\ ~overlap => \A r \in Reconcilers : run[r].pc # "idle" =>
          /\ \A q \in Reconcilers : run[q].pc # "idle" => q = r
          /\ run[r].picked # NoPick => run[r].held = status[run[r].picked]

ProcInv == DocumentsInv /\ RowsInv /\ RunsInv /\ OutcomeInv

-----------------------------------------------------------------------------
(* Procurement: the drafts of a run.                                       *)

OneOrNone(docs) == \A x, y \in docs : x = y

\* The order that a draft refers to follows from the rule it is of.
OrderOf(in, type, rule) ==
    CASE type = "MISSING_DOCUMENT" ->
            IF rule = "PO" \/ in.order = {} THEN NoRef ELSE (CHOOSE p \in in.order : TRUE).id
      [] type = "DUPLICATE_INVOICE" -> (CHOOSE v \in in.invoice : TRUE).order
      [] OTHER -> (CHOOSE p \in in.order : TRUE).id

DraftOf(in, d) == IsDraft(d) /\ d.order = OrderOf(in, d.type, d.rule)

\* A draft is what it is made of.
LEMMA DraftIsOne ==
    ASSUME NEW in, NEW type \in DOMAIN Severity, NEW rule, NEW parts
    PROVE  DraftOf(in, Draft(type, rule, OrderOf(in, type, rule), parts))
BY DEF DraftOf, IsDraft, Draft

LEMMA MissingAreDrafts == ASSUME NEW in PROVE \A d \in MissingDocuments(in) : DraftOf(in, d)
<1> DEFINE missing(what, orderSet, receiptSet, invoiceSet) ==
              Draft("MISSING_DOCUMENT", what,
                    IF orderSet = {} THEN NoRef ELSE (CHOOSE p \in orderSet : TRUE).id,
                    Label("order", orderSet) \union Label("invoice", invoiceSet)
                        \union Label("receipt", receiptSet))
<1>1. "MISSING_DOCUMENT" \in DOMAIN Severity
    BY DEF Severity
<1>2. \A receiptSet, invoiceSet : DraftOf(in, missing("PO", {}, receiptSet, invoiceSet))
    BY <1>1, DraftIsOne DEF OrderOf
<1>3. \A what, receiptSet, invoiceSet : what # "PO" =>
          DraftOf(in, missing(what, in.order, receiptSet, invoiceSet))
    BY <1>1, DraftIsOne DEF OrderOf
<1> HIDE DEF missing
<1>4. \A what, orderSet, receiptSet, invoiceSet :
          Missing(what, orderSet, receiptSet, invoiceSet)
              = {missing(what, orderSet, receiptSet, invoiceSet)}
    BY DEF Missing, missing
<1> QED
    BY <1>2, <1>3, <1>4 DEF MissingDocuments

LEMMA DuplicatesAreDrafts ==
    ASSUME NEW in, OneOrNone(in.invoice), NEW v \in in.invoice
    PROVE  \A d \in DuplicateExceptions(v, in.others) : DraftOf(in, d)
<1>1. v = CHOOSE w \in in.invoice : TRUE
    BY DEF OneOrNone
<1>2. v.order = OrderOf(in, "DUPLICATE_INVOICE", "identity")
    BY <1>1 DEF OrderOf
<1>3. "DUPLICATE_INVOICE" \in DOMAIN Severity
    BY DEF Severity
<1>4. \A parts : DraftOf(in, Draft("DUPLICATE_INVOICE", "identity", v.order, parts))
    BY <1>2, <1>3, DraftIsOne
<1> QED
    BY <1>4 DEF DuplicateExceptions

\* What is found against the order refers to the order.
LEMMA OrderDraftsAreDrafts ==
    ASSUME NEW in, OneOrNone(in.order), NEW p \in in.order
    PROVE  \A d \in AgainstOrder(p, in) : DraftOf(in, d)
<1>1. p = CHOOSE q \in in.order : TRUE
    BY DEF OneOrNone
<1> DEFINE types == {"IDENTIFIER_MISMATCH", "QUANTITY_MISMATCH", "PRICE_MISMATCH", "TAX_MISMATCH",
                     "DATE_MISMATCH"}
<1>2. \A type \in types : \A rule, parts : DraftOf(in, Draft(type, rule, p.id, parts))
  <2> SUFFICES ASSUME NEW type \in types, NEW rule, NEW parts
               PROVE  DraftOf(in, Draft(type, rule, p.id, parts))
      OBVIOUS
  <2>1. type \in DOMAIN Severity
      BY DEF Severity
  <2>2. p.id = OrderOf(in, type, rule)
      BY <1>1 DEF OrderOf
  <2> QED
      BY <2>1, <2>2, DraftIsOne
<1>3. \A kind, docs : \A d \in HeaderMismatches(p, kind, docs) : DraftOf(in, d)
    BY <1>2 DEF HeaderMismatches
<1>4. \A kind, docs : \A d \in EarlyDocuments(p, kind, docs) : DraftOf(in, d)
    BY <1>2 DEF EarlyDocuments
<1>5. \A kind, doc : \A d \in Unmatched(p, kind, doc) : DraftOf(in, d)
    BY <1>2 DEF Unmatched
<1>6. ASSUME NEW v, NEW tolerance, NEW type \in {"PRICE_MISMATCH", "TAX_MISMATCH"},
             NEW d \in AmountMismatches(p, v, type, tolerance)
      PROVE  DraftOf(in, d)
  <2>1. PICK parts : d = Draft(type, "line", p.id, parts)
      BY DEF AmountMismatches
  <2> QED
      BY <1>2, <2>1
<1>7. \A v, docs, l, tolerance :
          \A d \in QuantityExceptions(p, v, docs, l, tolerance) : DraftOf(in, d)
    BY <1>2 DEF QuantityExceptions
<1>8. \A v : \A d \in UNION {QuantityExceptions(p, v, in.receipts, l, in.config.quantity) :
                               l \in p.lines} : DraftOf(in, d)
    BY <1>7
<1> DEFINE quantities(v) ==
              UNION {QuantityExceptions(p, v, in.receipts, l, in.config.quantity) : l \in p.lines}
           ofInvoice(v) ==
              Unmatched(p, "invoice", v)
              \union AmountMismatches(p, v, "PRICE_MISMATCH", in.config.price)
              \union AmountMismatches(p, v, "TAX_MISMATCH", in.config.tax)
              \union (IF in.receipts = {} THEN {} ELSE quantities(v))
<1>9. \A v : \A d \in ofInvoice(v) : DraftOf(in, d)
  <2> HIDE DEF quantities
  <2>1. \A v : \A d \in quantities(v) : DraftOf(in, d)
      BY <1>8 DEF quantities
  <2>2. ASSUME NEW v, NEW d \in ofInvoice(v) PROVE DraftOf(in, d)
    <3>1. \/ d \in Unmatched(p, "invoice", v)
          \/ d \in AmountMismatches(p, v, "PRICE_MISMATCH", in.config.price)
          \/ d \in AmountMismatches(p, v, "TAX_MISMATCH", in.config.tax)
          \/ d \in quantities(v)
        BY <2>2
    <3> QED
        BY <3>1, <1>5, <1>6, <2>1
  <2> QED
      BY <2>2
<1>a. AgainstOrder(p, in) =
          HeaderMismatches(p, "receipt", in.receipts)
          \union HeaderMismatches(p, "invoice", in.invoice)
          \union EarlyDocuments(p, "receipt", in.receipts)
          \union EarlyDocuments(p, "invoice", in.invoice)
          \union (UNION {Unmatched(p, "receipt", g) : g \in in.receipts})
          \union UNION {ofInvoice(v) : v \in in.invoice}
    BY DEF AgainstOrder
<1>10. ASSUME NEW d \in AgainstOrder(p, in) PROVE DraftOf(in, d)
  <2> HIDE DEF ofInvoice
  <2>1. \/ d \in HeaderMismatches(p, "receipt", in.receipts)
        \/ d \in HeaderMismatches(p, "invoice", in.invoice)
        \/ d \in EarlyDocuments(p, "receipt", in.receipts)
        \/ d \in EarlyDocuments(p, "invoice", in.invoice)
        \/ d \in UNION {Unmatched(p, "receipt", g) : g \in in.receipts}
        \/ d \in UNION {ofInvoice(v) : v \in in.invoice}
      BY <1>10, <1>a
  <2>2. CASE d \in UNION {Unmatched(p, "receipt", g) : g \in in.receipts}
      BY <2>2, <1>5
  <2>3. CASE d \in UNION {ofInvoice(v) : v \in in.invoice}
      BY <2>3, <1>9
  <2> QED
      BY <1>3, <1>4, <2>1, <2>2, <2>3
<1> QED
    BY <1>10

\* _dedupe_drafts has nothing to do: for one order and one invoice, a rule finds a
\* fact once.
LEMMA FactsAreFoundOnce ==
    ASSUME NEW in, OneOrNone(in.order), OneOrNone(in.invoice)
    PROVE  (\A d \in Drafts(in) : IsDraft(d)) /\ OneDraftEach(Drafts(in))
<1>1. \A d \in Missing("PO", {}, {}, {}) : DraftOf(in, d)
  <2>1. "MISSING_DOCUMENT" \in DOMAIN Severity
      BY DEF Severity
  <2> QED
      BY <2>1, DraftIsOne DEF Missing, OrderOf
<1>2. ASSUME NEW d \in Drafts(in) PROVE DraftOf(in, d)
  <2>1. \/ d \in Missing("PO", {}, {}, {})
        \/ d \in MissingDocuments(in)
        \/ \E v \in in.invoice : d \in DuplicateExceptions(v, in.others)
        \/ \E p \in in.order : d \in AgainstOrder(p, in)
    <3>1. CASE in.order = {} /\ in.invoice = {} /\ in.receipts = {}
        BY <1>2, <3>1 DEF Drafts
    <3>2. CASE ~(in.order = {} /\ in.invoice = {} /\ in.receipts = {})
      <4>1. Drafts(in) = MissingDocuments(in)
                         \union (UNION {DuplicateExceptions(v, in.others) : v \in in.invoice})
                         \union UNION {AgainstOrder(p, in) : p \in in.order}
          BY <3>2 DEF Drafts
      <4>2. \/ d \in MissingDocuments(in)
            \/ d \in UNION {DuplicateExceptions(v, in.others) : v \in in.invoice}
            \/ d \in UNION {AgainstOrder(p, in) : p \in in.order}
          BY <1>2, <4>1
      <4> QED
          BY <4>2
    <3> QED
        BY <3>1, <3>2
  <2> QED
      BY <1>1, <2>1, MissingAreDrafts, DuplicatesAreDrafts, OrderDraftsAreDrafts
<1>3. \A c, d : DraftOf(in, c) /\ DraftOf(in, d) /\ Fingerprint(c) = Fingerprint(d) => c = d
    BY DEF DraftOf, IsDraft, Fingerprint
<1> QED
    BY <1>2, <1>3 DEF DraftOf, OneDraftEach

-----------------------------------------------------------------------------
(* Procurement: the rows that a commit leaves.                             *)

\* Another order in a row changes none of what its fingerprint is made of.
LEMMA RowIsKept ==
    ASSUME NEW e, e = [draft |-> e.draft, run |-> e.run], IsDraft(e.draft), NEW order
    PROVE  LET f == [e EXCEPT !.draft.order = order]
           IN  /\ f = [draft |-> f.draft, run |-> f.run] /\ IsDraft(f.draft)
               /\ Fingerprint(f.draft) = Fingerprint(e.draft)
<1> DEFINE d == Draft(e.draft.type, e.draft.rule, order, e.draft.parts)
           f == [e EXCEPT !.draft.order = order]
<1>1. [e.draft EXCEPT !.order = order] = d
    BY DEF IsDraft, Draft
<1>2. f = [draft |-> d, run |-> e.run]
    BY <1>1
<1>3. IsDraft(d) /\ Fingerprint(d) = Fingerprint(e.draft)
    BY DEF IsDraft, Draft, Fingerprint
<1> HIDE DEF d, f
<1> QED
    BY <1>2, <1>3 DEF f

\* A fact that has a row keeps one, what is inserted gets one, and none gets two.
LEMMA UpsertedRows ==
    ASSUME NEW r \in Reconcilers, RunInv(run[r]), ~Taken(r), exception' = Upserted(r),
           \A e \in exception : e = [draft |-> e.draft, run |-> e.run] /\ IsDraft(e.draft),
           \A e, f \in exception : Fingerprint(e.draft) = Fingerprint(f.draft) => e = f
    PROVE  /\ \A e \in exception' : e = [draft |-> e.draft, run |-> e.run] /\ IsDraft(e.draft)
           /\ \A e, f \in exception' : Fingerprint(e.draft) = Fingerprint(f.draft) => e = f
           /\ \A d : HasRow(d) => HasRow(d)'
           /\ \A d \in run[r].new : HasRow(d)'
<1> DEFINE order(e) == LET again == {d \in run[r].drafts \ run[r].new :
                                         Fingerprint(d) = Fingerprint(e.draft)}
                       IN  IF again = {} THEN e.draft.order
                           ELSE (CHOOSE d \in again : TRUE).order
           kept(e) == [e EXCEPT !.draft.order = order(e)]
           row(d) == [draft |-> d, run |-> r]
           new == run[r].new
<1>1. exception' = {kept(e) : e \in exception} \union {row(d) : d \in new}
    BY DEF Upserted
<1>2. \A e \in exception : /\ kept(e) = [draft |-> kept(e).draft, run |-> kept(e).run]
                           /\ IsDraft(kept(e).draft)
                           /\ Fingerprint(kept(e).draft) = Fingerprint(e.draft)
  <2> HIDE DEF order
  <2> QED
      BY RowIsKept
<1>3. \A d \in new : row(d).draft = d /\ row(d) = [draft |-> d, run |-> r] /\ IsDraft(d)
    BY DEF RunInv
<1>4. \A c, d \in new : Fingerprint(c) = Fingerprint(d) => c = d
    BY DEF RunInv, OneDraftEach
<1>5. \A d \in new, e \in exception : Fingerprint(e.draft) # Fingerprint(d)
    BY DEF Taken
<1> HIDE DEF kept, row, new
<1>6. \A e \in exception' : e = [draft |-> e.draft, run |-> e.run] /\ IsDraft(e.draft)
    BY <1>1, <1>2, <1>3
<1>7. ASSUME NEW e \in exception', NEW f \in exception', Fingerprint(e.draft) = Fingerprint(f.draft)
      PROVE  e = f
  <2>1. \A x \in exception' : \/ \E y \in exception : x = kept(y)
                              \/ \E d \in new : x = row(d)
      BY <1>1
  <2> QED
      BY <1>2, <1>3, <1>4, <1>5, <1>7, <2>1
<1>8. \A d : HasRow(d) => HasRow(d)'
  <2> SUFFICES ASSUME NEW d, HasRow(d)
               PROVE  \E f \in exception' : Fingerprint(f.draft) = Fingerprint(d)
      BY DEF HasRow
  <2>1. PICK e \in exception : Fingerprint(e.draft) = Fingerprint(d)
      BY DEF HasRow
  <2> QED
      BY <1>1, <1>2, <2>1
<1>9. \A d \in new : HasRow(d)'
  <2> SUFFICES ASSUME NEW d \in new
               PROVE  \E f \in exception' : Fingerprint(f.draft) = Fingerprint(d)
      BY DEF HasRow
  <2> QED
      BY <1>1, <1>3
<1> QED
    BY <1>6, <1>7, <1>8, <1>9 DEF new

-----------------------------------------------------------------------------
(* Procurement: its steps.                                                 *)

LEMMA ProcStart == ProcInit => ProcInv
<1> SUFFICES ASSUME ProcInit PROVE ProcInv
    OBVIOUS
<1>1. DocumentsInv
    BY DEF ProcInit, DocumentsInv, Ids
<1>2. RowsInv
    BY DEF ProcInit, RowsInv
<1>3. RunsInv
    BY DEF ProcInit, RunsInv, RunInv, Resting, OneDraftEach, InvoiceStatuses
<1>4. OutcomeInv
    BY DEF ProcInit, OutcomeInv, LastOutcomeStands, Resting
<1> QED
    BY <1>1, <1>2, <1>3, <1>4 DEF ProcInv

LEMMA RunStays ==
    ASSUME \A d : HasRow(d) => HasRow(d)', Ids(invoices) \subseteq Ids(invoices)',
           NEW u, RunInv(u)
    PROVE  RunInv(u)'
BY DEF RunInv

LEMMA IdsOfMore == ASSUME NEW docs, NEW d PROVE Ids(docs \union {d}) = Ids(docs) \union {d.id}
BY DEF Ids

\* Recording a vendor, an order or a receipt.
LEMMA RecordingStep ==
    ASSUME ProcInv, UNCHANGED <<invoices, status, exception, run, reported, overlap, last, runs>>,
           vendors' \subseteq Vendors, orders' \subseteq OrderForms,
           receipts' \subseteq ReceiptForms,
           \A p, q \in orders' : p.id = q.id => p = q
    PROVE  ProcInv'
<1>1. DocumentsInv'
    BY DEF ProcInv, DocumentsInv
<1>2. RowsInv'
    BY DEF ProcInv, RowsInv, HasRow
<1>3. RunsInv'
  <2>1. \A d : HasRow(d) => HasRow(d)'
      BY DEF HasRow
  <2> QED
      BY <2>1, RunStays DEF ProcInv, RunsInv
<1>4. OutcomeInv'
    BY DEF ProcInv, OutcomeInv, LastOutcomeStands
<1> QED
    BY <1>1, <1>2, <1>3, <1>4 DEF ProcInv

LEMMA CreateInvoiceStep ==
    ASSUME ProcInv, NEW v \in InvoiceForms, NEW s \in Posted, CreateInvoice(v, s)
    PROVE  ProcInv'
<1>1. /\ v.id \notin Ids(invoices) /\ invoices' = invoices \union {v}
      /\ status' = [i \in Ids(invoices') |-> IF i = v.id THEN s ELSE status[i]]
      /\ UNCHANGED <<vendors, orders, receipts, exception, run, reported, overlap, last, runs>>
    BY DEF CreateInvoice
<1>2. Ids(invoices') = Ids(invoices) \union {v.id}
    BY <1>1, IdsOfMore
<1>3. /\ \A i \in Ids(invoices) : status'[i] = status[i]
      /\ status' \in [Ids(invoices') -> InvoiceStatuses]
    BY <1>1, <1>2, FormsAssumption DEF ProcInv, DocumentsInv
<1>4. DocumentsInv'
  <2>1. \A x, w \in invoices' : x.id = w.id => x = w
      BY <1>1 DEF ProcInv, DocumentsInv, Ids
  <2> QED
      BY <1>1, <1>2, <1>3, <2>1 DEF ProcInv, DocumentsInv
<1>5. RowsInv'
    BY <1>1 DEF ProcInv, RowsInv, HasRow
<1>6. RunsInv'
  <2>1. \A d : HasRow(d) => HasRow(d)'
      BY <1>1 DEF HasRow
  <2> QED
      BY <1>1, <1>2, <2>1, RunStays DEF ProcInv, RunsInv
<1>7. OutcomeInv'
  <2>1. LastOutcomeStands'
      BY <1>1, <1>3 DEF ProcInv, DocumentsInv, OutcomeInv, LastOutcomeStands
  <2>2. \A r \in Reconcilers : run[r].picked \in Ids(invoices) \union {NoPick}
      BY DEF ProcInv, RunsInv, RunInv
  <2> QED
      BY <1>1, <1>3, <2>1, <2>2 DEF ProcInv, OutcomeInv
<1> QED
    BY <1>4, <1>5, <1>6, <1>7 DEF ProcInv

\* A request loads one order and one invoice at most.
LEMMA LoadedIsOne ==
    ASSUME DocumentsInv, NEW order, NEW picked, NEW config
    PROVE  LET in == Loaded(order, picked, config)
           IN  OneOrNone(in.order) /\ OneOrNone(in.invoice)
<1> DEFINE invoice == {v \in invoices : v.id = picked}
           id == IF order # NoRef \/ invoice = {} THEN order
                 ELSE (CHOOSE v \in invoice : TRUE).order
<1>1. OneOrNone(OrderIn(id, [orders |-> orders]))
  <2> HIDE DEF id
  <2> QED
      BY DEF OneOrNone, OrderIn, DocumentsInv
<1>2. OneOrNone(invoice)
    BY DEF OneOrNone, DocumentsInv
<1>3. /\ Loaded(order, picked, config).order = OrderIn(id, [orders |-> orders])
      /\ Loaded(order, picked, config).invoice = invoice
    BY DEF Loaded, Inputs
<1> QED
    BY <1>1, <1>2, <1>3

\* A step of runs alone keeps documents and rows.
LEMMA RunsOnly ==
    ASSUME ProcInv, UNCHANGED <<documents, status, exception, reported, last>>
    PROVE  /\ DocumentsInv' /\ RowsInv'
           /\ \A u : RunInv(u) => RunInv(u)'
<1>1. DocumentsInv'
    BY DEF ProcInv, DocumentsInv, documents
<1>2. RowsInv'
    BY DEF ProcInv, RowsInv, HasRow
<1>3. ASSUME NEW u, RunInv(u) PROVE RunInv(u)'
    BY <1>3, RunStays DEF HasRow, documents
<1> QED
    BY <1>1, <1>2, <1>3

LEMMA BeginRunStep ==
    ASSUME ProcInv, NEW r \in Reconcilers, NEW order, NEW picked, NEW config,
           BeginRun(r, order, picked, config)
    PROVE  ProcInv'
<1>a. PICK held : held = IF picked = NoPick THEN "RECEIVED" ELSE status[picked]
    OBVIOUS
<1>b. PICK drafts : drafts = Drafts(Loaded(order, picked, config))
    OBVIOUS
<1> DEFINE u == [pc |-> "loaded", picked |-> picked, new |-> {}, held |-> held, drafts |-> drafts]
<1>1. /\ run[r].pc = "idle" /\ picked \in Ids(invoices) \union {NoPick}
      /\ run' = [run EXCEPT ![r] = u]
      /\ overlap' = (overlap \/ \E q \in Reconcilers : run[q].pc # "idle")
      /\ runs' = runs + 1
      /\ UNCHANGED <<documents, status, exception, reported, last>>
    BY <1>a, <1>b DEF BeginRun
<1>2. (\A d \in drafts : IsDraft(d)) /\ OneDraftEach(drafts)
    BY <1>b, LoadedIsOne, FactsAreFoundOnce DEF ProcInv
<1>3. held \in InvoiceStatuses
    BY <1>a, <1>1 DEF ProcInv, DocumentsInv, InvoiceStatuses
<1>4. RunInv(u)
    BY <1>1, <1>2, <1>3 DEF RunInv
<1>5. DocumentsInv' /\ RowsInv' /\ RunInv(u)' /\ \A w : RunInv(w) => RunInv(w)'
    BY <1>1, <1>4, RunsOnly
<1>6. u.pc = "loaded" /\ u.picked = picked /\ u.held = held
    OBVIOUS
<1> HIDE DEF u
<1>7. RunsInv'
    BY <1>1, <1>5 DEF ProcInv, RunsInv
<1>8. OutcomeInv'
  <2>1. LastOutcomeStands' /\ overlap' \in BOOLEAN
      BY <1>1 DEF ProcInv, OutcomeInv, LastOutcomeStands, documents
  <2>2. ASSUME ~overlap', NEW q \in Reconcilers, run'[q].pc # "idle"
        PROVE  q = r
      BY <1>1, <2>2 DEF ProcInv, RunsInv
  <2>3. run'[r] = u
      BY <1>1 DEF ProcInv, RunsInv
  <2> QED
      BY <1>1, <1>6, <1>a, <2>1, <2>2, <2>3 DEF OutcomeInv
<1> QED
    BY <1>5, <1>7, <1>8 DEF ProcInv

LEMMA UpsertStep ==
    ASSUME ProcInv, NEW r \in Reconcilers, Upsert(r)
    PROVE  ProcInv'
<1>a. PICK w : w = run[r]
    OBVIOUS
<1>b. PICK new : new = {d \in w.drafts : ~HasRow(d)}
    OBVIOUS
<1> DEFINE u == [pc |-> "flushing", picked |-> w.picked, held |-> w.held, drafts |-> w.drafts,
                 new |-> new]
<1>1. RunInv(w) /\ DOMAIN run = Reconcilers
    BY <1>a DEF ProcInv, RunsInv
<1>2. /\ w.pc = "loaded" /\ run' = [run EXCEPT ![r].pc = "flushing", ![r].new = new]
      /\ UNCHANGED <<documents, status, exception, reported, last, overlap, runs>>
    BY <1>a, <1>b DEF Upsert
<1>3. run' = [run EXCEPT ![r] = u]
  <2>1. [[w EXCEPT !.pc = "flushing"] EXCEPT !.new = new] = u
    <3>1. w = [pc |-> w.pc, picked |-> w.picked, held |-> w.held, drafts |-> w.drafts,
               new |-> w.new]
        BY <1>1 DEF RunInv
    <3>2. [w EXCEPT !.pc = "flushing"] =
              [pc |-> "flushing", picked |-> w.picked, held |-> w.held, drafts |-> w.drafts,
               new |-> w.new]
        BY <3>1
    <3>3. [[pc |-> "flushing", picked |-> w.picked, held |-> w.held, drafts |-> w.drafts,
            new |-> w.new] EXCEPT !.new = new] = u
        OBVIOUS
    <3> QED
        BY <3>2, <3>3, Zenon
  <2>2. run' = [run EXCEPT ![r] = [[w EXCEPT !.pc = "flushing"] EXCEPT !.new = new]]
      BY <1>1, <1>2, <1>a
  <2> QED
      BY <2>1, <2>2
<1>4. RunInv(u)
    BY <1>1, <1>b DEF RunInv
<1>5. DocumentsInv' /\ RowsInv' /\ RunInv(u)' /\ \A x : RunInv(x) => RunInv(x)'
    BY <1>2, <1>4, RunsOnly
<1>6. u.pc # "idle" /\ u.picked = w.picked /\ u.held = w.held
    OBVIOUS
<1> HIDE DEF u
<1>7. RunsInv'
    BY <1>2, <1>3, <1>5 DEF ProcInv, RunsInv
<1>8. OutcomeInv'
  <2>1. LastOutcomeStands' /\ overlap' \in BOOLEAN
      BY <1>2 DEF ProcInv, OutcomeInv, LastOutcomeStands
  <2> QED
      BY <1>1, <1>2, <1>3, <1>6, <1>a, <2>1 DEF ProcInv, OutcomeInv
<1> QED
    BY <1>5, <1>7, <1>8 DEF ProcInv

\* A run that ends without a trace.
LEMMA RunEndsStep ==
    ASSUME ProcInv, NEW r \in Reconcilers, run' = [run EXCEPT ![r] = Resting],
           UNCHANGED <<documents, status, exception, reported, last, overlap, runs>>
    PROVE  ProcInv'
<1>1. DocumentsInv' /\ RowsInv' /\ \A x : RunInv(x) => RunInv(x)'
    BY RunsOnly
<1>2. RunInv(Resting)'
    BY DEF RunInv, Resting, OneDraftEach, InvoiceStatuses
<1>3. Resting.pc = "idle"
    BY DEF Resting
<1>4. RunsInv'
    BY <1>1, <1>2 DEF ProcInv, RunsInv
<1>5. OutcomeInv'
  <2>1. LastOutcomeStands' /\ overlap' \in BOOLEAN
      BY DEF ProcInv, OutcomeInv, LastOutcomeStands
  <2> QED
      BY <1>3, <2>1 DEF ProcInv, RunsInv, OutcomeInv
<1> QED
    BY <1>1, <1>4, <1>5 DEF ProcInv

\* The commit of a run that no unique key refuses.
LEMMA CommitRunStep ==
    ASSUME ProcInv, NEW r \in Reconcilers, CommitRun(r)
    PROVE  ProcInv'
<1>a. PICK w : w = run[r]
    OBVIOUS
<1>b. PICK result : result = StatusOf(w.drafts)
    OBVIOUS
<1>c. PICK outcome : outcome = Outcome(w.held, result)
    OBVIOUS
<1>d. PICK i : i = w.picked
    OBVIOUS
<1>1. /\ w.pc = "flushing" /\ run' = [run EXCEPT ![r] = Resting]
      /\ UNCHANGED <<documents, overlap, runs>>
    BY <1>a DEF CommitRun
<1>2. CASE Taken(r)
  <2>1. CASE UNCHANGED <<status, exception, reported, last>>
      BY <1>1, <2>1, RunEndsStep
  <2> QED
      BY <1>2, <2>1 DEF CommitRun
<1>3. CASE ~Taken(r)
  <2>1. /\ exception' = Upserted(r)
        /\ reported' = reported \union w.drafts
        /\ status' = IF i = NoPick \/ outcome = w.held THEN status
                     ELSE [status EXCEPT ![i] = outcome]
        /\ last' = IF i = NoPick THEN last
                   ELSE [j \in DOMAIN last \union {i} |-> IF j = i THEN result ELSE last[j]]
      BY <1>3, <1>a, <1>b, <1>c, <1>d DEF CommitRun
  <2>2. RunInv(w)
      BY <1>a DEF ProcInv, RunsInv
  <2>3. /\ i \in Ids(invoices) \union {NoPick} /\ w.held \in InvoiceStatuses
        /\ w.new \subseteq w.drafts
        /\ \A d \in w.drafts \ w.new : HasRow(d)
      BY <1>1, <1>d, <2>2 DEF RunInv
  <2>4. outcome \in InvoiceStatuses
      BY <1>c, <2>3 DEF Outcome, Open, InvoiceStatuses
  <2>5. /\ \A e \in exception' : e = [draft |-> e.draft, run |-> e.run] /\ IsDraft(e.draft)
        /\ \A e, f \in exception' : Fingerprint(e.draft) = Fingerprint(f.draft) => e = f
        /\ \A d : HasRow(d) => HasRow(d)'
        /\ \A d \in w.new : HasRow(d)'
    <3>1. RunInv(run[r])
        BY <1>a, <2>2
    <3>2. \A e \in exception : e = [draft |-> e.draft, run |-> e.run] /\ IsDraft(e.draft)
        BY DEF ProcInv, RowsInv
    <3>3. \A e, f \in exception : Fingerprint(e.draft) = Fingerprint(f.draft) => e = f
        BY DEF ProcInv, RowsInv
    <3> QED
        BY <1>3, <1>a, <2>1, <3>1, <3>2, <3>3, UpsertedRows
  <2>6. DocumentsInv'
    <3>1. status' \in [Ids(invoices) -> InvoiceStatuses]
        BY <2>1, <2>4 DEF ProcInv, DocumentsInv
    <3>2. DOMAIN last' \subseteq Ids(invoices)
        BY <2>1, <2>3 DEF ProcInv, DocumentsInv
    <3> QED
        BY <1>1, <3>1, <3>2 DEF ProcInv, DocumentsInv, documents
  <2>7. RowsInv'
    <3>1. \A d \in reported' : HasRow(d)'
        BY <2>1, <2>3, <2>5 DEF ProcInv, RowsInv
    <3> QED
        BY <2>5, <3>1 DEF RowsInv
  <2>8. RunsInv'
    <3>1. \A x : RunInv(x) => RunInv(x)'
        BY <1>1, <2>5, RunStays DEF documents
    <3>2. RunInv(Resting)'
        BY DEF RunInv, Resting, OneDraftEach, InvoiceStatuses
    <3> QED
        BY <1>1, <3>1, <3>2 DEF ProcInv, RunsInv
  <2>9. OutcomeInv'
    <3>1. ~overlap => \A q \in Reconcilers : run'[q].pc = "idle"
      <4>1. \A q \in Reconcilers : run'[q] = IF q = r THEN Resting ELSE run[q]
          BY <1>1 DEF ProcInv, RunsInv
      <4> QED
          BY <1>1, <1>a, <4>1 DEF ProcInv, OutcomeInv, RunsInv, Resting
    <3>2. ~overlap /\ i # NoPick => w.held = status[i]
        BY <1>1, <1>a, <1>d DEF ProcInv, OutcomeInv
    <3>3. ASSUME ~overlap, NEW j \in DOMAIN last', status'[j] \in Open
          PROVE  status'[j] = CASE last'[j] = "MATCHED" -> "MATCHED"
                                [] last'[j] = "EXCEPTIONS_FOUND" -> "EXCEPTION"
                                [] OTHER -> "RECEIVED"
      <4>1. CASE i # NoPick /\ j = i
        <5>1. last'[j] = result /\ j \in Ids(invoices)
            BY <2>1, <2>3, <4>1
        <5>2. status'[j] = outcome
            BY <2>1, <3>2, <3>3, <4>1, <5>1 DEF ProcInv, DocumentsInv
        <5>3. w.held \in Open
            BY <1>c, <3>3, <5>2 DEF Outcome
        <5> QED
            BY <1>c, <5>1, <5>2, <5>3 DEF Outcome
      <4>2. CASE ~(i # NoPick /\ j = i)
        <5>1. j \in DOMAIN last /\ last'[j] = last[j] /\ j \in Ids(invoices)
            BY <2>1, <4>2 DEF ProcInv, DocumentsInv
        <5>2. status'[j] = status[j]
            BY <2>1, <4>2, <5>1 DEF ProcInv, DocumentsInv
        <5> QED
            BY <3>3, <5>1, <5>2 DEF ProcInv, OutcomeInv, LastOutcomeStands
      <4> QED
          BY <4>1, <4>2
    <3>4. LastOutcomeStands'
        BY <1>1, <3>3 DEF LastOutcomeStands
    <3>5. overlap' = overlap /\ overlap \in BOOLEAN
        BY <1>1 DEF ProcInv, OutcomeInv
    <3> QED
        BY <3>1, <3>4, <3>5 DEF OutcomeInv
  <2> QED
      BY <2>6, <2>7, <2>8, <2>9 DEF ProcInv
<1> QED
    BY <1>2, <1>3

-----------------------------------------------------------------------------
(* Procurement: the theorems.                                              *)

LEMMA ProcInvIsInductive == ProcInv /\ [ProcNext]_vars => ProcInv'
<1> SUFFICES ASSUME ProcInv, [ProcNext]_vars
             PROVE  ProcInv'
    OBVIOUS
<1>1. ASSUME NEW n \in Vendors, CreateVendor(n) PROVE ProcInv'
  <2>1. vendors' \subseteq Vendors
      BY <1>1 DEF CreateVendor, ProcInv, DocumentsInv
  <2> QED
      BY <1>1, <2>1, RecordingStep DEF CreateVendor, ProcInv, DocumentsInv
<1>2. ASSUME NEW p \in OrderForms, CreateOrder(p) PROVE ProcInv'
  <2>1. \A x, y \in orders' : x.id = y.id => x = y
      BY <1>2 DEF CreateOrder, ProcInv, DocumentsInv, Ids
  <2>2. orders' \subseteq OrderForms
      BY <1>2 DEF CreateOrder, ProcInv, DocumentsInv
  <2> QED
      BY <1>2, <2>1, <2>2, RecordingStep DEF CreateOrder, ProcInv, DocumentsInv
<1>3. ASSUME NEW g \in ReceiptForms, CreateReceipt(g) PROVE ProcInv'
  <2>1. receipts' \subseteq ReceiptForms
      BY <1>3 DEF CreateReceipt, ProcInv, DocumentsInv
  <2> QED
      BY <1>3, <2>1, RecordingStep DEF CreateReceipt, ProcInv, DocumentsInv
<1>4. ASSUME NEW v \in InvoiceForms, NEW s \in Posted, CreateInvoice(v, s)
      PROVE  ProcInv'
    BY <1>4, CreateInvoiceStep
<1>5. ASSUME NEW r \in Reconcilers, NEW config \in Configs,
             NEW order \in Ids(OrderForms) \union {NoRef},
             NEW picked \in Ids(InvoiceForms) \union {NoPick}, BeginRun(r, order, picked, config)
      PROVE  ProcInv'
    BY <1>5, BeginRunStep
<1>6. ASSUME NEW r \in Reconcilers, Upsert(r) PROVE ProcInv'
    BY <1>6, UpsertStep
<1>7. ASSUME NEW r \in Reconcilers, CommitRun(r) PROVE ProcInv'
    BY <1>7, CommitRunStep
<1>8. ASSUME NEW r \in Reconcilers, AbandonRun(r) PROVE ProcInv'
    BY <1>8, RunEndsStep DEF AbandonRun
<1>9. CASE UNCHANGED vars
  <2>1. UNCHANGED <<documents, status, exception, run, reported, overlap, last, runs>>
      BY <1>9 DEF vars, documents
  <2>2. UNCHANGED <<vendors, orders, receipts, invoices>>
      BY <1>9 DEF vars
  <2> QED
      BY <2>1, <2>2, RecordingStep DEF ProcInv, DocumentsInv
<1> QED
    BY <1>1, <1>2, <1>3, <1>4, <1>5, <1>6, <1>7, <1>8, <1>9 DEF ProcNext

LEMMA ProcInvIsEnough == ProcInv => OneRowPerFingerprint /\ LastOutcomeStands
<1> SUFFICES ASSUME ProcInv PROVE OneRowPerFingerprint /\ LastOutcomeStands
    OBVIOUS
<1>1. ProcTypeOK
  <2>1. \A e \in exception : e.draft.type \in DOMAIN Severity
      BY DEF ProcInv, RowsInv, IsDraft
  <2>2. \A r \in Reconcilers : /\ run[r].pc \in {"idle", "loaded", "flushing"}
                               /\ run[r].new \subseteq run[r].drafts
      BY DEF ProcInv, RunsInv, RunInv
  <2> QED
      BY <2>1, <2>2 DEF ProcTypeOK, ProcInv, DocumentsInv, RunsInv, OutcomeInv
<1>2. /\ \A e, f \in exception : Fingerprint(e.draft) = Fingerprint(f.draft) => e = f
      /\ \A d \in reported : \E e \in exception : Fingerprint(e.draft) = Fingerprint(d)
    BY DEF ProcInv, RowsInv, HasRow
<1> QED
    BY <1>1, <1>2 DEF ProcInv, OutcomeInv, OneRowPerFingerprint

\* However many runs overlap (ReconciliationService._upsert_exceptions, app/services/
\* reconciliation_service.py), a fact has one row, and every exception that a
\* committed run has returned has its row for ever after.
THEOREM AFactHasOneRow == ProcSpec => []OneRowPerFingerprint
<1>1. ProcInit => ProcInv
    BY ProcStart
<1>2. ProcInv /\ [ProcNext]_vars => ProcInv'
    BY ProcInvIsInductive
<1>3. ProcInv => OneRowPerFingerprint
    BY ProcInvIsEnough
<1> QED
    BY <1>1, <1>2, <1>3, PTL DEF ProcSpec

\* As long as runs do not overlap, an invoice that nobody has approved has the status
\* of what the last committed run about it found (_record_invoice_outcome).
THEOREM TheLastRunDecides == ProcSpec => []LastOutcomeStands
<1>1. ProcInit => ProcInv
    BY ProcStart
<1>2. ProcInv /\ [ProcNext]_vars => ProcInv'
    BY ProcInvIsInductive
<1>3. ProcInv => LastOutcomeStands
    BY ProcInvIsEnough
<1> QED
    BY <1>1, <1>2, <1>3, PTL DEF ProcSpec

-----------------------------------------------------------------------------
(* Procurement: what a match bills.  The sums of the engine are those of    *)
(* FiniteLemmas, so that lines can be taken in groups.                      *)

Counted(lines) == IsFiniteSet(lines) /\ \A line \in lines : line.quantity \in Nat
Priced(lines) == Counted(lines) /\ \A line \in lines : line.price \in Nat
CountedDocuments(docs) == IsFiniteSet(docs) /\ \A d \in docs : Counted(d.lines)

Quantities(lines) == [line \in lines |-> line.quantity]
Values(lines) == [line \in lines |-> line.quantity * line.price]

\* The fold of the model adds the quantities up.
LEMMA QuantitySum ==
    ASSUME NEW S, Counted(S)
    PROVE  MapThenSumSet(LAMBDA line : line.quantity, S) = Sum(S, Quantities(S))
<1> DEFINE T == MapThenSumSet(LAMBDA line : line.quantity, S)
           w == Quantities(S)
           F(g) == g = [s \in SUBSET S |->
                          IF s = {} THEN 0
                          ELSE (CHOOSE x \in s : TRUE).quantity + g[s \ {CHOOSE x \in s : TRUE}]]
<1>1. T = (CHOOSE g : F(g))[S]
    BY DEF MapThenSumSet, MapThenFoldSet
<1>2. ASSUME NEW g PROVE F(g) <=> IsSum(g, S, w)
  <2>1. ASSUME NEW s \in SUBSET S, s # {}
        PROVE  w[CHOOSE x \in s : TRUE] = (CHOOSE x \in s : TRUE).quantity
      BY <2>1 DEF Quantities
  <2>2. [s \in SUBSET S |-> IF s = {} THEN 0
                            ELSE (CHOOSE x \in s : TRUE).quantity
                                 + g[s \ {CHOOSE x \in s : TRUE}]]
        = [s \in SUBSET S |-> IF s = {} THEN 0
                              ELSE w[CHOOSE x \in s : TRUE] + g[s \ {CHOOSE x \in s : TRUE}]]
    <3> HIDE DEF w
    <3> QED
        BY <2>1
  <2> QED
      BY <2>2 DEF IsSum
<1> HIDE DEF F, T
<1>3. IsFiniteSet(S) /\ w \in [S -> Nat]
    BY DEF Counted, Quantities
<1> HIDE DEF w
<1>4. /\ \E g : IsSum(g, S, w)
      /\ \A g : IsSum(g, S, w) => g[S] = Sum(S, w)
    BY <1>3, SumIsDefined
<1>5. F(CHOOSE g : F(g))
    BY <1>2, <1>4
<1>6. T = Sum(S, w)
    BY <1>1, <1>2, <1>4, <1>5
<1> QED
    BY <1>6 DEF T, w

\* And the values.
LEMMA ValueSum ==
    ASSUME NEW S, Priced(S)
    PROVE  Value(S) = Sum(S, Values(S))
<1> DEFINE T == Value(S)
           w == Values(S)
           F(g) == g = [s \in SUBSET S |->
                          IF s = {} THEN 0
                          ELSE (CHOOSE x \in s : TRUE).quantity * (CHOOSE x \in s : TRUE).price
                               + g[s \ {CHOOSE x \in s : TRUE}]]
<1>1. T = (CHOOSE g : F(g))[S]
    BY DEF Value, MapThenSumSet, MapThenFoldSet
<1>2. ASSUME NEW g PROVE F(g) <=> IsSum(g, S, w)
  <2>1. ASSUME NEW s \in SUBSET S, s # {}
        PROVE  w[CHOOSE x \in s : TRUE] =
                   (CHOOSE x \in s : TRUE).quantity * (CHOOSE x \in s : TRUE).price
      BY <2>1 DEF Values
  <2>2. [s \in SUBSET S |-> IF s = {} THEN 0
                            ELSE (CHOOSE x \in s : TRUE).quantity * (CHOOSE x \in s : TRUE).price
                                 + g[s \ {CHOOSE x \in s : TRUE}]]
        = [s \in SUBSET S |-> IF s = {} THEN 0
                              ELSE w[CHOOSE x \in s : TRUE] + g[s \ {CHOOSE x \in s : TRUE}]]
    <3> HIDE DEF w
    <3> QED
        BY <2>1
  <2> QED
      BY <2>2 DEF IsSum
<1> HIDE DEF F, T
<1>3. IsFiniteSet(S) /\ w \in [S -> Nat]
    BY DEF Priced, Counted, Values
<1> HIDE DEF w
<1>4. /\ \E g : IsSum(g, S, w)
      /\ \A g : IsSum(g, S, w) => g[S] = Sum(S, w)
    BY <1>3, SumIsDefined
<1>5. F(CHOOSE g : F(g))
    BY <1>2, <1>4
<1>6. T = Sum(S, w)
    BY <1>1, <1>2, <1>4, <1>5
<1> QED
    BY <1>6 DEF T, w

\* What receipts `docs' leave the lines of order p worth.
Share(p, l, docs) ==
    (QuantityOn(p, l, docs) + Tolerance("quantity")) * l.price * (100 + Tolerance("price"))
Shares(p, docs) == [l \in p.lines |-> Share(p, l, docs)]
WorthOn(p, docs) == Sum(p.lines, Shares(p, docs))

\* No request has more tolerance.
LEMMA TolerancesBound ==
    ASSUME Configs # {}
    PROVE  /\ Tolerance("quantity") \in Nat /\ Tolerance("price") \in Nat
           /\ \A config \in Configs : /\ config.quantity \in Nat /\ config.price \in Nat
                                      /\ config.quantity <= Tolerance("quantity")
                                      /\ config.price <= Tolerance("price")
<1>1. /\ \A config \in Configs : config.quantity \in Nat /\ config.price \in Nat
      /\ IsFiniteSet(Configs)
    BY FormsAssumption
<1> DEFINE Q == {config["quantity"] : config \in Configs}
           P == {config["price"] : config \in Configs}
<1>2. Q # {} /\ Q \subseteq Nat /\ P # {} /\ P \subseteq Nat
    BY <1>1
<1>3. IsFiniteSet(Q) /\ IsFiniteSet(P)
  <2> DEFINE q == [config \in Configs |-> config["quantity"]]
             r == [config \in Configs |-> config["price"]]
  <2>1. Q = {q[config] : config \in Configs} /\ P = {r[config] : config \in Configs}
      OBVIOUS
  <2>2. DOMAIN q = Configs /\ DOMAIN r = Configs
      OBVIOUS
  <2> HIDE DEF q, r, Q, P
  <2> QED
      BY <1>1, <2>1, <2>2, ValuesAreFinite
<1>4. Tolerance("quantity") = Max(Q) /\ Tolerance("price") = Max(P)
    BY DEF Tolerance
<1> HIDE DEF Q, P
<1>5. /\ Max(Q) \in Q /\ \A n \in Q : n <= Max(Q)
      /\ Max(P) \in P /\ \A n \in P : n <= Max(P)
    BY <1>2, <1>3, LastNumber
<1> QED
    BY <1>1, <1>2, <1>4, <1>5 DEF Q, P

\* What receipts count on a line is a number, and more receipts count more.
LEMMA LinesAreCounted ==
    ASSUME NEW p, NEW l, NEW docs, CountedDocuments(docs)
    PROVE  /\ Counted(LinesOn(p, l, docs))
           /\ QuantityOn(p, l, docs) \in Nat
           /\ QuantityOn(p, l, docs) = Sum(LinesOn(p, l, docs), Quantities(LinesOn(p, l, docs)))
<1> DEFINE all == UNION {d.lines : d \in docs}
           S == LinesOn(p, l, docs)
<1>1. IsFiniteSet(all)
  <2>1. IsFiniteSet({d.lines : d \in docs})
    <3> DEFINE f == [d \in docs |-> d.lines]
    <3>1. {d.lines : d \in docs} = {f[d] : d \in docs} /\ DOMAIN f = docs
        OBVIOUS
    <3> HIDE DEF f
    <3>2. IsFiniteSet({f[d] : d \in docs})
        BY <3>1, ValuesAreFinite DEF CountedDocuments
    <3> QED
        BY <3>1, <3>2
  <2>2. \A lines \in {d.lines : d \in docs} : IsFiniteSet(lines)
      BY DEF CountedDocuments, Counted
  <2> QED
      BY <2>1, <2>2, FS_UNION
<1>2. S \subseteq all /\ \A line \in S : line.quantity \in Nat
    BY DEF LinesOn, CountedDocuments, Counted
<1>3. Counted(S)
    BY <1>1, <1>2, FS_Subset DEF Counted
<1>4. QuantityOn(p, l, docs) = MapThenSumSet(LAMBDA line : line.quantity, S)
    BY DEF QuantityOn
<1> HIDE DEF S
<1>5. QuantityOn(p, l, docs) = Sum(S, Quantities(S))
    BY <1>3, <1>4, QuantitySum
<1>6. Quantities(S) \in [S -> Nat]
    BY <1>3 DEF Quantities, Counted
<1>7. Sum(S, Quantities(S)) \in Nat
    BY <1>3, <1>6, SumIsNatural DEF Counted
<1> QED
    BY <1>3, <1>5, <1>7 DEF S

\* A part of the documents counts, and counts no more than all.
LEMMA MoreIsCounted ==
    ASSUME NEW p, NEW l, NEW docs, CountedDocuments(docs), NEW part \in SUBSET docs
    PROVE  /\ CountedDocuments(part)
           /\ QuantityOn(p, l, part) <= QuantityOn(p, l, docs)
<1>1. CountedDocuments(part)
    BY FS_Subset DEF CountedDocuments
<1> DEFINE S == LinesOn(p, l, docs)
           T == LinesOn(p, l, part)
<1>2. Counted(S) /\ Counted(T) /\ T \in SUBSET S
    BY <1>1, LinesAreCounted DEF LinesOn
<1>3. /\ QuantityOn(p, l, docs) = Sum(S, Quantities(S))
      /\ QuantityOn(p, l, part) = Sum(T, Quantities(T))
    BY <1>1, LinesAreCounted
<1> HIDE DEF S, T
<1>4. /\ Quantities(S) \in [S -> Nat] /\ Quantities(T) \in [T -> Nat]
      /\ \A x \in T : Quantities(T)[x] <= Quantities(S)[x]
    BY <1>2 DEF Counted, Quantities
<1>5. Sum(T, Quantities(T)) <= Sum(S, Quantities(S))
    BY <1>2, <1>4, SumGrows DEF Counted
<1> QED
    BY <1>1, <1>3, <1>5

\* A product grows with its factors.
LEMMA ProductGrows ==
    ASSUME NEW a \in Nat, NEW b \in Nat, NEW c \in Nat, a <= b
    PROVE  a * c \in Nat /\ b * c \in Nat /\ a * c <= b * c
  OBVIOUS

\* With more receipts an order is worth more.
LEMMA WorthGrows ==
    ASSUME NEW p, Priced(p.lines), NEW docs, CountedDocuments(docs), NEW part \in SUBSET docs,
           Configs # {}
    PROVE  /\ Shares(p, docs) \in [p.lines -> Nat]
           /\ WorthOn(p, part) \in Nat /\ WorthOn(p, docs) \in Nat
           /\ WorthOn(p, part) <= WorthOn(p, docs)
<1>1. IsFiniteSet(p.lines) /\ \A l \in p.lines : l.price \in Nat
    BY DEF Priced, Counted
<1>2. \A l \in p.lines : /\ QuantityOn(p, l, part) \in Nat /\ QuantityOn(p, l, docs) \in Nat
                         /\ QuantityOn(p, l, part) <= QuantityOn(p, l, docs)
    BY LinesAreCounted, MoreIsCounted
<1>3. Tolerance("quantity") \in Nat /\ Tolerance("price") \in Nat
    BY TolerancesBound
<1>4. ASSUME NEW l \in p.lines
      PROVE  /\ Share(p, l, part) \in Nat /\ Share(p, l, docs) \in Nat
             /\ Share(p, l, part) <= Share(p, l, docs)
  <2> DEFINE a == QuantityOn(p, l, part) + Tolerance("quantity")
             b == QuantityOn(p, l, docs) + Tolerance("quantity")
             c == l.price
             d == 100 + Tolerance("price")
  <2>1. a \in Nat /\ b \in Nat /\ a <= b /\ c \in Nat /\ d \in Nat
      BY <1>1, <1>2, <1>3
  <2>2. Share(p, l, part) = a * c * d /\ Share(p, l, docs) = b * c * d
      BY DEF Share
  <2> HIDE DEF a, b, c, d
  <2>3. a * c \in Nat /\ b * c \in Nat /\ a * c <= b * c
      BY <2>1, ProductGrows
  <2>4. a * c * d \in Nat /\ b * c * d \in Nat /\ a * c * d <= b * c * d
      BY <2>1, <2>3, ProductGrows
  <2> QED
      BY <2>2, <2>4
<1>5. /\ Shares(p, docs) \in [p.lines -> Nat] /\ Shares(p, part) \in [p.lines -> Nat]
      /\ \A l \in p.lines : Shares(p, part)[l] <= Shares(p, docs)[l]
    BY <1>4 DEF Shares
<1>6. WorthOn(p, part) <= WorthOn(p, docs)
    BY <1>1, <1>5, SumGrows DEF WorthOn
<1>7. WorthOn(p, part) \in Nat /\ WorthOn(p, docs) \in Nat
    BY <1>1, <1>5, SumIsNatural DEF WorthOn
<1> QED
    BY <1>5, <1>6, <1>7

\* The worth of an order in the model, as a sum.
LEMMA WorthSum ==
    ASSUME NEW p, Priced(p.lines), NEW docs, CountedDocuments(docs), Configs # {}
    PROVE  WorthOf(p, docs) = WorthOn(p, docs)
<1> DEFINE S == p.lines
           w == Shares(p, docs)
           T == WorthOf(p, docs)
           F(g) == g = [s \in SUBSET S |->
                          IF s = {} THEN 0
                          ELSE (QuantityOn(p, CHOOSE x \in s : TRUE, docs) + Tolerance("quantity"))
                                 * (CHOOSE x \in s : TRUE).price * (100 + Tolerance("price"))
                               + g[s \ {CHOOSE x \in s : TRUE}]]
<1>1. T = (CHOOSE g : F(g))[S]
    BY DEF WorthOf, MapThenSumSet, MapThenFoldSet
<1>2. ASSUME NEW g PROVE F(g) <=> IsSum(g, S, w)
  <2>1. ASSUME NEW s \in SUBSET S, s # {}
        PROVE  w[CHOOSE x \in s : TRUE] =
                   (QuantityOn(p, CHOOSE x \in s : TRUE, docs) + Tolerance("quantity"))
                       * (CHOOSE x \in s : TRUE).price * (100 + Tolerance("price"))
      BY <2>1 DEF Shares, Share
  <2>2. [s \in SUBSET S |-> IF s = {} THEN 0
                            ELSE (QuantityOn(p, CHOOSE x \in s : TRUE, docs) + Tolerance("quantity"))
                                   * (CHOOSE x \in s : TRUE).price * (100 + Tolerance("price"))
                                 + g[s \ {CHOOSE x \in s : TRUE}]]
        = [s \in SUBSET S |-> IF s = {} THEN 0
                              ELSE w[CHOOSE x \in s : TRUE] + g[s \ {CHOOSE x \in s : TRUE}]]
    <3> HIDE DEF w
    <3> QED
        BY <2>1
  <2> QED
      BY <2>2 DEF IsSum
<1> HIDE DEF F, T
<1>3. IsFiniteSet(S) /\ w \in [S -> Nat]
    BY WorthGrows DEF Priced, Counted
<1> HIDE DEF w, S
<1>4. /\ \E g : IsSum(g, S, w)
      /\ \A g : IsSum(g, S, w) => g[S] = Sum(S, w)
    BY <1>3, SumIsDefined
<1>5. F(CHOOSE g : F(g))
    BY <1>2, <1>4
<1>6. T = Sum(S, w)
    BY <1>1, <1>2, <1>4, <1>5
<1> QED
    BY <1>6 DEF T, w, S, WorthOn

\* A price within the tolerance.
LEMMA PriceWithin ==
    ASSUME NEW expected \in Nat, NEW actual \in Nat, NEW n \in Nat, NEW most \in Nat,
           ~Exceeds(expected, actual, n), n < 100, n <= most
    PROVE  100 * actual <= expected * (100 + most)
<1>1. CASE expected = 0
  <2>1. actual = 0
      BY <1>1 DEF Exceeds
  <2> QED
      BY <1>1, <2>1
<1>2. CASE expected # 0
  <2>1. ~(100 * Distance(expected, actual) > n * expected)
      BY <1>2 DEF Exceeds
  <2> DEFINE a == n * expected
             b == most * expected
  <2>2. a \in Nat /\ b \in Nat /\ a <= b
      BY ProductGrows
  <2>3. Distance(expected, actual) >= actual - expected /\ Distance(expected, actual) \in Int
      BY DEF Distance
  <2>4. expected * (100 + most) = 100 * expected + b
      OBVIOUS
  <2> HIDE DEF a, b
  <2>5. 100 * Distance(expected, actual) <= a
      BY <2>1, <2>2, <2>3 DEF a
  <2> QED
      BY <2>2, <2>3, <2>4, <2>5
<1> QED
    BY <1>1, <1>2

\* What the engine has compared where it has nothing to say.
Compared(p, v, docs, config) ==
    /\ \A line \in v.lines : /\ MatchedLines(p, line) # {}
                             /\ \A m \in MatchedLines(p, line) :
                                   ~Exceeds(m.price, line.price, config.price)
    /\ \A l \in p.lines :
          \/ QuantityOn(p, l, docs) = 0 /\ QuantityOn(p, l, {v}) = 0
          \/ ~Over(QuantityOn(p, l, {v}), QuantityOn(p, l, docs), config.quantity)

\* Without a draft no document is missing.
LEMMA NothingMissing ==
    ASSUME NEW in, Drafts(in) = {}
    PROVE  in.order # {} /\ in.invoice # {} /\ in.receipts # {}
<1> DEFINE missing(what, orderSet, receiptSet, invoiceSet) ==
              Draft("MISSING_DOCUMENT", what,
                    IF orderSet = {} THEN NoRef ELSE (CHOOSE p \in orderSet : TRUE).id,
                    Label("order", orderSet) \union Label("invoice", invoiceSet)
                        \union Label("receipt", receiptSet))
<1>1. \A what, orderSet, receiptSet, invoiceSet :
          missing(what, orderSet, receiptSet, invoiceSet)
              \in Missing(what, orderSet, receiptSet, invoiceSet)
    BY DEF Missing
<1> HIDE DEF missing
<1>2. \A what, orderSet, receiptSet, invoiceSet :
          Missing(what, orderSet, receiptSet, invoiceSet) # {}
    BY <1>1
<1>3. ~(in.order = {} /\ in.invoice = {} /\ in.receipts = {})
    BY <1>2 DEF Drafts
<1>4. MissingDocuments(in) = {}
    BY <1>3 DEF Drafts
<1> QED
    BY <1>2, <1>4 DEF MissingDocuments

\* Without a draft the invoice and the order are compared, and within tolerance.
LEMMA NoDraftIsCompared ==
    ASSUME NEW in, Drafts(in) = {}, NEW p \in in.order, NEW v \in in.invoice
    PROVE  /\ in.receipts # {}
           /\ v.order = p.id
           /\ Compared(p, v, in.receipts, in.config)
<1>1. in.receipts # {}
    BY NothingMissing
<1>2. AgainstOrder(p, in) = {}
    BY <1>1 DEF Drafts
<1>3. HeaderMismatches(p, "invoice", in.invoice) = {}
    BY <1>2 DEF AgainstOrder
<1>4. v.order = p.id
  <2>1. \A e \in in.invoice : e.order = p.id
      BY <1>3 DEF HeaderMismatches
  <2> QED
      BY <2>1
<1>5. /\ Unmatched(p, "invoice", v) = {}
      /\ AmountMismatches(p, v, "PRICE_MISMATCH", in.config.price) = {}
      /\ \A l \in p.lines : QuantityExceptions(p, v, in.receipts, l, in.config.quantity) = {}
    BY <1>1, <1>2 DEF AgainstOrder
<1>6. \A line \in v.lines : MatchedLines(p, line) # {}
    BY <1>5 DEF Unmatched
<1>7. \A line \in v.lines : \A m \in MatchedLines(p, line) :
          ~Exceeds(m.price, line.price, in.config.price)
  <2> SUFFICES ASSUME NEW line \in v.lines, NEW m \in MatchedLines(p, line),
                      Exceeds(m.price, line.price, in.config.price)
               PROVE  FALSE
      OBVIOUS
  <2> DEFINE d(l) == Draft("PRICE_MISMATCH", "line", p.id,
                           {<<"order", p.id>>, <<"order_line", l.id>>,
                            <<"invoice", v.id>>, <<"line", line.id>>})
             found == {d(l) : l \in {n \in MatchedLines(p, line) :
                                 Exceeds(Amount(n, "PRICE_MISMATCH"), Amount(line, "PRICE_MISMATCH"),
                                         in.config.price)}}
  <2>1. d(m) \in found
      BY DEF Amount
  <2>2. found \subseteq AmountMismatches(p, v, "PRICE_MISMATCH", in.config.price)
      BY DEF AmountMismatches
  <2> HIDE DEF found
  <2> QED
      BY <1>5, <2>1, <2>2
<1>8. ASSUME NEW l \in p.lines
      PROVE  \/ QuantityOn(p, l, in.receipts) = 0 /\ QuantityOn(p, l, {v}) = 0
             \/ ~Over(QuantityOn(p, l, {v}), QuantityOn(p, l, in.receipts), in.config.quantity)
    BY <1>5 DEF QuantityExceptions
<1> QED
    BY <1>1, <1>4, <1>6, <1>7, <1>8 DEF Compared

\* What an invoice bills for on line l of its order.
LEMMA LineIsWorth ==
    ASSUME NEW p, Priced(p.lines), NEW v, Priced(v.lines), NEW docs, CountedDocuments(docs),
           Configs # {}, NEW config \in Configs, config.price < 100,
           Compared(p, v, docs, config), NEW l \in p.lines,
           NEW w \in [v.lines -> Nat], \A line \in v.lines : w[line] = 100 * Values(v.lines)[line],
           NEW C \in SUBSET v.lines, \A line \in C : l \in MatchedLines(p, line)
    PROVE  Sum(C, w) <= Share(p, l, docs)
<1>1. /\ config.quantity \in Nat /\ config.quantity <= Tolerance("quantity")
      /\ config.price \in Nat /\ config.price <= Tolerance("price")
      /\ Tolerance("quantity") \in Nat /\ Tolerance("price") \in Nat
    BY TolerancesBound
<1> DEFINE rate == l.price * (100 + Tolerance("price"))
           u == [line \in C |-> rate * line.quantity]
           billed == QuantityOn(p, l, {v})
           received == QuantityOn(p, l, docs)
           S == LinesOn(p, l, {v})
<1>2. l.price \in Nat /\ rate \in Nat
  <2>1. l.price \in Nat /\ 100 + Tolerance("price") \in Nat
      BY <1>1 DEF Priced
  <2> QED
      BY <2>1, ProductGrows
<1>3. ASSUME NEW line \in C
      PROVE  /\ line.quantity \in Nat /\ w[line] <= rate * line.quantity
             /\ rate * line.quantity \in Nat
  <2> DEFINE q == line.quantity
             a == line.price
             t == Tolerance("price")
             e == l.price
             n == config.price
  <2>1. q \in Nat /\ a \in Nat /\ t \in Nat /\ e \in Nat
      BY <1>1, <1>2 DEF Priced, Counted
  <2>2. w[line] = 100 * (q * a)
      BY DEF Values
  <2>3. ~Exceeds(e, a, n) /\ n \in Nat /\ n < 100 /\ n <= t
      BY <1>1 DEF Compared
  <2>4. rate = e * (100 + t)
      OBVIOUS
  <2> HIDE DEF q, a, t, e, n, rate
  <2>5. 100 * a <= rate
      BY <2>1, <2>3, <2>4, PriceWithin
  <2>6. 100 * a \in Nat /\ rate \in Nat
      BY <1>2, <2>1
  <2>7. (100 * a) * q <= rate * q /\ rate * q \in Nat
      BY <2>1, <2>5, <2>6, ProductGrows
  <2>8. 100 * (q * a) = (100 * a) * q
      BY <2>1
  <2> QED
      BY <2>1, <2>2, <2>7, <2>8 DEF q
<1>4. IsFiniteSet(v.lines) /\ IsFiniteSet(C)
    BY FS_Subset DEF Priced, Counted
<1>5. CountedDocuments({v})
    BY FS_Singleton DEF CountedDocuments, Priced
<1>6. Counted(S) /\ billed \in Nat /\ billed = Sum(S, Quantities(S)) /\ C \in SUBSET S
    BY <1>5, LinesAreCounted DEF LinesOn
<1>7. received \in Nat
    BY LinesAreCounted
<1> DEFINE x == [line \in C |-> w[line]]
           k == [line \in C |-> line.quantity]
<1>8. /\ x \in [C -> Nat] /\ u \in [C -> Nat] /\ k \in [C -> Nat]
      /\ \A line \in C : x[line] <= u[line] /\ x[line] = w[line] /\ u[line] = rate * k[line]
    BY <1>3
<1> HIDE DEF x, u, rate, S, billed, received
<1>9. Quantities(S) \in [S -> Nat] /\ \A line \in C : k[line] <= Quantities(S)[line]
  <2>1. \A line \in S : line.quantity \in Nat
      BY <1>6 DEF Counted
  <2>2. \A line \in C : k[line] = line.quantity /\ line \in S
      BY <1>6
  <2>3. \A line \in S : Quantities(S)[line] = line.quantity
      BY DEF Quantities
  <2>4. Quantities(S) \in [S -> Nat]
      BY <2>1 DEF Quantities
  <2> HIDE DEF k
  <2> QED
      BY <2>1, <2>2, <2>3, <2>4
<1> HIDE DEF k
<1>10. Sum(C, w) = Sum(C, x) /\ Sum(C, x) <= Sum(C, u) /\ Sum(C, u) = rate * Sum(C, k)
  <2>1. Sum(C, w) = Sum(C, x)
      BY <1>8, SumOfSame
  <2>2. Sum(C, x) <= Sum(C, u)
      BY <1>4, <1>8, SumGrows
  <2>3. Sum(C, u) = rate * Sum(C, k)
      BY <1>2, <1>4, <1>8, SumOfMultiples
  <2> QED
      BY <2>1, <2>2, <2>3
<1>11. Sum(C, k) <= billed /\ Sum(C, k) \in Nat
  <2>1. Sum(C, k) <= Sum(S, Quantities(S))
      BY <1>6, <1>8, <1>9, SumGrows DEF Counted
  <2>2. Sum(C, k) \in Nat
      BY <1>4, <1>8, SumIsNatural
  <2> QED
      BY <1>6, <2>1, <2>2
<1> DEFINE most == received + Tolerance("quantity")
<1>12. most \in Nat /\ billed <= most
  <2>1. \/ received = 0 /\ billed = 0
        \/ ~Over(billed, received, config.quantity)
      BY DEF Compared, received, billed
  <2> QED
      BY <1>1, <1>6, <1>7, <2>1 DEF Over
<1>13. Share(p, l, docs) = rate * most
  <2> DEFINE e == l.price
             d == 100 + Tolerance("price")
  <2>1. Share(p, l, docs) = most * e * d
      BY DEF Share, received
  <2>2. e \in Nat /\ d \in Nat /\ rate = e * d
      BY <1>1, <1>2 DEF rate
  <2> HIDE DEF most, e, d
  <2>3. \A a, b, c \in Nat : a * b * c = (b * c) * a
      OBVIOUS
  <2> QED
      BY <1>12, <2>1, <2>2, <2>3
<1> HIDE DEF most
<1>14. Sum(C, k) * rate <= most * rate
  <2>1. Sum(C, k) <= most
      BY <1>6, <1>11, <1>12
  <2> QED
      BY <1>2, <1>11, <1>12, <2>1, ProductGrows
<1>15. \A a, b \in Nat : a * b = b * a
    OBVIOUS
<1>16. Sum(C, k) * rate = rate * Sum(C, k) /\ most * rate = rate * most
    BY <1>2, <1>11, <1>12, <1>15
<1>17. Sum(C, x) \in Nat /\ Sum(C, u) \in Nat /\ most * rate \in Nat
    BY <1>2, <1>4, <1>8, <1>12, SumIsNatural, ProductGrows
<1>18. Sum(C, u) <= most * rate
    BY <1>10, <1>14, <1>16
<1> QED
    BY <1>10, <1>13, <1>16, <1>17, <1>18

\* An invoice against which the engine has nothing to say bills for no more than
\* the receipts it has been compared with leave its order worth.
LEMMA ComparedIsWorth ==
    ASSUME NEW p, Priced(p.lines), NEW v, Priced(v.lines), NEW docs, CountedDocuments(docs),
           Configs # {}, NEW config \in Configs, config.price < 100,
           Compared(p, v, docs, config)
    PROVE  100 * Value(v.lines) <= WorthOn(p, docs)
<1> DEFINE S == v.lines
           L == p.lines
           w == [line \in S |-> 100 * Values(S)[line]]
           m == [line \in S |-> CHOOSE l \in L : l \in MatchedLines(p, line)]
           u == Shares(p, docs)
           V == Values(S)
<1>1. IsFiniteSet(S) /\ IsFiniteSet(L) /\ V \in [S -> Nat]
    BY DEF Priced, Counted, Values
<1>2. w \in [S -> Nat] /\ \A line \in S : w[line] = 100 * V[line]
  <2> HIDE DEF V
  <2>1. \A n \in Nat : 100 * n \in Nat
      OBVIOUS
  <2> QED
      BY <1>1, <2>1 DEF V
<1>3. \A line \in S : m[line] \in L /\ m[line] \in MatchedLines(p, line)
  <2>1. \A line : MatchedLines(p, line) \subseteq L
      BY DEF MatchedLines
  <2> QED
      BY <2>1 DEF Compared
<1>4. m \in [S -> L]
    BY <1>3
<1>5. u \in [L -> Nat]
    BY WorthGrows
<1> HIDE DEF w, m
<1>6. ASSUME NEW l \in L PROVE Sum({line \in S : m[line] = l}, w) <= u[l]
  <2> DEFINE C == {line \in S : m[line] = l}
  <2>1. C \in SUBSET v.lines /\ \A line \in C : l \in MatchedLines(p, line)
      BY <1>3
  <2>2. u[l] = Share(p, l, docs)
      BY DEF Shares
  <2> HIDE DEF C
  <2>3. Sum(C, w) <= Share(p, l, docs)
      BY <1>2, <2>1, LineIsWorth
  <2> QED
      BY <2>2, <2>3 DEF C
<1> HIDE DEF u, S, L, V
<1>7. Sum(S, w) <= Sum(L, u)
    BY <1>1, <1>2, <1>4, <1>5, <1>6, SumByGroups
<1>8. Sum(S, w) = 100 * Sum(S, V)
    BY <1>1, <1>2, SumOfMultiples
<1>9. Value(S) = Sum(S, V)
    BY ValueSum DEF S, V
<1> QED
    BY <1>7, <1>8, <1>9 DEF WorthOn, S, L, u

-----------------------------------------------------------------------------
(* Procurement: what a match bills, as documents are recorded.              *)

\* An invoice that bills for no more than has been received on its order.
Bills(i) ==
    /\ Configs # {}
    /\ \E v \in invoices, p \in orders :
          v.id = i /\ p.id = v.order /\ 100 * Value(v.lines) <= Worth(p)

\* A match that a run has committed stands on what is recorded, and so does one that
\* a run is about to commit: what is recorded later only adds to it.  Until a run has
\* committed, the invoice has the status that the runs in progress have loaded.
BillsInv ==
    /\ IsFiniteSet(receipts)
    /\ \A i \in DOMAIN last : status[i] = "MATCHED" => Bills(i)
    /\ \A r \in Reconcilers :
          run[r].pc # "idle" /\ run[r].picked \notin DOMAIN last \union {NoPick} =>
              run[r].held = status[run[r].picked]
    /\ \A r \in Reconcilers :
          run[r].pc # "idle" /\ run[r].picked # NoPick /\ StatusOf(run[r].drafts) = "MATCHED"
              => Bills(run[r].picked)

\* Orders, invoices and receipts that are recorded have lines to count.
LEMMA FormsAreCounted ==
    /\ \A p \in OrderForms : Priced(p.lines)
    /\ \A v \in InvoiceForms : Priced(v.lines)
    /\ \A docs \in SUBSET ReceiptForms : IsFiniteSet(docs) => CountedDocuments(docs)
<1>1. \A p \in OrderForms : Priced(p.lines)
  <2>1. \A p \in OrderForms : p.lines \subseteq OrderLine /\ IsFiniteSet(p.lines)
      BY FormsAssumption DEF PurchaseOrder
  <2>2. \A l \in OrderLine : l.quantity \in Nat /\ l.price \in Nat
      BY DEF OrderLine
  <2> QED
      BY <2>1, <2>2 DEF Priced, Counted
<1>2. \A v \in InvoiceForms : Priced(v.lines)
  <2>1. \A v \in InvoiceForms : v.lines \subseteq InvoiceLine /\ IsFiniteSet(v.lines)
      BY FormsAssumption DEF Invoice
  <2>2. \A l \in InvoiceLine : l.quantity \in Nat /\ l.price \in Nat
      BY DEF InvoiceLine
  <2> QED
      BY <2>1, <2>2 DEF Priced, Counted
<1>3. \A docs \in SUBSET ReceiptForms : IsFiniteSet(docs) => CountedDocuments(docs)
  <2>1. \A g \in ReceiptForms : g.lines \subseteq ReceiptLine /\ IsFiniteSet(g.lines)
      BY FormsAssumption DEF GoodsReceipt
  <2>2. \A l \in ReceiptLine : l.quantity \in Nat
      BY DEF ReceiptLine
  <2> QED
      BY <2>1, <2>2 DEF CountedDocuments, Counted
<1> QED
    BY <1>1, <1>2, <1>3

\* The receipts of an order among those recorded.
LEMMA ReceiptsOfOrder ==
    ASSUME NEW recorded \in SUBSET ReceiptForms, IsFiniteSet(recorded), NEW p
    PROVE  /\ ReceiptsIn(p.id, [receipts |-> recorded]) \in SUBSET recorded
           /\ CountedDocuments(ReceiptsIn(p.id, [receipts |-> recorded]))
<1> DEFINE docs == ReceiptsIn(p.id, [receipts |-> recorded])
<1>1. docs \in SUBSET recorded
    BY DEF ReceiptsIn
<1>2. CountedDocuments(recorded)
    BY FormsAreCounted
<1> HIDE DEF docs
<1>3. CountedDocuments(docs)
    BY <1>1, <1>2, MoreIsCounted
<1> QED
    BY <1>1, <1>3 DEF docs

\* What a run with nothing to report has found of the invoice it was asked for.
LEMMA MatchIsWorth ==
    ASSUME DocumentsInv, IsFiniteSet(receipts), NEW order, NEW picked \in Ids(invoices),
           NEW config \in Configs, config.price < 100,
           StatusOf(Drafts(Loaded(order, picked, config))) = "MATCHED"
    PROVE  Bills(picked)
<1> DEFINE invoice == {v \in invoices : v.id = picked}
           id == IF order # NoRef \/ invoice = {} THEN order
                 ELSE (CHOOSE v \in invoice : TRUE).order
           in == Loaded(order, picked, config)
<1>1. Drafts(in) = {}
  <2> DEFINE found == Drafts(in)
  <2> HIDE DEF in
  <2>1. StatusOf(found) = "MATCHED" => found = {}
    <3> HIDE DEF found
    <3> QED
        BY DEF StatusOf
  <2> QED
      BY <2>1 DEF in
<1>2. /\ in.order = {p \in orders : p.id = id}
      /\ in.receipts = {g \in receipts : id # NoRef /\ g.order = id}
      /\ in.invoice = invoice /\ in.config = config
    BY DEF Loaded, Inputs, OrderIn, ReceiptsIn
<1> HIDE DEF in, id
<1>3. in.order # {} /\ in.invoice # {}
    BY <1>1, NothingMissing
<1>4. PICK p \in in.order, v \in in.invoice : TRUE
    BY <1>3
<1>5. p \in orders /\ p.id = id /\ v \in invoices /\ v.id = picked
    BY <1>2, <1>4
<1>6. in.receipts = ReceiptsIn(p.id, [receipts |-> receipts])
    BY <1>2, <1>5 DEF ReceiptsIn
<1>7. v.order = p.id /\ Compared(p, v, in.receipts, in.config)
    BY <1>1, NoDraftIsCompared
<1>8. receipts \in SUBSET ReceiptForms /\ Priced(p.lines) /\ Priced(v.lines)
    BY <1>5, FormsAreCounted DEF DocumentsInv
<1>9. CountedDocuments(in.receipts)
    BY <1>6, <1>8, ReceiptsOfOrder
<1>10. Compared(p, v, in.receipts, config)
    BY <1>2, <1>7
<1>11. 100 * Value(v.lines) <= WorthOn(p, in.receipts)
    BY <1>8, <1>9, <1>10, ComparedIsWorth
<1>12. Worth(p) = WorthOn(p, in.receipts)
    BY <1>6, <1>8, <1>9, WorthSum DEF Worth
<1> QED
    BY <1>5, <1>7, <1>11, <1>12 DEF Bills

\* What is recorded later.
LEMMA BillsStay ==
    ASSUME DocumentsInv, receipts' \in SUBSET ReceiptForms, IsFiniteSet(receipts'),
           orders \subseteq orders', receipts \subseteq receipts', invoices \subseteq invoices',
           NEW i, Bills(i)
    PROVE  Bills(i)'
<1>1. PICK v \in invoices, p \in orders :
          v.id = i /\ p.id = v.order /\ 100 * Value(v.lines) <= Worth(p)
    BY DEF Bills
<1>2. IsFiniteSet(receipts) /\ receipts \in SUBSET ReceiptForms /\ Configs # {}
    BY FS_Subset DEF Bills
<1> DEFINE now == ReceiptsIn(p.id, [receipts |-> receipts])
           then == ReceiptsIn(p.id, [receipts |-> receipts'])
<1>3. Priced(p.lines) /\ Priced(v.lines)
    BY FormsAreCounted DEF DocumentsInv
<1>4. Worth(p) = WorthOf(p, now) /\ Worth(p)' = WorthOf(p, then)
    BY DEF Worth
<1>5. now \in SUBSET then
    BY DEF ReceiptsIn
<1>6. CountedDocuments(now) /\ CountedDocuments(then)
    BY <1>2, ReceiptsOfOrder
<1> HIDE DEF now, then
<1>7. WorthOn(p, now) \in Nat /\ WorthOn(p, then) \in Nat /\ WorthOn(p, now) <= WorthOn(p, then)
    BY <1>2, <1>3, <1>5, <1>6, WorthGrows
<1>8. Value(v.lines) \in Nat
  <2>1. Values(v.lines) \in [v.lines -> Nat] /\ IsFiniteSet(v.lines)
      BY <1>3 DEF Priced, Counted, Values
  <2>2. Sum(v.lines, Values(v.lines)) \in Nat
      BY <2>1, SumIsNatural
  <2> QED
      BY <1>3, <2>2, ValueSum
<1>9. 100 * Value(v.lines) <= Worth(p)'
  <2>1. Worth(p) = WorthOn(p, now) /\ Worth(p)' = WorthOn(p, then)
      BY <1>2, <1>3, <1>4, <1>6, WorthSum
  <2> QED
      BY <1>1, <1>7, <1>8, <2>1
<1> QED
    BY <1>1, <1>2, <1>9 DEF Bills

\* Every step keeps the documents that are recorded, and adds at most one receipt.
LEMMA DocumentsGrow ==
    ASSUME ProcInv, ProcInv', IsFiniteSet(receipts), [ProcNext]_vars
    PROVE  /\ receipts' \in SUBSET ReceiptForms /\ IsFiniteSet(receipts')
           /\ orders \subseteq orders' /\ receipts \subseteq receipts'
           /\ invoices \subseteq invoices'
<1>1. receipts' \in SUBSET ReceiptForms
    BY DEF ProcInv, DocumentsInv
<1>2. CASE \E g \in ReceiptForms : CreateReceipt(g)
    BY <1>1, <1>2, FS_AddElement DEF CreateReceipt
<1>3. CASE UNCHANGED receipts /\ orders \subseteq orders' /\ invoices \subseteq invoices'
    BY <1>1, <1>3
<1>4. CASE ~\E g \in ReceiptForms : CreateReceipt(g)
  <2>1. UNCHANGED receipts /\ orders \subseteq orders' /\ invoices \subseteq invoices'
      BY <1>4 DEF ProcNext, vars, documents, CreateVendor, CreateOrder, CreateInvoice, BeginRun,
                  Upsert, CommitRun, AbandonRun
  <2> QED
      BY <1>1, <2>1
<1> QED
    BY <1>2, <1>4

\* At first no run has matched anything.
LEMMA BillsStart == ProcInit => BillsInv
<1> SUFFICES ASSUME ProcInit PROVE BillsInv
    OBVIOUS
<1>1. IsFiniteSet(receipts)
    BY FS_EmptySet DEF ProcInit
<1>2. DOMAIN last = {}
    BY DEF ProcInit
<1>3. \A r \in Reconcilers : run[r].pc = "idle"
    BY DEF ProcInit, Resting
<1> QED
    BY <1>1, <1>2, <1>3 DEF BillsInv

\* A step of a run, or the recording of an invoice, keeps the matches.
LEMMA BillsInvIsInductive ==
    ASSUME \A config \in Configs : config.price < 100,
           ProcInv, ProcInv', BillsInv, [ProcNext]_vars
    PROVE  BillsInv'
<1>1. IsFiniteSet(receipts')
    BY DocumentsGrow DEF BillsInv
<1>2. \A i : Bills(i) => Bills(i)'
    BY DocumentsGrow, BillsStay DEF BillsInv, ProcInv
<1> DEFINE Stands(i) == status[i] = "MATCHED" => Bills(i)
           Holds(u) == u.pc # "idle" /\ u.picked \notin DOMAIN last \union {NoPick} =>
                          u.held = status[u.picked]
           Finds(u) == u.pc # "idle" /\ u.picked # NoPick /\ StatusOf(u.drafts) = "MATCHED"
                          => Bills(u.picked)
<1>3. /\ \A i \in DOMAIN last : Stands(i)
      /\ \A r \in Reconcilers : Holds(run[r])
      /\ \A r \in Reconcilers : Finds(run[r])
    BY DEF BillsInv
<1>4. ASSUME UNCHANGED <<status, invoices, run, last>> PROVE BillsInv'
    BY <1>1, <1>2, <1>4 DEF BillsInv
<1>5. ASSUME NEW v \in InvoiceForms, NEW s \in Posted, CreateInvoice(v, s)
      PROVE  BillsInv'
  <2>1. /\ Ids(invoices') = Ids(invoices) \union {v.id}
        /\ v.id \notin Ids(invoices)
        /\ status' = [i \in Ids(invoices') |-> IF i = v.id THEN s ELSE status[i]]
        /\ UNCHANGED <<run, last>>
      BY <1>5, IdsOfMore DEF CreateInvoice
  <2>2. DOMAIN last \subseteq Ids(invoices) /\ \A i \in Ids(invoices) : status'[i] = status[i]
      BY <2>1 DEF ProcInv, DocumentsInv
  <2>3. \A i \in DOMAIN last' : status'[i] = "MATCHED" => Bills(i)'
      BY <1>2, <2>1, <2>2 DEF BillsInv
  <2>4. \A r \in Reconcilers : run[r].picked \in Ids(invoices) \union {NoPick}
      BY DEF ProcInv, RunsInv, RunInv
  <2>5. \A r \in Reconcilers :
           run'[r].pc # "idle" /\ run'[r].picked \notin DOMAIN last' \union {NoPick} =>
               run'[r].held = status'[run'[r].picked]
      BY <2>1, <2>2, <2>4 DEF BillsInv
  <2> QED
      BY <1>1, <1>2, <2>1, <2>3, <2>5 DEF BillsInv
<1>6. ASSUME NEW r \in Reconcilers, NEW config \in Configs, NEW order, NEW picked,
             BeginRun(r, order, picked, config)
      PROVE  BillsInv'
  <2>a. PICK drafts : drafts = Drafts(Loaded(order, picked, config))
      OBVIOUS
  <2>b. PICK held : held = IF picked = NoPick THEN "RECEIVED" ELSE status[picked]
      OBVIOUS
  <2> DEFINE u == [pc |-> "loaded", picked |-> picked, new |-> {}, held |-> held,
                   drafts |-> drafts]
  <2>1. /\ picked \in Ids(invoices) \union {NoPick} /\ run' = [run EXCEPT ![r] = u]
        /\ UNCHANGED <<documents, status, last>>
      BY <1>6, <2>a, <2>b DEF BeginRun
  <2>2. Finds(u)
    <3> SUFFICES ASSUME picked # NoPick, StatusOf(drafts) = "MATCHED" PROVE Bills(picked)
        OBVIOUS
    <3>1. picked \in Ids(invoices) /\ config.price < 100
        BY <2>1
    <3> QED
        BY <2>a, <3>1, MatchIsWorth DEF BillsInv, ProcInv
  <2>3. \A q \in Reconcilers : run'[q] = IF q = r THEN u ELSE run[q]
      BY <2>1 DEF ProcInv, RunsInv
  <2>4. Holds(u)
      BY <2>b
  <2> HIDE DEF u
  <2>5. \A q \in Reconcilers : Finds(run'[q]) /\ Holds(run'[q])
      BY <1>3, <2>2, <2>3, <2>4
  <2>6. \A i \in DOMAIN last' : status'[i] = "MATCHED" => Bills(i)'
      BY <1>2, <2>1 DEF BillsInv, documents
  <2>7. UNCHANGED <<invoices, status, last>>
      BY <2>1 DEF documents
  <2> QED
      BY <1>1, <1>2, <2>5, <2>6, <2>7 DEF BillsInv
<1>7. ASSUME NEW r \in Reconcilers, Upsert(r) PROVE BillsInv'
  <2>1. \A q \in Reconcilers : /\ run'[q].picked = run[q].picked /\ run'[q].held = run[q].held
                               /\ run'[q].drafts = run[q].drafts
                               /\ run'[q].pc # "idle" => run[q].pc # "idle"
    <3>1. run[r].pc = "loaded"
        BY <1>7 DEF Upsert
    <3>2. PICK new : run' = [run EXCEPT ![r].pc = "flushing", ![r].new = new]
        BY <1>7 DEF Upsert
    <3>3. /\ DOMAIN run = Reconcilers
          /\ run[r] = [pc |-> run[r].pc, picked |-> run[r].picked, held |-> run[r].held,
                        drafts |-> run[r].drafts, new |-> run[r].new]
        BY DEF ProcInv, RunsInv, RunInv
    <3> QED
        BY <3>1, <3>2, <3>3
  <2>2. ASSUME NEW q \in Reconcilers PROVE Finds(run'[q]) /\ Holds(run'[q])
    <3>1. /\ run'[q].picked = run[q].picked /\ run'[q].drafts = run[q].drafts
          /\ run'[q].held = run[q].held
          /\ run'[q].pc # "idle" => run[q].pc # "idle"
        BY <2>1
    <3>2. /\ StatusOf(run'[q].drafts) = StatusOf(run[q].drafts)
          /\ Bills(run'[q].picked) <=> Bills(run[q].picked)
        BY <3>1
    <3> QED
        BY <1>3, <3>1, <3>2
  <2>3. invoices' = invoices /\ status' = status /\ last' = last
      BY <1>7 DEF Upsert, documents
  <2>4. \A i \in DOMAIN last' : status'[i] = "MATCHED" => Bills(i)'
      BY <1>2, <2>3 DEF BillsInv
  <2> QED
      BY <1>1, <1>2, <2>2, <2>3, <2>4 DEF BillsInv
<1>8. ASSUME NEW r \in Reconcilers, run' = [run EXCEPT ![r] = Resting],
             UNCHANGED <<documents, status, last>>
      PROVE  BillsInv'
  <2>1. \A q \in Reconcilers : run'[q] = IF q = r THEN Resting ELSE run[q]
      BY <1>8 DEF ProcInv, RunsInv
  <2> QED
      BY <1>1, <1>2, <1>8, <2>1 DEF BillsInv, documents, Resting
<1>9. ASSUME NEW r \in Reconcilers, CommitRun(r) PROVE BillsInv'
  <2>a. PICK i : i = run[r].picked
      OBVIOUS
  <2>b. PICK result : result = StatusOf(run[r].drafts)
      OBVIOUS
  <2>c. PICK held : held = run[r].held
      OBVIOUS
  <2>d. PICK outcome : outcome = Outcome(held, result)
      OBVIOUS
  <2>1. /\ run' = [run EXCEPT ![r] = Resting]
        /\ \A q \in Reconcilers : run'[q] = IF q = r THEN Resting ELSE run[q]
        /\ UNCHANGED documents /\ run[r].pc = "flushing"
      BY <1>9 DEF CommitRun, ProcInv, RunsInv
  <2>2. CASE UNCHANGED <<status, last>>
      BY <1>8, <2>1, <2>2
  <2>3. CASE /\ status' = IF i = NoPick \/ outcome = held THEN status
                          ELSE [status EXCEPT ![i] = outcome]
             /\ last' = IF i = NoPick THEN last
                        ELSE [j \in DOMAIN last \union {i} |-> IF j = i THEN result ELSE last[j]]
    <3>1. i \in Ids(invoices) \union {NoPick}
        BY <2>a DEF ProcInv, RunsInv, RunInv
    <3>2. CASE i = NoPick
        BY <1>8, <2>1, <2>3, <3>2
    <3>3. CASE i # NoPick
      <4>1. /\ \A j \in Ids(invoices) : status'[j] = IF j = i /\ outcome # held THEN outcome
                                                     ELSE status[j]
            /\ DOMAIN last' = DOMAIN last \union {i} /\ DOMAIN last \subseteq Ids(invoices)
            /\ i \in Ids(invoices)
          BY <2>3, <3>1, <3>3 DEF ProcInv, DocumentsInv
      <4>2. outcome = "MATCHED" => result = "MATCHED"
          BY <2>d DEF Outcome, Open
      <4>3. outcome = "MATCHED" => Bills(i)
          BY <1>3, <2>1, <2>a, <2>b, <3>3, <4>2
      <4>4. i \in DOMAIN last \/ held = status[i]
          BY <1>3, <2>1, <2>a, <2>c, <3>3
      <4>5. ASSUME NEW j \in DOMAIN last', status'[j] = "MATCHED" PROVE Bills(j)
        <5>1. CASE j = i
            BY <1>3, <4>1, <4>3, <4>4, <4>5, <5>1
        <5>2. CASE j # i
            BY <1>3, <4>1, <4>5, <5>2
        <5> QED
            BY <5>1, <5>2
      <4>6. UNCHANGED invoices
          BY <2>1 DEF documents
      <4>7. ASSUME NEW q \in Reconcilers
            PROVE  /\ Finds(run'[q])
                   /\ run'[q].pc # "idle" /\ run'[q].picked \notin DOMAIN last' \union {NoPick}
                          => run'[q].held = status'[run'[q].picked]
        <5>1. CASE q = r
            BY <2>1, <5>1 DEF Resting
        <5>2. CASE q # r
          <6>1. run'[q] = run[q] /\ Finds(run[q]) /\ Holds(run[q])
              BY <1>3, <2>1, <5>2
          <6>2. run[q].picked \in Ids(invoices) \union {NoPick}
              BY DEF ProcInv, RunsInv, RunInv
          <6> QED
              BY <4>1, <6>1, <6>2
        <5> QED
            BY <5>1, <5>2
      <4>8. \A j \in DOMAIN last' : status'[j] = "MATCHED" => Bills(j)'
          BY <1>2, <4>5
      <4> QED
          BY <1>1, <1>2, <4>6, <4>7, <4>8 DEF BillsInv
    <3> QED
        BY <3>2, <3>3
  <2> QED
      BY <1>9, <2>2, <2>3, <2>a, <2>b, <2>c, <2>d DEF CommitRun
<1>10. CASE UNCHANGED vars
    BY <1>4, <1>10 DEF vars
<1>11. ASSUME NEW n, CreateVendor(n) PROVE BillsInv'
    BY <1>4, <1>11 DEF CreateVendor
<1>12. ASSUME NEW p, CreateOrder(p) PROVE BillsInv'
    BY <1>4, <1>12 DEF CreateOrder
<1>13. ASSUME NEW g, CreateReceipt(g) PROVE BillsInv'
    BY <1>4, <1>13 DEF CreateReceipt
<1>14. ASSUME NEW r \in Reconcilers, AbandonRun(r) PROVE BillsInv'
    BY <1>8, <1>14 DEF AbandonRun
<1> QED
    BY <1>5, <1>6, <1>7, <1>9, <1>10, <1>11, <1>12, <1>13, <1>14 DEF ProcNext

\* An invoice that has been reconciled and stands as MATCHED, whatever status its client
\* had given it, bills for no more than what has been received
\* on its order is worth at the prices of the order, with what the tolerances of a
\* request allow (reconcile, app/reconciliation/engine.py, and the outcome that
\* ReconciliationService._record_invoice_outcome commits): whichever runs it raced
\* with, and however many lines bill one line of the order.  A price is within a
\* tolerance of 100 percent or more of nothing, whatever it is (percent_variance,
\* app/reconciliation/rules.py), so the tolerances are below that.
THEOREM AMatchBillsWhatIsReceived ==
    ASSUME \A config \in Configs : config.price < 100
    PROVE  ProcSpec => []MatchedBillsWhatIsReceived
<1>1. ProcInit => ProcInv /\ BillsInv
    BY ProcStart, BillsStart
<1>2. ProcInv /\ BillsInv /\ [ProcNext]_vars => ProcInv' /\ BillsInv'
    BY ProcInvIsInductive, BillsInvIsInductive
<1>3. ProcInv /\ BillsInv => MatchedBillsWhatIsReceived
  <2> SUFFICES ASSUME ProcInv, BillsInv, NEW v \in invoices, v.id \in DOMAIN last,
                      status[v.id] = "MATCHED"
               PROVE  \E p \in orders : p.id = v.order /\ 100 * Value(v.lines) <= Worth(p)
      BY DEF MatchedBillsWhatIsReceived
  <2>1. Bills(v.id)
      BY DEF BillsInv, Ids
  <2> QED
      BY <2>1 DEF Bills, ProcInv, DocumentsInv
<1> QED
    BY <1>1, <1>2, <1>3, PTL DEF ProcSpec

-----------------------------------------------------------------------------
(* Procurement: the two engines.                                           *)

\* A severity is one at most, and given where a threshold is met.
LEMMA HighestIsOne ==
    ASSUME NEW met
    PROVE  /\ \A a, b \in Highest(met) : a = b
           /\ \A a \in Highest(met) : a \in met
<1> DEFINE B == {j \in 1 .. 4 : Severities[j] \in met} \union {0}
<1>1. Highest(met) = {Severities[i] : i \in {Max(B)} \ {0}}
    BY DEF Highest
<1>2. B # {} /\ B \subseteq Nat /\ B \subseteq 0 .. 4
    OBVIOUS
<1>3. IsFiniteSet(B)
  <2> DEFINE a == 0
             b == 4
  <2>1. a \in Int /\ b \in Int
      OBVIOUS
  <2> HIDE DEF a, b
  <2>2. IsFiniteSet(a .. b)
      BY <2>1, FS_Interval
  <2> HIDE DEF B
  <2> QED
      BY <1>2, <2>2, FS_Subset DEF a, b
<1>4. \A i \in B \ {0} : Severities[i] \in met
    OBVIOUS
<1> HIDE DEF B
<1>5. Max(B) \in B
    BY <1>2, <1>3, LastNumber
<1> QED
    BY <1>1, <1>4, <1>5

\* What is far enough off for a signal is too far off for reconciliation.
LEMMA SignalExceeds ==
    ASSUME \A s \in DOMAIN Percent : Percent[s] \in Nat \ {0},
           NEW expected \in Nat, NEW actual \in Nat, VarianceSeverity(expected, actual) # {}
    PROVE  Exceeds(expected, actual, 0)
<1> DEFINE met == {s \in DOMAIN Percent :
                     IF expected = 0 THEN actual # 0 /\ Percent[s] <= 100
                     ELSE 100 * Distance(expected, actual) >= Percent[s] * expected}
<1>1. VarianceSeverity(expected, actual) = Highest(met)
    BY DEF VarianceSeverity
<1> HIDE DEF met
<1>2. PICK s \in met : TRUE
    BY <1>1, HighestIsOne
<1>3. /\ s \in DOMAIN Percent
      /\ IF expected = 0 THEN actual # 0 /\ Percent[s] <= 100
         ELSE 100 * Distance(expected, actual) >= Percent[s] * expected
    BY <1>2 DEF met
<1>4. CASE expected = 0
    BY <1>3, <1>4 DEF Exceeds
<1>5. CASE expected # 0
  <2> DEFINE n == Percent[s]
             d == 100 * Distance(expected, actual)
  <2>1. n \in Nat /\ n > 0 /\ d >= n * expected /\ d \in Int
      BY <1>3, <1>5 DEF Distance
  <2> HIDE DEF n, d
  <2>2. n * expected > 0
      BY <1>5, <2>1
  <2>3. d > 0 * expected
      BY <2>1, <2>2
  <2> QED
      BY <1>5, <2>3 DEF Exceeds, d
<1> QED
    BY <1>4, <1>5

\* An id is that of one document, and of one line of it.
DocsAreOne(docs) ==
    /\ \A v, w \in docs.invoices : v.id = w.id => v = w
    /\ \A v \in docs.invoices : \A l, m \in v.lines : l.id = m.id => l = m

OrderIsOne(order) ==
    /\ OneOrNone(order)
    /\ \A p \in order : \A l, m \in p.lines : l.id = m.id => l = m

Siblings(v, docs) == {w \in docs.invoices : w.vendor = v.vendor}

LineParts(v, pair) == {<<"vendor", v.vendor>>, <<"invoice", v.id>>,
                       <<"line", pair[1].id>>, <<"order_line", pair[2].id>>}
LineSeverity(type, pair) ==
    IF type = "PRICE_VARIANCE" THEN VarianceSeverity(pair[2].price, pair[1].price)
    ELSE VarianceSeverity(pair[2].quantity, pair[1].quantity)
TimingSeverity(rule) == CASE rule = "invoice_before_po" -> "HIGH"
                          [] rule = "invoice_before_grn" -> "MEDIUM"
                          [] OTHER -> "LOW"

\* What the signals about an invoice are, by their type.
IsLine(s, v, order) ==
    /\ s.type \in {"PRICE_VARIANCE", "QUANTITY_VARIANCE"}
    /\ \E pair \in Linked(v, order) :
          s = Signal(s.type, "line", s.severity, LineParts(v, pair))
             /\ s.severity \in LineSeverity(s.type, pair)
IsDuplicateSignal(s) ==
    s.type = "DUPLICATE_INVOICE" /\ s = Signal(s.type, "identity", "HIGH", s.parts)
IsTiming(s) ==
    s.type = "TIMING_ANOMALY" /\ s = Signal(s.type, s.rule, TimingSeverity(s.rule), s.parts)
IsSpike(s, v, docs) == s \in SpikeSignals(v, Siblings(v, docs))

\* The signals of an invoice are of four kinds.
LEMMA SignalsAre ==
    ASSUME NEW v, NEW order, NEW arrived, NEW docs,
           NEW s \in InvoiceSignals(v, order, arrived, docs)
    PROVE  IsLine(s, v, order) \/ IsDuplicateSignal(s) \/ IsTiming(s) \/ IsSpike(s, v, docs)
<1>1. ASSUME NEW type \in {"PRICE_VARIANCE", "QUANTITY_VARIANCE"}, s \in LineSignals(v, order, type)
      PROVE  IsLine(s, v, order)
  <2>1. PICK pair \in Linked(v, order) : \E severity \in LineSeverity(type, pair) :
            s = Signal(type, "line", severity, LineParts(v, pair))
      BY <1>1 DEF LineSignals, LineSeverity, LineParts
  <2>2. PICK severity \in LineSeverity(type, pair) :
            s = Signal(type, "line", severity, LineParts(v, pair))
      BY <2>1
  <2>3. s.type = type /\ s.severity = severity
      BY <2>2 DEF Signal
  <2> QED
      BY <2>2, <2>3 DEF IsLine
<1>2. ASSUME s \in DuplicateSignals(v, Siblings(v, docs)) PROVE IsDuplicateSignal(s)
  <2>1. PICK parts : s = Signal("DUPLICATE_INVOICE", "identity", "HIGH", parts)
      BY <1>2 DEF DuplicateSignals
  <2> QED
      BY <2>1 DEF IsDuplicateSignal, Signal
<1>3. ASSUME s \in TimingSignals(v, order, arrived) PROVE IsTiming(s)
  <2>1. PICK rule, parts : s = Signal("TIMING_ANOMALY", rule, TimingSeverity(rule), parts)
    <3>1. \/ \E parts : s = Signal("TIMING_ANOMALY", "invoice_before_po", "HIGH", parts)
          \/ \E parts : s = Signal("TIMING_ANOMALY", "invoice_before_grn", "MEDIUM", parts)
          \/ \E parts : s = Signal("TIMING_ANOMALY", "long_delay", "LOW", parts)
        BY <1>3 DEF TimingSignals
    <3>2. /\ TimingSeverity("invoice_before_po") = "HIGH"
          /\ TimingSeverity("invoice_before_grn") = "MEDIUM"
          /\ TimingSeverity("long_delay") = "LOW"
        BY DEF TimingSeverity
    <3> QED
        BY <3>1, <3>2
  <2>2. s.type = "TIMING_ANOMALY" /\ s.rule = rule /\ s.parts = parts
      BY <2>1 DEF Signal
  <2> QED
      BY <2>1, <2>2 DEF IsTiming
<1>4. \/ s \in LineSignals(v, order, "PRICE_VARIANCE")
      \/ s \in LineSignals(v, order, "QUANTITY_VARIANCE")
      \/ s \in DuplicateSignals(v, Siblings(v, docs))
      \/ s \in TimingSignals(v, order, arrived)
      \/ s \in SpikeSignals(v, Siblings(v, docs))
    BY DEF InvoiceSignals, Siblings
<1> QED
    BY <1>1, <1>2, <1>3, <1>4 DEF IsSpike

\* A vendor has one signal about the total of an invoice, and one about its
\* exceptions.
LEMMA RatioIsOne ==
    ASSUME NEW part, NEW whole, NEW ladder
    PROVE  \A a, b \in RatioSeverity(part, whole, ladder) : a = b
BY HighestIsOne DEF RatioSeverity

\* An invoice has one spike at most.
LEMMA SpikeIsOne ==
    ASSUME NEW v, NEW others
    PROVE  /\ \A s, f \in SpikeSignals(v, others) : s = f
           /\ \A s \in SpikeSignals(v, others) :
                 s.type = "VENDOR_SPIKE" /\ s.parts = {<<"vendor", v.vendor>>, <<"invoice", v.id>>}
<1> DEFINE history == {w \in others : w.id # v.id}
           total == MapThenSumSet(LAMBDA w : w.total, history)
           found == RatioSeverity(v.total * Cardinality(history), total, SpikeRatio)
           spike(s) == Signal("VENDOR_SPIKE", "latest", s,
                              {<<"vendor", v.vendor>>, <<"invoice", v.id>>})
<1>1. SpikeSignals(v, others) \subseteq {spike(s) : s \in found}
  <2> HIDE DEF found
  <2> QED
      BY DEF SpikeSignals, found
<1>2. \A a, b \in found : a = b
    BY RatioIsOne
<1>3. \A s : /\ spike(s).type = "VENDOR_SPIKE"
             /\ spike(s).parts = {<<"vendor", v.vendor>>, <<"invoice", v.id>>}
    BY DEF Signal
<1> HIDE DEF found, spike
<1> QED
    BY <1>1, <1>2, <1>3

\* Signals about invoices of the same documents do not contradict each other.
LEMMA SignalsAgree ==
    ASSUME NEW docs, DocsAreOne(docs), NEW order, OrderIsOne(order), NEW arrived,
           NEW v \in docs.invoices, NEW s \in InvoiceSignals(v, order, arrived, docs),
           NEW w \in docs.invoices, NEW f \in InvoiceSignals(w, order, arrived, docs),
           Fingerprint(s) = Fingerprint(f)
    PROVE  s = f
<1>1. s.type = f.type /\ s.rule = f.rule /\ s.parts = f.parts
    BY DEF Fingerprint
<1>2. \/ IsLine(s, v, order) \/ IsDuplicateSignal(s) \/ IsTiming(s) \/ IsSpike(s, v, docs)
    BY SignalsAre
<1>3. \/ IsLine(f, w, order) \/ IsDuplicateSignal(f) \/ IsTiming(f) \/ IsSpike(f, w, docs)
    BY SignalsAre
<1>4. /\ IsSpike(s, v, docs) => s.type = "VENDOR_SPIKE"
      /\ IsSpike(f, w, docs) => f.type = "VENDOR_SPIKE"
    BY SpikeIsOne DEF IsSpike
<1>5. CASE IsLine(s, v, order)
  <2>1. IsLine(f, w, order)
      BY <1>1, <1>3, <1>4, <1>5 DEF IsLine, IsDuplicateSignal, IsTiming
  <2>2. PICK pair \in Linked(v, order) :
            /\ s = Signal(s.type, "line", s.severity, LineParts(v, pair))
            /\ s.severity \in LineSeverity(s.type, pair)
      BY <1>5 DEF IsLine
  <2>3. PICK other \in Linked(w, order) :
            /\ f = Signal(f.type, "line", f.severity, LineParts(w, other))
            /\ f.severity \in LineSeverity(f.type, other)
      BY <2>1 DEF IsLine
  <2>4. LineParts(v, pair) = LineParts(w, other)
    <3>1. s.parts = LineParts(v, pair)
        BY <2>2 DEF Signal
    <3>2. f.parts = LineParts(w, other)
        BY <2>3 DEF Signal
    <3> QED
        BY <1>1, <3>1, <3>2
  <2>5. v.id = w.id /\ pair[1].id = other[1].id /\ pair[2].id = other[2].id
    <3> DEFINE a == v.vendor
               b == v.id
               c == pair[1].id
               d == pair[2].id
               e == w.vendor
               g == w.id
               h == other[1].id
               i == other[2].id
    <3>1. {<<"vendor", a>>, <<"invoice", b>>, <<"line", c>>, <<"order_line", d>>}
              = {<<"vendor", e>>, <<"invoice", g>>, <<"line", h>>, <<"order_line", i>>}
        BY <2>4 DEF LineParts
    <3> HIDE DEF a, b, c, d, e, g, h, i
    <3>2. b = g
      <4>1. <<"invoice", b>> \in {<<"vendor", e>>, <<"invoice", g>>, <<"line", h>>,
                                 <<"order_line", i>>}
          BY <3>1
      <4> QED
          BY <4>1
    <3>3. c = h
      <4>1. <<"line", c>> \in {<<"vendor", e>>, <<"invoice", g>>, <<"line", h>>,
                              <<"order_line", i>>}
          BY <3>1
      <4> QED
          BY <4>1
    <3>4. d = i
      <4>1. <<"order_line", d>> \in {<<"vendor", e>>, <<"invoice", g>>, <<"line", h>>,
                                    <<"order_line", i>>}
          BY <3>1
      <4> QED
          BY <4>1
    <3> QED
        BY <3>2, <3>3, <3>4 DEF b, c, d, g, h, i
  <2>6. v = w
      BY <2>5 DEF DocsAreOne
  <2>7. pair = other
    <3>1. /\ pair = <<pair[1], pair[2]>> /\ pair[1] \in v.lines
          /\ \E p \in order : pair[2] \in p.lines
        BY DEF Linked
    <3>2. /\ other = <<other[1], other[2]>> /\ other[1] \in v.lines
          /\ \E p \in order : other[2] \in p.lines
        BY <2>6 DEF Linked
    <3>3. pair[1] = other[1]
        BY <2>5, <3>1, <3>2 DEF DocsAreOne
    <3>4. pair[2] = other[2]
        BY <2>5, <3>1, <3>2 DEF OrderIsOne, OneOrNone
    <3> QED
        BY <3>1, <3>2, <3>3, <3>4
  <2>8. \A a, b \in LineSeverity(s.type, pair) : a = b
      BY HighestIsOne DEF LineSeverity, VarianceSeverity
  <2>9. s.severity = f.severity
      BY <1>1, <2>2, <2>3, <2>7, <2>8
  <2> QED
      BY <1>1, <2>2, <2>3, <2>4, <2>9
<1>6. CASE IsDuplicateSignal(s)
  <2>1. IsDuplicateSignal(f)
      BY <1>1, <1>3, <1>4, <1>6 DEF IsLine, IsDuplicateSignal, IsTiming
  <2> QED
      BY <1>1, <1>6, <2>1 DEF IsDuplicateSignal
<1>7. CASE IsTiming(s)
  <2>1. IsTiming(f)
      BY <1>1, <1>3, <1>4, <1>7 DEF IsLine, IsDuplicateSignal, IsTiming
  <2> QED
      BY <1>1, <1>7, <2>1 DEF IsTiming
<1>8. CASE IsSpike(s, v, docs)
  <2>1. IsSpike(f, w, docs)
      BY <1>1, <1>3, <1>4, <1>8 DEF IsLine, IsDuplicateSignal, IsTiming
  <2>2. v = w
    <3>1. {<<"vendor", v.vendor>>, <<"invoice", v.id>>}
              = {<<"vendor", w.vendor>>, <<"invoice", w.id>>}
        BY <1>1, <1>8, <2>1, SpikeIsOne DEF IsSpike
    <3>2. <<"invoice", v.id>> \in {<<"vendor", w.vendor>>, <<"invoice", w.id>>}
        BY <3>1
    <3>3. v.id = w.id
        BY <3>2
    <3> QED
        BY <3>3 DEF DocsAreOne
  <2> QED
      BY <1>8, <2>1, <2>2, SpikeIsOne DEF IsSpike
<1> QED
    BY <1>2, <1>5, <1>6, <1>7, <1>8

\* Nor do those about vendors.
LEMMA VendorSignalsAgree ==
    ASSUME NEW docs, DocsAreOne(docs),
           NEW x, NEW s \in SignalsForVendor(x, docs), NEW y, NEW f \in SignalsForVendor(y, docs),
           Fingerprint(s) = Fingerprint(f)
    PROVE  s = f
<1>1. s.type = f.type /\ s.parts = f.parts
    BY DEF Fingerprint
<1> DEFINE all(z) == {v \in docs.invoices : v.vendor = z}
           recent(z) == {v \in all(z) : v.date >= docs.today - WindowDays}
           about(z) == {e \in docs.exceptions :
                            \E v \in recent(z) : <<"invoice", v.id>> \in e.parts}
           mismatch(z) ==
              MismatchSignals(z, Cardinality(recent(z)), Cardinality(about(z)), docs.today)
<1>2. ASSUME NEW z, NEW t \in SignalsForVendor(z, docs)
      PROVE  \/ t \in mismatch(z)
             \/ \E v \in docs.invoices : t \in SpikeSignals(v, Siblings(v, docs))
  <2>1. SignalsForVendor(z, docs) = (UNION {SpikeSignals(v, all(z)) : v \in Latest(all(z))})
                                        \union mismatch(z)
      BY DEF SignalsForVendor
  <2>2. \A v \in Latest(all(z)) : v \in docs.invoices /\ all(z) = Siblings(v, docs)
      BY DEF Latest, Siblings
  <2> HIDE DEF all, mismatch
  <2> QED
      BY <2>1, <2>2
<1>3. ASSUME NEW z, NEW a, NEW b, NEW d
      PROVE  /\ \A t, u \in MismatchSignals(z, a, b, d) : t = u
             /\ \A t \in MismatchSignals(z, a, b, d) :
                   t.type = "REPEATED_MISMATCH" /\ t.parts = {<<"vendor", z>>, <<"day", d>>}
  <2> DEFINE found == RatioSeverity(100 * b, a, MismatchRate)
             signal(t) == Signal("REPEATED_MISMATCH", "window", t, {<<"vendor", z>>, <<"day", d>>})
  <2>1. MismatchSignals(z, a, b, d) \subseteq {signal(t) : t \in found}
      BY DEF MismatchSignals
  <2>2. \A t, u \in found : t = u
      BY RatioIsOne
  <2>3. \A t : /\ signal(t).type = "REPEATED_MISMATCH"
               /\ signal(t).parts = {<<"vendor", z>>, <<"day", d>>}
      BY DEF Signal
  <2> HIDE DEF found, signal
  <2> QED
      BY <2>1, <2>2, <2>3
<1>4. \A z : \A t, u \in mismatch(z) : t = u
    BY <1>3
<1>5. \A z : \A t \in mismatch(z) :
          t.type = "REPEATED_MISMATCH" /\ t.parts = {<<"vendor", z>>, <<"day", docs.today>>}
    BY <1>3
<1> HIDE DEF mismatch
<1>6. CASE s \in mismatch(x)
  <2>1. f \in mismatch(y)
      BY <1>1, <1>2, <1>5, <1>6, SpikeIsOne
  <2>2. {<<"vendor", x>>, <<"day", docs.today>>} = {<<"vendor", y>>, <<"day", docs.today>>}
      BY <1>1, <1>5, <1>6, <2>1
  <2>3. <<"vendor", x>> \in {<<"vendor", y>>, <<"day", docs.today>>}
      BY <2>2
  <2>4. x = y
      BY <2>3
  <2> QED
      BY <1>4, <1>6, <2>1, <2>4
<1>7. CASE s \notin mismatch(x)
  <2>1. PICK v \in docs.invoices : s \in SpikeSignals(v, Siblings(v, docs))
      BY <1>2, <1>7
  <2>2. f \notin mismatch(y)
      BY <1>1, <1>5, <2>1, SpikeIsOne
  <2>3. PICK w \in docs.invoices : f \in SpikeSignals(w, Siblings(w, docs))
      BY <1>2, <2>2
  <2>4. {<<"vendor", v.vendor>>, <<"invoice", v.id>>}
            = {<<"vendor", w.vendor>>, <<"invoice", w.id>>}
      BY <1>1, <2>1, <2>3, SpikeIsOne
  <2>5. <<"invoice", v.id>> \in {<<"vendor", w.vendor>>, <<"invoice", w.id>>}
      BY <2>4
  <2>6. v.id = w.id
      BY <2>5
  <2>7. v = w
      BY <2>6 DEF DocsAreOne
  <2> QED
      BY <2>1, <2>3, <2>7, SpikeIsOne
<1> QED
    BY <1>6, <1>7

\* What is detected for an exception is counted once.
LEMMA ExceptionSignalsAgree ==
    ASSUME NEW docs, DocsAreOne(docs), \A id : OrderIsOne(OrderIn(id, docs)), NEW e,
           NEW s \in SignalsForException(e, docs), NEW f \in SignalsForException(e, docs),
           Fingerprint(s) = Fingerprint(f)
    PROVE  s = f
<1> DEFINE about == {v \in docs.invoices : <<"invoice", v.id>> \in e.parts}
           id == IF e.order # NoRef \/ about = {} THEN e.order
                 ELSE (CHOOSE v \in about : TRUE).order
           sellers == IF about # {} THEN {v.vendor : v \in about}
                      ELSE {p.vendor : p \in OrderIn(id, docs)}
           order == OrderIn(id, docs)
           arrived == ReceiptsIn(id, docs)
           first == UNION {InvoiceSignals(v, order, arrived, docs) : v \in about}
           theirs == UNION {SignalsForVendor(vendor, docs) : vendor \in sellers}
<1>1. SignalsForException(e, docs) =
          first \union {t \in theirs : \A u \in first : Fingerprint(u) # Fingerprint(t)}
    BY DEF SignalsForException
<1>2. OrderIsOne(order)
    OBVIOUS
<1>3. \A t \in first : \E v \in docs.invoices : t \in InvoiceSignals(v, order, arrived, docs)
    OBVIOUS
<1>4. \A t \in theirs : \E x : t \in SignalsForVendor(x, docs)
    OBVIOUS
<1> HIDE DEF first, theirs, order, arrived
<1>5. CASE s \in first /\ f \in first
    BY <1>2, <1>3, <1>5, SignalsAgree
<1>6. CASE s \in theirs /\ f \in theirs
    BY <1>4, <1>6, VendorSignalsAgree
<1> QED
    BY <1>1, <1>5, <1>6

\* The default tolerances, and what reconciliation looks at for an invoice.
NoTolerance == [quantity |-> 0, price |-> 0, tax |-> 0]

\* What a run for an invoice loads.
LEMMA LoadedForInvoice ==
    ASSUME DocumentsInv, NEW v \in invoices, v.order # NoRef
    PROVE  LET in == Loaded(NoRef, v.id, NoTolerance)
           IN  /\ in.invoice = {v} /\ in.order = OrderIn(v.order, Docs)
               /\ in.others = invoices /\ in.config = NoTolerance
<1> DEFINE invoice == {w \in invoices : w.id = v.id}
<1>1. invoice = {v}
    BY DEF DocumentsInv
<1>2. (CHOOSE w \in invoice : TRUE) = v
    BY <1>1
<1>3. /\ Loaded(NoRef, v.id, NoTolerance).invoice = invoice
      /\ Loaded(NoRef, v.id, NoTolerance).others = invoices
      /\ Loaded(NoRef, v.id, NoTolerance).config = NoTolerance
      /\ Loaded(NoRef, v.id, NoTolerance).order
            = OrderIn((CHOOSE w \in invoice : TRUE).order, [orders |-> orders])
    BY <1>1 DEF Loaded, Inputs
<1>4. \A id : OrderIn(id, [orders |-> orders]) = OrderIn(id, Docs)
    BY DEF OrderIn, Docs
<1> HIDE DEF invoice
<1> QED
    BY <1>1, <1>2, <1>3, <1>4

\* What is found against an order is no duplicate, and a date too early only where
\* the dates are compared.
LEMMA AgainstTypes ==
    ASSUME NEW in, NEW p
    PROVE  \A d \in AgainstOrder(p, in) :
              /\ d.type # "DUPLICATE_INVOICE"
              /\ d.type = "DATE_MISMATCH" /\ d.rule = "invoice" =>
                    d \in EarlyDocuments(p, "invoice", in.invoice)
<1> DEFINE Allowed(d) == d.type \notin {"DUPLICATE_INVOICE", "DATE_MISMATCH"}
           types == {"IDENTIFIER_MISMATCH", "QUANTITY_MISMATCH", "PRICE_MISMATCH", "TAX_MISMATCH"}
           quantities(v) ==
              UNION {QuantityExceptions(p, v, in.receipts, l, in.config.quantity) : l \in p.lines}
           ofInvoice(v) ==
              Unmatched(p, "invoice", v)
              \union AmountMismatches(p, v, "PRICE_MISMATCH", in.config.price)
              \union AmountMismatches(p, v, "TAX_MISMATCH", in.config.tax)
              \union (IF in.receipts = {} THEN {} ELSE quantities(v))
<1>1. \A type \in types : \A rule, parts : Allowed(Draft(type, rule, p.id, parts))
    BY DEF Draft
<1> HIDE DEF Allowed
<1>2. \A kind, docs : \A d \in HeaderMismatches(p, kind, docs) : Allowed(d)
    BY <1>1 DEF HeaderMismatches
<1>3. \A kind, doc : \A d \in Unmatched(p, kind, doc) : Allowed(d)
    BY <1>1 DEF Unmatched
<1>4. ASSUME NEW v, NEW tolerance, NEW type \in {"PRICE_MISMATCH", "TAX_MISMATCH"},
             NEW d \in AmountMismatches(p, v, type, tolerance)
      PROVE  Allowed(d)
  <2>1. PICK parts : d = Draft(type, "line", p.id, parts)
      BY DEF AmountMismatches
  <2> QED
      BY <1>1, <2>1
<1>5. \A v, docs, l, tolerance : \A d \in QuantityExceptions(p, v, docs, l, tolerance) : Allowed(d)
    BY <1>1 DEF QuantityExceptions
<1>6. \A v : \A d \in quantities(v) : Allowed(d)
    BY <1>5
<1> HIDE DEF quantities
<1>7. \A v : \A d \in ofInvoice(v) : Allowed(d)
    BY <1>3, <1>4, <1>6
<1>8. AgainstOrder(p, in) =
          HeaderMismatches(p, "receipt", in.receipts) \union HeaderMismatches(p, "invoice", in.invoice)
          \union EarlyDocuments(p, "receipt", in.receipts)
          \union EarlyDocuments(p, "invoice", in.invoice)
          \union (UNION {Unmatched(p, "receipt", g) : g \in in.receipts})
          \union UNION {ofInvoice(v) : v \in in.invoice}
    BY DEF AgainstOrder, quantities
<1>9. \A d \in EarlyDocuments(p, "receipt", in.receipts) :
          d.type = "DATE_MISMATCH" /\ d.rule = "receipt"
    BY DEF EarlyDocuments, Draft
<1>10. \A d \in EarlyDocuments(p, "invoice", in.invoice) : d.type = "DATE_MISMATCH"
    BY DEF EarlyDocuments, Draft
<1> HIDE DEF ofInvoice
<1>11. ASSUME NEW d \in AgainstOrder(p, in)
       PROVE  \/ Allowed(d)
              \/ d \in EarlyDocuments(p, "receipt", in.receipts)
              \/ d \in EarlyDocuments(p, "invoice", in.invoice)
  <2>1. \/ d \in HeaderMismatches(p, "receipt", in.receipts)
        \/ d \in HeaderMismatches(p, "invoice", in.invoice)
        \/ d \in EarlyDocuments(p, "receipt", in.receipts)
        \/ d \in EarlyDocuments(p, "invoice", in.invoice)
        \/ \E g \in in.receipts : d \in Unmatched(p, "receipt", g)
        \/ \E v \in in.invoice : d \in ofInvoice(v)
      BY <1>8
  <2> QED
      BY <1>2, <1>3, <1>7, <2>1
<1> QED
    BY <1>9, <1>10, <1>11 DEF Allowed

\* The drafts where there is an invoice, and which rule each of them is of.
LEMMA DraftsOfInvoice ==
    ASSUME NEW in, NEW v, in.invoice = {v}
    PROVE  Drafts(in) = MissingDocuments(in) \union DuplicateExceptions(v, in.others)
                            \union UNION {AgainstOrder(p, in) : p \in in.order}
<1>1. UNION {DuplicateExceptions(w, in.others) : w \in in.invoice}
          = DuplicateExceptions(v, in.others)
    OBVIOUS
<1>2. in.invoice # {}
    OBVIOUS
<1>3. Drafts(in) = MissingDocuments(in)
                   \union (UNION {DuplicateExceptions(w, in.others) : w \in in.invoice})
                   \union UNION {AgainstOrder(p, in) : p \in in.order}
    BY <1>2 DEF Drafts
<1> QED
    BY <1>1, <1>3

\* A missing document is only that.
LEMMA MissingTypes ==
    ASSUME NEW in
    PROVE  \A d \in MissingDocuments(in) : d.type = "MISSING_DOCUMENT"
<1>1. \A what, a, b, c : \A d \in Missing(what, a, b, c) : d.type = "MISSING_DOCUMENT"
    BY DEF Missing, Draft
<1> QED
    BY <1>1 DEF MissingDocuments

\* A draft of a duplicate, and what it says.
LEMMA DuplicateDrafts ==
    ASSUME NEW in, NEW v, in.invoice = {v}
    PROVE  (\E d \in Drafts(in) : d.type = "DUPLICATE_INVOICE" /\ d.rule = "identity")
               <=> \E w \in in.others : IsDuplicate(v, w)
<1>1. Drafts(in) = MissingDocuments(in) \union DuplicateExceptions(v, in.others)
                       \union UNION {AgainstOrder(p, in) : p \in in.order}
    BY DraftsOfInvoice
<1>2. \A d \in MissingDocuments(in) : d.type = "MISSING_DOCUMENT"
    BY MissingTypes
<1>3. \A p : \A d \in AgainstOrder(p, in) : d.type # "DUPLICATE_INVOICE"
    BY AgainstTypes
<1>4. \A d \in DuplicateExceptions(v, in.others) :
          d.type = "DUPLICATE_INVOICE" /\ d.rule = "identity"
    BY DEF DuplicateExceptions, Draft
<1>5. (\E d \in DuplicateExceptions(v, in.others) : TRUE)
          <=> \E w \in in.others : IsDuplicate(v, w)
    BY DEF DuplicateExceptions
<1>6. (\E d \in Drafts(in) : d.type = "DUPLICATE_INVOICE" /\ d.rule = "identity")
          <=> \E d \in DuplicateExceptions(v, in.others) : TRUE
    BY <1>1, <1>2, <1>3, <1>4
<1> QED
    BY <1>5, <1>6

\* A draft of an early invoice, and what it says.
LEMMA DateDrafts ==
    ASSUME NEW in, NEW v, in.invoice = {v}
    PROVE  (\E d \in Drafts(in) : d.type = "DATE_MISMATCH" /\ d.rule = "invoice")
               <=> \E p \in in.order : v.date < p.date
<1>1. Drafts(in) = MissingDocuments(in) \union DuplicateExceptions(v, in.others)
                       \union UNION {AgainstOrder(p, in) : p \in in.order}
    BY DraftsOfInvoice
<1>2. \A d \in MissingDocuments(in) : d.type = "MISSING_DOCUMENT"
    BY MissingTypes
<1>3. \A d \in DuplicateExceptions(v, in.others) : d.type = "DUPLICATE_INVOICE"
    BY DEF DuplicateExceptions, Draft
<1>4. \A p : (\E d \in EarlyDocuments(p, "invoice", in.invoice) : TRUE) <=> v.date < p.date
    BY DEF EarlyDocuments
<1>5. \A p : EarlyDocuments(p, "invoice", in.invoice) \subseteq AgainstOrder(p, in)
    BY DEF AgainstOrder
<1>6. \A p : \A d \in EarlyDocuments(p, "invoice", in.invoice) :
          d.type = "DATE_MISMATCH" /\ d.rule = "invoice"
    BY DEF EarlyDocuments, Draft
<1>7. ASSUME NEW d \in Drafts(in), d.type = "DATE_MISMATCH", d.rule = "invoice"
      PROVE  \E p \in in.order : v.date < p.date
  <2>1. PICK p \in in.order : d \in AgainstOrder(p, in)
      BY <1>1, <1>2, <1>3, <1>7
  <2>2. d \in EarlyDocuments(p, "invoice", in.invoice)
      BY <1>7, <2>1, AgainstTypes
  <2> QED
      BY <1>4, <2>2
<1>8. ASSUME NEW p \in in.order, v.date < p.date
      PROVE  \E d \in Drafts(in) : d.type = "DATE_MISMATCH" /\ d.rule = "invoice"
  <2>1. PICK d \in EarlyDocuments(p, "invoice", in.invoice) : TRUE
      BY <1>4, <1>8
  <2>2. d \in Drafts(in)
      BY <1>1, <1>5, <2>1
  <2> QED
      BY <1>6, <2>1, <2>2
<1> QED
    BY <1>7, <1>8

\* A price that is a signal has its draft.
LEMMA PriceDrafts ==
    ASSUME \A s \in DOMAIN Percent : Percent[s] \in Nat \ {0},
           NEW in, NEW v, in.invoice = {v}, in.config.price = 0,
           \A line \in v.lines : line.price \in Nat,
           \A p \in in.order : \A l \in p.lines : l.id # NoRef /\ l.price \in Nat,
           NEW s \in LineSignals(v, in.order, "PRICE_VARIANCE")
    PROVE  \E d \in Drafts(in) :
              d.type = "PRICE_MISMATCH" /\ s.parts \ {<<"vendor", v.vendor>>} \subseteq d.parts
<1>1. PICK pair \in Linked(v, in.order) :
          \E severity \in VarianceSeverity(pair[2].price, pair[1].price) :
             s = Signal("PRICE_VARIANCE", "line", severity, LineParts(v, pair))
  <2> DEFINE of(pair) ==
                {Signal("PRICE_VARIANCE", "line", severity,
                        {<<"vendor", v.vendor>>, <<"invoice", v.id>>,
                         <<"line", pair[1].id>>, <<"order_line", pair[2].id>>})
                   : severity \in VarianceSeverity(pair[2].price, pair[1].price)}
  <2>1. LineSignals(v, in.order, "PRICE_VARIANCE") = UNION {of(pair) : pair \in Linked(v, in.order)}
      BY DEF LineSignals
  <2>2. PICK pair \in Linked(v, in.order) : s \in of(pair)
    <3> HIDE DEF of
    <3> QED
        BY <2>1
  <2> QED
      BY <2>2 DEF LineParts
<1>2. s.parts = LineParts(v, pair) /\ VarianceSeverity(pair[2].price, pair[1].price) # {}
    BY <1>1 DEF Signal
<1>3. PICK p \in in.order : pair[2] \in p.lines
    BY DEF Linked
<1>4. PICK line : line = pair[1]
    OBVIOUS
<1>5. PICK l : l = pair[2]
    OBVIOUS
<1>6. line \in v.lines /\ line.ref = l.id /\ l \in p.lines
    BY <1>3, <1>4, <1>5 DEF Linked
<1>7. l.id # NoRef /\ l.price \in Nat /\ line.price \in Nat
    BY <1>6
<1>8. Exceeds(l.price, line.price, 0)
    BY <1>2, <1>4, <1>5, <1>7, SignalExceeds
<1>9. l \in MatchedLines(p, line)
    BY <1>6, <1>7 DEF MatchedLines
<1> DEFINE d == Draft("PRICE_MISMATCH", "line", p.id,
                      {<<"order", p.id>>, <<"order_line", l.id>>,
                       <<"invoice", v.id>>, <<"line", line.id>>})
           found == {Draft("PRICE_MISMATCH", "line", p.id,
                           {<<"order", p.id>>, <<"order_line", m.id>>,
                            <<"invoice", v.id>>, <<"line", line.id>>})
                       : m \in {n \in MatchedLines(p, line) :
                             Exceeds(Amount(n, "PRICE_MISMATCH"), Amount(line, "PRICE_MISMATCH"), 0)}}
<1>10. d \in found
    BY <1>8, <1>9 DEF Amount
<1>11. found \subseteq AmountMismatches(p, v, "PRICE_MISMATCH", 0)
    BY <1>6 DEF AmountMismatches
<1>12. AmountMismatches(p, v, "PRICE_MISMATCH", 0) \subseteq AgainstOrder(p, in)
    BY DEF AgainstOrder
<1>13. AgainstOrder(p, in) \subseteq Drafts(in)
  <2>1. Drafts(in) = MissingDocuments(in) \union DuplicateExceptions(v, in.others)
                         \union UNION {AgainstOrder(q, in) : q \in in.order}
      BY DraftsOfInvoice
  <2> QED
      BY <2>1
<1>14. d.type = "PRICE_MISMATCH"
    BY DEF Draft
<1>15. s.parts \ {<<"vendor", v.vendor>>} \subseteq d.parts
    BY <1>2, <1>4, <1>5 DEF LineParts, Draft
<1> HIDE DEF d, found
<1> QED
    BY <1>10, <1>11, <1>12, <1>13, <1>14, <1>15

\* The engines agree about the invoice of an order.
LEMMA InvoiceAgrees ==
    ASSUME \A s \in DOMAIN Percent : Percent[s] \in Nat \ {0},
           DocumentsInv, IsFiniteSet(invoices), NEW v \in invoices, v.order # NoRef
    PROVE  LET drafts == Drafts(Loaded(NoRef, v.id, NoTolerance))
               signals == SignalsForInvoice(v, Docs)
           IN  /\ \A s \in signals : s.type = "PRICE_VARIANCE" =>
                     \E d \in drafts : d.type = "PRICE_MISMATCH"
                                      /\ s.parts \ {<<"vendor", v.vendor>>} \subseteq d.parts
               /\ (\E s \in signals : s.type = "DUPLICATE_INVOICE" /\ s.rule = "identity")
                     <=> \E d \in drafts : d.type = "DUPLICATE_INVOICE" /\ d.rule = "identity"
               /\ (\E s \in signals : s.type = "TIMING_ANOMALY" /\ s.rule = "invoice_before_po")
                     <=> \E d \in drafts : d.type = "DATE_MISMATCH" /\ d.rule = "invoice"
<1> DEFINE in == Loaded(NoRef, v.id, NoTolerance)
           order == OrderIn(v.order, Docs)
           arrived == ReceiptsIn(v.order, Docs)
           siblings == Siblings(v, Docs)
           signals == SignalsForInvoice(v, Docs)
<1>1. /\ in.invoice = {v} /\ in.order = order
      /\ in.others = invoices /\ in.config = NoTolerance
    BY LoadedForInvoice
<1>2. /\ signals = LineSignals(v, order, "PRICE_VARIANCE")
                   \union LineSignals(v, order, "QUANTITY_VARIANCE")
                   \union DuplicateSignals(v, siblings) \union TimingSignals(v, order, arrived)
                   \union SpikeSignals(v, siblings)
      /\ signals = InvoiceSignals(v, order, arrived, Docs)
    BY DEF SignalsForInvoice, InvoiceSignals, Siblings
<1>3. order \subseteq orders /\ siblings = {w \in invoices : w.vendor = v.vendor}
    BY DEF OrderIn, Docs, Siblings
<1>4. /\ \A line \in v.lines : line.price \in Nat
      /\ \A p \in order : \A l \in p.lines : l.id # NoRef /\ l.price \in Nat
  <2>1. v.lines \subseteq InvoiceLine
      BY FormsAssumption DEF DocumentsInv, Invoice
  <2>2. \A p \in order : p.lines \subseteq OrderLine
      BY <1>3, FormsAssumption DEF DocumentsInv, PurchaseOrder
  <2> QED
      BY <2>1, <2>2 DEF InvoiceLine, OrderLine
<1>5. in.config.price = 0
    BY <1>1 DEF NoTolerance
<1> HIDE DEF in, order, arrived, siblings, signals
<1>6. /\ \A type : \A s \in LineSignals(v, order, type) : s.type = type
      /\ \A s \in DuplicateSignals(v, siblings) :
            s.type = "DUPLICATE_INVOICE" /\ s.rule = "identity"
      /\ \A s \in TimingSignals(v, order, arrived) : s.type = "TIMING_ANOMALY"
      /\ \A s \in SpikeSignals(v, siblings) : s.type = "VENDOR_SPIKE"
  <2>1. \A type : \A s \in LineSignals(v, order, type) : s.type = type
      BY DEF LineSignals, Signal
  <2>2. \A s \in DuplicateSignals(v, siblings) : s.type = "DUPLICATE_INVOICE" /\ s.rule = "identity"
      BY DEF DuplicateSignals, Signal
  <2>3. \A s \in TimingSignals(v, order, arrived) : s.type = "TIMING_ANOMALY"
      BY DEF TimingSignals, Signal
  <2>4. \A s \in SpikeSignals(v, siblings) : s.type = "VENDOR_SPIKE"
      BY SpikeIsOne
  <2> QED
      BY <2>1, <2>2, <2>3, <2>4
<1>7. ASSUME NEW s \in signals, s.type = "PRICE_VARIANCE"
      PROVE  \E d \in Drafts(in) : d.type = "PRICE_MISMATCH"
                                   /\ s.parts \ {<<"vendor", v.vendor>>} \subseteq d.parts
  <2>1. s \in LineSignals(v, order, "PRICE_VARIANCE")
      BY <1>2, <1>6, <1>7
  <2>2. s \in LineSignals(v, in.order, "PRICE_VARIANCE")
      BY <1>1, <2>1
  <2>3. \A p \in in.order : \A l \in p.lines : l.id # NoRef /\ l.price \in Nat
      BY <1>1, <1>4
  <2> QED
      BY <1>1, <1>4, <1>5, <2>2, <2>3, PriceDrafts
<1>8. (\E s \in signals : s.type = "DUPLICATE_INVOICE" /\ s.rule = "identity")
          <=> \E d \in Drafts(in) : d.type = "DUPLICATE_INVOICE" /\ d.rule = "identity"
  <2> DEFINE same == {x \in siblings : Normal[x.number] = Normal[v.number]}
  <2>1. (\E s \in signals : s.type = "DUPLICATE_INVOICE" /\ s.rule = "identity")
            <=> \E s \in DuplicateSignals(v, siblings) : TRUE
      BY <1>2, <1>6
  <2>2. (\E s \in DuplicateSignals(v, siblings) : TRUE) <=> Cardinality(same) >= 2
      BY DEF DuplicateSignals
  <2>3. IsFiniteSet(same) /\ v \in same
      BY <1>3, FS_Subset
  <2>4. (\E w \in same : w # v) <=> \E w \in invoices : IsDuplicate(v, w)
      BY <1>3 DEF IsDuplicate, DocumentsInv
  <2> HIDE DEF same
  <2>5. Cardinality(same) >= 2 <=> \E w \in same : w # v
      BY <2>3, TwoElements
  <2>6. (\E w \in in.others : IsDuplicate(v, w))
            <=> \E d \in Drafts(in) : d.type = "DUPLICATE_INVOICE" /\ d.rule = "identity"
      BY <1>1, DuplicateDrafts
  <2> QED
      BY <1>1, <2>1, <2>2, <2>4, <2>5, <2>6
<1>9. (\E s \in signals : s.type = "TIMING_ANOMALY" /\ s.rule = "invoice_before_po")
          <=> \E d \in Drafts(in) : d.type = "DATE_MISMATCH" /\ d.rule = "invoice"
  <2>1. (\E s \in signals : s.type = "TIMING_ANOMALY" /\ s.rule = "invoice_before_po")
            <=> \E s \in TimingSignals(v, order, arrived) : s.rule = "invoice_before_po"
      BY <1>2, <1>6
  <2>2. (\E s \in TimingSignals(v, order, arrived) : s.rule = "invoice_before_po")
            <=> \E p \in order : v.date < p.date
    <3> DEFINE early(p) == Signal("TIMING_ANOMALY", "invoice_before_po", "HIGH",
                                  {<<"invoice", v.id>>, <<"order", p.id>>})
               A == {early(p) : p \in {q \in order : v.date < q.date}}
               B == {Signal("TIMING_ANOMALY", "invoice_before_grn", "MEDIUM",
                            {<<"invoice", v.id>>, <<"receipt", g.id>>})
                       : g \in {h \in arrived : v.date < h.date}}
               C == {Signal("TIMING_ANOMALY", "long_delay", "LOW",
                            {<<"invoice", v.id>>, <<"order", p.id>>})
                       : p \in {q \in order : v.date - q.date > LongDelay}}
    <3>1. TimingSignals(v, order, arrived) = A \union B \union C
        BY DEF TimingSignals
    <3>2. \A p : early(p).rule = "invoice_before_po"
        BY DEF Signal
    <3>3. \A s \in B \union C : s.rule # "invoice_before_po"
        BY DEF Signal
    <3> HIDE DEF early, B, C
    <3>4. (\E s \in A : TRUE) <=> \E p \in order : v.date < p.date
        OBVIOUS
    <3>5. \A s \in A : s.rule = "invoice_before_po"
        BY <3>2
    <3> HIDE DEF A
    <3> QED
        BY <3>1, <3>3, <3>4, <3>5
  <2>3. (\E p \in in.order : v.date < p.date)
            <=> \E d \in Drafts(in) : d.type = "DATE_MISMATCH" /\ d.rule = "invoice"
      BY <1>1, DateDrafts
  <2> QED
      BY <1>1, <2>1, <2>2, <2>3
<1> QED
    BY <1>7, <1>8, <1>9 DEF in, signals

\* What is on record has one line of an id, and one document.
LEMMA RecordsAreOne ==
    ASSUME DocumentsInv
    PROVE  DocsAreOne(Docs) /\ \A id : OrderIsOne(OrderIn(id, Docs))
<1>1. Docs.invoices = invoices /\ Docs.orders = orders
    BY DEF Docs
<1>2. DocsAreOne(Docs)
    BY <1>1, FormsAssumption DEF DocsAreOne, DocumentsInv
<1>3. ASSUME NEW id PROVE OrderIsOne(OrderIn(id, Docs))
  <2>1. OrderIn(id, Docs) = {p \in orders : p.id = id}
      BY <1>1 DEF OrderIn
  <2> QED
      BY <2>1, FormsAssumption DEF OrderIsOne, OneOrNone, DocumentsInv
<1> QED
    BY <1>2, <1>3

\* A step adds at most one invoice.
LEMMA InvoicesAreFinite ==
    ASSUME IsFiniteSet(invoices), [ProcNext]_vars
    PROVE  IsFiniteSet(invoices)'
<1>1. CASE \E v \in InvoiceForms, s \in Posted : CreateInvoice(v, s)
    BY <1>1, FS_AddElement DEF CreateInvoice
<1>2. CASE ~\E v \in InvoiceForms, s \in Posted : CreateInvoice(v, s)
  <2>1. UNCHANGED invoices
      BY <1>2 DEF ProcNext, vars, documents, CreateVendor, CreateOrder, CreateReceipt, BeginRun,
                  Upsert, CommitRun, AbandonRun
  <2> QED
      BY <2>1
<1> QED
    BY <1>1, <1>2

\* Reconciliation (reconcile, app/reconciliation/engine.py) and anomaly detection
\* (AnomalyEngine, app/anomaly/engine.py) look at the same documents with rules of
\* their own.  Whatever documents are on record: detection for an exception
\* (AnomalyService.detect_for_exception) counts no signal twice; a signal of price
\* has its exception under the default tolerances; and a duplicate, or an invoice
\* before its order, is a signal where it is an exception and nowhere else.  A
\* threshold of 0 would make a signal of a price that is right (AnomalyConfig,
\* app/anomaly/contracts.py, allows it), so the thresholds are above that.
THEOREM TheEnginesAgree ==
    ASSUME \A s \in DOMAIN Percent : Percent[s] \in Nat \ {0}
    PROVE  ProcSpec => []EnginesAgree
<1>1. ProcInit => ProcInv /\ IsFiniteSet(invoices)
    BY ProcStart, FS_EmptySet DEF ProcInit
<1>2. ProcInv /\ IsFiniteSet(invoices) /\ [ProcNext]_vars => ProcInv' /\ IsFiniteSet(invoices)'
    BY ProcInvIsInductive, InvoicesAreFinite
<1>3. ProcInv /\ IsFiniteSet(invoices) => EnginesAgree
  <2> SUFFICES ASSUME ProcInv, IsFiniteSet(invoices) PROVE EnginesAgree
      OBVIOUS
  <2>1. DocumentsInv
      BY DEF ProcInv
  <2>2. \A e \in exception : \A s, f \in SignalsForException(e.draft, Docs) :
            Fingerprint(s) = Fingerprint(f) => s = f
      BY <2>1, RecordsAreOne, ExceptionSignalsAgree
  <2> QED
      BY <2>1, <2>2, InvoiceAgrees DEF EnginesAgree, NoTolerance
<1> QED
    BY <1>1, <1>2, <1>3, PTL DEF ProcSpec

=============================================================================
