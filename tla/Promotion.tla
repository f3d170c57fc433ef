------------------------------ MODULE Promotion -------------------------------
(***************************************************************************)
(* What a promotion writes (PromotionService, app/services/                *)
(* promotion_service.py): the vendor and the order that the record refers  *)
(* to are looked up or made, and header and lines are inserted with the    *)
(* links of the document, in one transaction.  DocumentReview has the      *)
(* question whether a task may be promoted; here each document's candidate *)
(* was approved and is valid.                                              *)
(*                                                                         *)
(* Every lookup is a statement of its own that sees what was committed     *)
(* before it.  Numbers are unique in the database, names of vendors are    *)
(* not.  Numbers are normalised, rows are of one tenant; dates, amounts    *)
(* and descriptions are copied and left out.                               *)
(***************************************************************************)
EXTENDS Naturals, Sequences, FiniteSets, OrmSession

CONSTANTS
    ApprovedForms,      \* approved candidates
    PaperDocuments,     \* documents
    Promoters,          \* requests
    KnownVendors,       \* vendors on record before: each its id and name
    MaxPromotions,      \* bound: promotions begun
    MaxPromotionFaults, \* bound: failed statements and crashes
    MaxAssociations     \* bound: calls of update_associations

NoName == ""
NoNumber == 0
NoVendor == 0

\* A line of a candidate is its number, or NoNumber where the paper has none.
PaperForm == [type : {"PO", "GRN", "INVOICE"}, number : Nat \ {NoNumber}, vendor : STRING,
              order : Nat, lines : Seq(Nat)]

\* The ids of known vendors lie above those that promotions give.
ASSUME PromotionAssumption ==
    /\ \A p \in ApprovedForms : p \in PaperForm /\ p.lines # <<>>
                         /\ (p.type # "GRN" => p.vendor # NoName)
    /\ MaxPromotions \in Nat /\ MaxPromotionFaults \in Nat /\ MaxAssociations \in Nat
    /\ KnownVendors \subseteq [id : Nat \ (0..MaxPromotions), name : STRING \ {NoName}]

VARIABLES
    approved,       \* document -> its candidate
    vendorRows,     \* committed vendors
    records,        \* committed orders, receipts and invoices, with their lines
    linked,         \* document -> the records it refers to
    promotedTo,     \* document -> the record its task names, or Unpromoted
    promotion,      \* requests in progress
    overlapped,     \* TRUE once two promotions were in progress at the same time
    begun, promotionFaults, associations

promotionVars == <<approved, vendorRows, records, linked, promotedTo, promotion, overlapped,
                   begun, promotionFaults, associations>>

Unpromoted == [type |-> "NONE", number |-> NoNumber]
Name(r) == [type |-> r.type, number |-> r.number]

\* `made' holds the vendor that the session has inserted and not yet committed,
\* `row' the record it is about to insert.
Waiting == [pc |-> "idle"]

PromotionTypeOK ==
    /\ approved \in [PaperDocuments -> ApprovedForms]
    /\ \A v \in vendorRows : v.id \in Nat /\ v.name \in STRING
    /\ \A r \in records : /\ r.type \in {"PO", "GRN", "INVOICE"}
                          /\ \A l \in r.lines : l.number \in Nat /\ l.ordered \in BOOLEAN
    /\ \A d \in PaperDocuments : \/ promotedTo[d] = Unpromoted
                                \/ promotedTo[d] \in {Name(r) : r \in records}
    /\ \A s \in Promoters : promotion[s].pc \in {"idle", "begun", "looked", "placed"}
    /\ begun \in 0..MaxPromotions

PromotionInit ==
    /\ approved \in [PaperDocuments -> ApprovedForms]
    /\ vendorRows = KnownVendors
    /\ records = {}
    /\ linked = [d \in PaperDocuments |->
                    [vendor |-> NoVendor, order |-> NoNumber, own |-> NoNumber]]
    /\ promotedTo = [d \in PaperDocuments |-> Unpromoted]
    /\ promotion = [s \in Promoters |-> Waiting]
    /\ overlapped = FALSE
    /\ begun = 0 /\ promotionFaults = 0 /\ associations = 0

Orders == {r \in records : r.type = "PO"}
OrderNumbered(n) == {o \in Orders : o.number = n}
VendorIds == {v.id : v \in vendorRows}

\* update_associations, for the two links that a promotion reads.
AssociateRecords(d, vendor, order) ==
    /\ associations < MaxAssociations
    /\ vendor \in VendorIds \union {NoVendor}
    /\ order \in {o.number : o \in Orders} \union {NoNumber}
    /\ linked' = [linked EXCEPT ![d].vendor = vendor, ![d].order = order]
    /\ linked' # linked
    /\ associations' = associations + 1
    /\ UNCHANGED <<approved, vendorRows, records, promotedTo, promotion, overlapped, begun,
                   promotionFaults>>

\* promote: a task that names a record already is answered as it is; get_task has
\* loaded the document.
BeginPromotion(s, d) ==
    /\ promotion[s] = Waiting /\ begun < MaxPromotions
    /\ promotedTo[d] = Unpromoted
    /\ begun' = begun + 1
    /\ promotion' = [promotion EXCEPT ![s] =
                        [pc |-> "begun", id |-> begun', of |-> d, held |-> linked[d], made |-> {}]]
    /\ overlapped' = (overlapped \/ \E q \in Promoters : promotion[q] # Waiting)
    /\ UNCHANGED <<approved, vendorRows, records, linked, promotedTo, promotionFaults,
                   associations>>

Form(s) == approved[promotion[s].of]

\* The record itself, when its number is taken.
Existing(s) == {r \in records : Name(r) = Name(Form(s))}

\* _resolve_vendor: the document's vendor, else one of that name, else a new row.
VendorsFor(s) ==
    LET id == promotion[s].held.vendor
        named == {v \in vendorRows : v.name = Form(s).vendor}
    IN  IF id \in VendorIds THEN {v \in vendorRows : v.id = id}
        ELSE IF named # {} THEN named
        ELSE {[id |-> promotion[s].id, name |-> Form(s).vendor]}

\* The SELECT by number, and the vendor of an order or an invoice.
LookUp(s) ==
    /\ promotion[s].pc = "begun"
    /\ \/ /\ Existing(s) # {}
          /\ \E r \in Existing(s) :
                promotion' = [promotion EXCEPT ![s] =
                    [pc |-> "placed", of |-> @.of, held |-> @.held, found |-> TRUE,
                     made |-> {}, row |-> r]]
       \/ /\ Existing(s) = {} /\ Form(s).type = "GRN"
          /\ promotion' = [promotion EXCEPT ![s] =
                [pc |-> "looked", of |-> @.of, held |-> @.held, vendor |-> NoVendor,
                 made |-> {}]]
       \/ /\ Existing(s) = {} /\ Form(s).type # "GRN"
          /\ \E v \in VendorsFor(s) :
                promotion' = [promotion EXCEPT ![s] =
                    [pc |-> "looked", of |-> @.of, held |-> @.held, vendor |-> v.id,
                     made |-> {v} \ vendorRows]]
    /\ UNCHANGED <<approved, vendorRows, records, linked, promotedTo, overlapped, begun,
                   promotionFaults, associations>>

\* _resolve_po_optional: the order of the document, else the one the paper names.
OrderFor(s) ==
    IF OrderNumbered(promotion[s].held.order) # {} THEN OrderNumbered(promotion[s].held.order)
    ELSE OrderNumbered(Form(s).order)

\* int(line.get("line_number") or idx)
LineNumber(lines, i) == IF lines[i] = NoNumber THEN i ELSE lines[i]

\* The lines, each with whether it refers to the line of that number in the order.
LinesOf(lines, order) ==
    {[number |-> LineNumber(lines, i),
      ordered |-> \E o \in order : \E l \in o.lines : l.number = LineNumber(lines, i)] :
        i \in DOMAIN lines}

\* The order is looked up and the record is built.  A receipt needs an order.
Place(s) ==
    LET form == Form(s)
        order == IF form.type = "PO" THEN {} ELSE OrderFor(s)
        row == [type |-> form.type, number |-> form.number, vendor |-> promotion[s].vendor,
                order |-> IF order = {} THEN NoNumber ELSE (CHOOSE o \in order : TRUE).number,
                lines |-> LinesOf(form.lines, order)]
    IN  /\ promotion[s].pc = "looked"
        /\ form.type = "GRN" => order # {}
        /\ promotion' = [promotion EXCEPT ![s] =
                [pc |-> "placed", of |-> @.of, held |-> @.held, found |-> FALSE,
                 made |-> @.made, row |-> row]]
        /\ UNCHANGED <<approved, vendorRows, records, linked, promotedTo, overlapped, begun,
                       promotionFaults, associations>>

\* uq (tenant, number), and uq (record, line number): two lines share a number.
Refused(s) ==
    /\ ~promotion[s].found
    /\ \/ Existing(s) # {}
       \/ Cardinality(promotion[s].row.lines) < Len(Form(s).lines)

\* What _promote_po, _promote_grn and _promote_invoice assign to the document; a
\* record that was found only gives its own link.
LinksTo(s) ==
    LET p == promotion[s]
        own == IF p.row.type = "PO" THEN [p.held EXCEPT !.order = p.row.number]
               ELSE [p.held EXCEPT !.own = p.row.number]
        withVendor == IF p.row.type = "GRN" THEN own ELSE [own EXCEPT !.vendor = p.row.vendor]
    IN  IF p.found THEN own
        ELSE IF p.row.order # NoNumber THEN [withVendor EXCEPT !.order = p.row.order]
        ELSE withVendor

\* The flush of record and lines, and the commit.
WritePromotion(s) ==
    LET p == promotion[s]
    IN  /\ p.pc = "placed" /\ ~Refused(s)
        /\ vendorRows' = vendorRows \union p.made
        /\ records' = IF p.found THEN records ELSE records \union {p.row}
        /\ linked' = [linked EXCEPT ![p.of] = Flush(@, p.held, LinksTo(s))]
        /\ promotedTo' = [promotedTo EXCEPT ![p.of] = Name(p.row)]
        /\ promotion' = [promotion EXCEPT ![s] = Waiting]
        /\ UNCHANGED <<approved, overlapped, begun, promotionFaults, associations>>

\* Mutant: the vendor has a transaction of its own.
LeftByVendor(s) == vendorRows \union promotion[s].made

\* A session that fails leaves none of its inserts.
LeftBy(s) == vendorRows

\* session.rollback, after an error of the code or of the database.
AbandonPromotion(s) ==
    /\ \/ /\ promotion[s].pc = "looked" /\ Form(s).type = "GRN" /\ OrderFor(s) = {}
          /\ UNCHANGED promotionFaults
       \/ /\ promotion[s].pc = "placed" /\ Refused(s)
          /\ UNCHANGED promotionFaults
       \/ /\ promotion[s] # Waiting
          /\ promotionFaults < MaxPromotionFaults
          /\ promotionFaults' = promotionFaults + 1
    /\ vendorRows' = LeftBy(s)
    /\ promotion' = [promotion EXCEPT ![s] = Waiting]
    /\ UNCHANGED <<approved, records, linked, promotedTo, overlapped, begun, associations>>

PromotionNext ==
    \/ \E s \in Promoters, d \in PaperDocuments : BeginPromotion(s, d)
    \/ \E s \in Promoters : LookUp(s) \/ Place(s) \/ WritePromotion(s) \/ AbandonPromotion(s)
    \/ \E d \in PaperDocuments, v \in VendorIds \union {NoVendor},
          n \in {o.number : o \in Orders} \union {NoNumber} : AssociateRecords(d, v, n)

PromotionSpec == PromotionInit /\ [][PromotionNext]_promotionVars

-----------------------------------------------------------------------------
(* Properties.                                                             *)

\* "Resolves vendor / PO foreign keys" and "creates authoritative header + lines in
\* one DB transaction": a record has its vendor or its order, and its lines refer to
\* exactly the lines of that order that have their numbers, so that the three-way
\* match can follow them.
RefersInside ==
    \A r \in records :
        /\ r.type # "GRN" => r.vendor \in VendorIds
        /\ r.type = "GRN" => r.order # NoNumber
        /\ r.order # NoNumber => OrderNumbered(r.order) # {}
        /\ \A l \in r.lines : l.ordered <=>
              \E o \in OrderNumbered(r.order) : \E m \in o.lines : m.number = l.number

\* A task that says it was promoted names the record of its own paper, with a line
\* for each of the paper's lines.
NamesItsRecord ==
    \A d \in PaperDocuments : promotedTo[d] # Unpromoted =>
        \E r \in records : /\ Name(r) = promotedTo[d] /\ Name(r) = Name(approved[d])
                           /\ \E e \in PaperDocuments :
                                 /\ Name(approved[e]) = Name(r)
                                 /\ Cardinality(r.lines) = Len(approved[e].lines)

\* A vendor was on record before or has a record: no promotion that failed leaves
\* one.  And as long as promotions do not overlap, none of them adds a vendor of a
\* name that is on record.
VendorsAreEarned ==
    /\ \A v \in vendorRows \ KnownVendors : \E r \in records : r.vendor = v.id
    /\ ~overlapped => \A v \in vendorRows \ KnownVendors, w \in vendorRows :
                         v.name = w.name => v = w

\* What promotions leave, in whatever order orders, receipts and invoices are
\* promoted, at the same time or with failures in between.
PromotedIsWhole == PromotionTypeOK /\ RefersInside /\ NamesItsRecord /\ VendorsAreEarned

=============================================================================
