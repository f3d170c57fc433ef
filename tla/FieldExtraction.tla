-------------------------- MODULE FieldExtraction ---------------------------
(***************************************************************************)
(* What understanding reads in a file: app/extraction/ (the extractors for *)
(* PDF, XLSX and images, labelled fields, classification, item lines,      *)
(* validation) and the outcome document_understanding_service.py stores.   *)
(* DocumentReview takes that outcome as given, see Extracted there; here   *)
(* it is computed from the file.                                           *)
(*                                                                         *)
(* A text is a sequence of lines [label, parts]: the label the line starts *)
(* with, or "text", and the phrases written after it, one from the other   *)
(* by a spaced slash, a bar or "or".  A phrase is a value with its words,  *)
(* those an identifier or a date may be.  Blank lines are left out, and    *)
(* the patterns of one field are one label.  A number is its sign, "nan",  *)
(* or "none" when it cannot be read.  Optional fields (currency, totals)   *)
(* are left out: no outcome depends on them, nor on the order of the item  *)
(* lines kept.                                                             *)
(***************************************************************************)
EXTENDS Integers, SequencesExt, FiniteSetsExt

CONSTANTS
    Papers,         \* the files that arrive
    Phrases,        \* what may be written between two separators
    Words,          \* the words of each phrase, one or more
    Dates,          \* words with the shape of a date
    Calendar,       \* those that are a day of the calendar
    Missing,        \* phrases such as "N/A" and "not provided"
    LabelWord,      \* the first word of a label
    Nothing,        \* no value
    MaxReadings     \* bound: understanding runs

DocTypes == {"INVOICE", "PO", "GRN"}
Fields == {"invoice_number", "po_number", "grn_number", "vendor_name",
           "invoice_date", "order_date", "receipt_date"}
DateFields == {"invoice_date", "order_date", "receipt_date"}
Cells == {"pos", "zero", "neg", "nan", "none"}
Unread == {"none"}

Row == [qty : Cells, price : Cells]

\* A file: its name and text may hint at types; its item lines stand in a
\* worksheet, in a column of cells under a header block, each on one line of
\* text, or are one labelled quantity.
Paper ==
    [format : {"pdf", "xlsx", "image", "other"}, damaged : BOOLEAN,
     filename : SUBSET DocTypes, mentions : SUBSET DocTypes,
     text : Seq([label : Fields \union {"text"}, parts : Seq(Phrases)]),
     table : Seq(Row), stacked : Seq(Row), inline : Seq(Row), single : Cells]

\* What is written after a label, and what is made of a file.
Value == Seq(Phrases)

CandidateRow ==
    [type : DocTypes, lines : SUBSET Row,
     fields : UNION {[looked -> Value \union {Nothing}] : looked \in SUBSET Fields}]

ASSUME FieldExtractionAssumption ==
    /\ Papers \subseteq Paper
    /\ Words \in [Phrases -> Seq(Phrases) \ {<<>>}]
    /\ LabelWord \in Phrases
    /\ Calendar \subseteq Dates /\ Missing \intersect Dates = {}
    /\ Nothing \notin CandidateRow
    /\ MaxReadings \in Nat

VARIABLES
    paper,      \* the stored file
    declared,   \* documents.document_type
    reading,    \* the extraction row, or none yet
    readings    \* runs so far

extractionVars == <<paper, declared, reading, readings>>

(* Labelled fields *****************************************************)

\* The values after the label on line i.  An empty label takes the line below,
\* with whatever label that line starts with.
Region(text, i) ==
    LET below == text[i + 1]
    IN  IF text[i].parts # <<>> THEN text[i].parts
        ELSE IF i = Len(text) THEN <<>>
        ELSE IF below.label = "text" THEN below.parts
        ELSE <<LabelWord>> \o SubSeq(below.parts, 2, Len(below.parts))

\* A name is all of its line, other values are its first word.
TakenFrom(region, f) ==
    IF f = "vendor_name" THEN region ELSE <<Head(Words[Head(region)])>>

IsMissing(value) == \E phrase \in Missing : value = <<phrase>>

\* The lines whose label is followed by a value for f.
Occurrences(text, f) ==
    {i \in DOMAIN text :
        /\ text[i].label = f
        /\ Region(text, i) # <<>>
        /\ ~IsMissing(Region(text, i)) /\ ~IsMissing(TakenFrom(Region(text, i), f))
        /\ f \in DateFields => Head(Words[Head(Region(text, i))]) \in Dates}

\* _value_token: what a phrase is compared by is its first word, or its first
\* date; "Acme Ltd" and "Acme Inc" are the same.
Tokens(region, f) ==
    {token \in Phrases \ Missing : \E phrase \in ToSet(region) :
        LET words == SelectSeq(Words[phrase], LAMBDA w : f \in DateFields => w \in Dates)
        IN  words # <<>> /\ token = Head(words)}

\* Mutant: the first of several values is taken.
ConflictingValuesNever(region, f) == FALSE

ConflictingValues(region, f) == \E v, w \in Tokens(region, f) : v # w

\* read_labelled_field: the first occurrence counts, repeated labels do not.
FieldRead(text, f) ==
    LET region == Region(text, Min(Occurrences(text, f)))
    IN  IF Occurrences(text, f) = {} THEN [value |-> Nothing, ambiguous |-> FALSE]
        ELSE IF ConflictingValues(region, f) THEN [value |-> Nothing, ambiguous |-> TRUE]
        ELSE [value |-> TakenFrom(region, f), ambiguous |-> FALSE]

(* The extractors ******************************************************)

Empty == [text |-> <<>>, table |-> <<>>, stacked |-> <<>>, inline |-> <<>>,
          single |-> "none", labelled |-> {}, mentions |-> {}, ocr |-> TRUE]

\* The text and items of a paper that needs no worksheet.
TextOf(p) ==
    [Empty EXCEPT !.text = p.text, !.stacked = p.stacked, !.inline = p.inline,
                  !.single = p.single, !.mentions = p.mentions]

\* PDFExtractor: a file that does not open is an empty document.
PdfRead(p) ==
    IF p.damaged THEN Empty
    ELSE [TextOf(p) EXCEPT !.labelled = {f \in Fields : FieldRead(p.text, f).value # Nothing}]

XlsxRead(p) == IF p.damaged THEN Empty ELSE [TextOf(p) EXCEPT !.table = p.table]

\* ImageExtractor: without OCR, or when it fails, only a warning.
ImageRead(p, ocr) ==
    IF ocr /\ ~p.damaged THEN TextOf(p) ELSE [Empty EXCEPT !.ocr = FALSE]

ExtractedFrom(p, ocr) ==
    CASE p.format = "pdf" -> PdfRead(p)
      [] p.format = "xlsx" -> XlsxRead(p)
      [] OTHER -> ImageRead(p, ocr)

(* Classification ******************************************************)

LabelVotes(x, type) ==
    CASE type = "INVOICE" -> IF "invoice_number" \in x.labelled THEN 3 ELSE 0
      [] type = "GRN" -> IF "grn_number" \in x.labelled THEN 3 ELSE 0
      [] OTHER -> IF x.labelled \intersect {"invoice_number", "po_number", "grn_number"}
                       = {"po_number"} THEN 2 ELSE 0

Votes(x, filename, type) ==
    (IF type \in filename THEN 2 ELSE 0)
        + (IF type \in x.mentions THEN 2 ELSE 0) + LabelVotes(x, type)

\* classify_document: the declared type, else the one type with most votes.
Classified(x, filename, known) ==
    LET best == {t \in DocTypes : /\ Votes(x, filename, t) >= 2
                               /\ \A u \in DocTypes \ {t} :
                                     Votes(x, filename, u) < Votes(x, filename, t)}
    IN  IF known # "UNKNOWN" THEN known
        ELSE IF best = {} THEN "UNKNOWN"
        ELSE CHOOSE t \in best : TRUE

(* Candidates **********************************************************)

NumberField(type) ==
    CASE type = "INVOICE" -> "invoice_number" [] type = "PO" -> "po_number"
      [] OTHER -> "grn_number"

DateField(type) ==
    CASE type = "INVOICE" -> "invoice_date" [] type = "PO" -> "order_date"
      [] OTHER -> "receipt_date"

LookedFor(type) == {NumberField(type), DateField(type), "po_number", "vendor_name"}

Unreadable(row) == row.qty \in Unread /\ row.price \in Unread

\* A row of a worksheet without quantity and price is skipped; under a header
\* block it ends the items.
TableLines(x) == {row \in ToSet(x.table) : ~Unreadable(row)}

StackedLines(x) ==
    {x.stacked[i] : i \in {j \in DOMAIN x.stacked : \A k \in 1 .. j : ~Unreadable(x.stacked[k])}}

InlineLines(x) == {row \in ToSet(x.inline) : {row.qty, row.price} \subseteq {"pos", "zero"}}

SingleLine(x, type) ==
    IF type = "GRN" /\ x.single \in {"pos", "zero"}
    THEN {[qty |-> x.single, price |-> "none"]} ELSE {}

\* The first of these that finds any.
ItemLines(x, type) ==
    LET kinds == <<TableLines(x), StackedLines(x), InlineLines(x), SingleLine(x, type)>>
        some == {k \in 1 .. 4 : kinds[k] # {}}
    IN  IF some = {} THEN {} ELSE kinds[Min(some)]

\* normalize_date refuses what is no day; other values stand as they are.
DayOf(f, v) ==
    IF f \in DateFields /\ v # Nothing /\ Head(v) \notin Calendar THEN Nothing ELSE v

\* build_candidate
Candidate(x, type) ==
    [type |-> type,
     fields |-> [f \in LookedFor(type) |-> DayOf(f, FieldRead(x.text, f).value)],
     lines |-> ItemLines(x, type)]

AmbiguousIn(x, type) == {f \in LookedFor(type) : FieldRead(x.text, f).ambiguous}

(* Validation **********************************************************)

Required(type) == {NumberField(type), DateField(type)}
                    \union IF type = "GRN" THEN {} ELSE {"vendor_name"}

LineSound(type, row) ==
    row.qty = "pos" /\ (type # "GRN" => row.price \in {"pos", "zero"})

\* validate_candidate finds no error.
Sound(c) ==
    /\ \A f \in Required(c.type) : c.fields[f] # Nothing
    /\ c.lines # {}
    /\ \A row \in c.lines : LineSound(c.type, row)

(* The outcome *********************************************************)

Failed == [outcome |-> "EXTRACTION_FAILED", issues |-> {}, candidate |-> Nothing]

\* Decimal reads "nan", CandidateLine refuses it, and nothing catches that.
Raises(c) == \E row \in c.lines : "nan" \in {row.qty, row.price}

IssuesOf(x, type) ==
    {issue \in {"error", "review", "ambiguous"} :
        CASE issue = "error" -> type # "UNKNOWN" /\ ~Sound(Candidate(x, type))
          [] issue = "review" -> type = "UNKNOWN" \/ ~x.ocr
          [] OTHER -> type # "UNKNOWN" /\ AmbiguousIn(x, type) # {}}

\* Mutant: an outcome that needs a reviewer is taken for a failed validation.
OutcomeOfErrors(issues) ==
    CASE issues = {} -> "READY_FOR_RECONCILIATION"
      [] "error" \in issues -> "VALIDATION_FAILED"
      [] OTHER -> "REVIEW_REQUIRED"

OutcomeOf(issues) ==
    CASE issues = {} -> "READY_FOR_RECONCILIATION"
      [] issues = {"error"} -> "VALIDATION_FAILED"
      [] OTHER -> "REVIEW_REQUIRED"

Understood(x, type) ==
    [outcome |-> OutcomeOf(IssuesOf(x, type)),
     issues |-> IssuesOf(x, type),
     candidate |-> IF type = "UNKNOWN" THEN Nothing ELSE Candidate(x, type)]

(* The service *********************************************************)

ExtractionInit ==
    /\ paper \in Papers
    /\ declared \in DocTypes \union {"UNKNOWN"}
    /\ reading = Nothing
    /\ readings = 0

\* understand: the type found is kept as the declared one.
Read ==
    /\ readings < MaxReadings
    /\ readings' = readings + 1
    /\ paper.format # "other"
    /\ \E ocr \in BOOLEAN :
          LET x == ExtractedFrom(paper, ocr)
              type == Classified(x, paper.filename, declared)
          IN  /\ type # "UNKNOWN" => ~Raises(Candidate(x, type))
              /\ declared' = type
              /\ reading' = Understood(x, type)
    /\ UNCHANGED paper

\* The stored file cannot be read, has no extractor, or the extractor raises.
ReadFails ==
    /\ readings < MaxReadings
    /\ readings' = readings + 1
    /\ reading' = Failed
    /\ UNCHANGED <<paper, declared>>

ExtractionNext == Read \/ ReadFails

ExtractionSpec == ExtractionInit /\ [][ExtractionNext]_extractionVars

(* Properties **********************************************************)

\* A document is ready for reconciliation only if each field it needs is
\* written in it, at its label, and with no phrase beside it that begins with
\* another word or, for a date, holds another date; and each item line that is
\* kept is written in it with a positive quantity and, unless it is a receipt,
\* a price.  (Two names with one first word are no conflict to the code: the
\* line with both is then the name.)
ReadyIsReadable ==
    reading # Nothing /\ reading.outcome = "READY_FOR_RECONCILIATION" =>
        LET c == reading.candidate
        IN  /\ \A f \in Required(c.type) : \E i \in DOMAIN paper.text :
                  LET region == Region(paper.text, i)
                  IN  /\ paper.text[i].label = f
                      /\ c.fields[f] = TakenFrom(region, f) /\ ~IsMissing(c.fields[f])
                      /\ \A v, w \in Tokens(region, f) : v = w
            /\ c.lines # {}
            /\ \A row \in c.lines :
                  /\ row.qty = "pos" /\ (c.type # "GRN" => row.price \in {"pos", "zero"})
                  /\ \/ row \in ToSet(paper.table) \union ToSet(paper.stacked)
                                                   \union ToSet(paper.inline)
                     \/ row.qty = paper.single /\ row.price = "none"

Review == INSTANCE DocumentReview WITH
    Documents <- {"paper"}, Requests <- {}, Numbers <- {}, None <- Nothing,
    Operations <- {}, Extracts <- {}, Corrections <- {}, MaxRuns <- 0, MaxCandidates <- 0,
    document <- 0, extraction <- 0, task <- 0, ledger <- 0, decisions <- 0,
    request <- 0, runs <- 0, versions <- 0

\* The candidate as the review queue sees it.
Graded ==
    IF reading.candidate = Nothing THEN Review!NoCandidate
    ELSE [id |-> 1, doc |-> "paper", number |-> reading.candidate.fields[NumberField(declared)],
          grade |-> IF Sound(reading.candidate) THEN "sound" ELSE "failing"]

\* Every run stores one of the outcomes the review model (DocumentReview)
\* assumes understanding ends with, with the issues and the grade of candidate
\* it assumes for it.
EndsAsReviewed ==
    reading # Nothing =>
        \E kind \in {"clean", "failing", "ambiguous", "unread", "untyped", "failed"} :
            /\ reading.outcome = Review!Extracted(kind, Graded).outcome
            /\ reading.issues = Review!Extracted(kind, Graded).issues
            /\ Graded = Review!Extracted(kind, Graded).candidate
            /\ Graded # Review!NoCandidate => Graded.grade \in Review!Grades(kind)

=============================================================================
