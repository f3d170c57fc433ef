-------------------------- MODULE ExtractionScore ----------------------------
(***************************************************************************)
(* How an extraction is scored against what a document is known to say     *)
(* (app/evaluation/m11_metrics.py, m11_normalize.py and m11_harness.py):   *)
(* the numbers that the regression gates are about.  One field of each     *)
(* kind stands for the fields of that kind; a currency is compared as a    *)
(* name is.                                                                *)
(***************************************************************************)
EXTENDS Integers, SequencesExt, FiniteSetsExt, Functions

CONSTANTS
    Truths,         \* what documents say: [head, lines, type]
    Predictions,    \* what was extracted: [head, lines, type]
    MaxCases        \* bound: documents scored

\* A value is a word in one of two forms: `other' is the same name or identifier
\* in another case, the same number with separators, and the same date as a day
\* and a month that could be taken for each other.
Written == [word : STRING, form : {"plain", "other"}]
Omitted == [word |-> "none", form |-> "plain"]

Present(v) == v # Omitted

HeaderKind == [invoice_number |-> "identifier", vendor_name |-> "name",
               invoice_date |-> "date", total_amount |-> "decimal"]
LineKind == [item_identifier |-> "identifier", description |-> "name", quantity |-> "decimal"]

FieldValues ==
    [head : [DOMAIN HeaderKind -> Written], lines : Seq([DOMAIN LineKind -> Written]),
     type : STRING]

ASSUME ExtractionScoreAssumption ==
    MaxCases \in Nat /\ Truths \subseteq FieldValues /\ Predictions \subseteq FieldValues

VARIABLE scored     \* the cases so far: [truth, prediction, score]

\* A value that means the same, however it is written.
Equal(kind, e, p) ==
    /\ e.word = p.word
    /\ kind \in {"name", "decimal"} \/ e.form = p.form

\* _compare_value of two values that are there; an expected number or date is
\* one, so that only an identifier can differ by its case alone.
Compare(kind, e, p) ==
    IF Equal(kind, e, p) THEN "none"
    ELSE CASE kind = "decimal" -> "NUMERIC_MISMATCH"
           [] kind = "date" -> "DATE_MISMATCH"
           [] kind = "identifier" /\ e.word = p.word -> "NORMALIZATION_MISMATCH"
           [] OTHER -> "INCORRECT_FIELD"

(* Lines ***************************************************************)

\* _line_key: the identifier if there is one, else the description.
LineKey(l) ==
    IF Present(l.item_identifier) THEN <<"id", l.item_identifier>>
    ELSE IF Present(l.description) THEN <<"desc", l.description.word>>
    ELSE <<>>

\* How many lines up to this one have its key.
Rank(lines, i) == Cardinality({k \in 1 .. i : LineKey(lines[k]) = LineKey(lines[i])})

\* Mutant: a line that was paired is paired again.
MatchedAgain(expected, predicted) ==
    {m \in (DOMAIN expected) \X (DOMAIN predicted) :
        /\ LineKey(expected[m[1]]) # <<>>
        /\ LineKey(expected[m[1]]) = LineKey(predicted[m[2]])
        /\ Rank(predicted, m[2]) = 1}

\* _match_lines: each expected line takes the first line of its key that is left,
\* so that the lines of one key are paired in their order.
Matched(expected, predicted) ==
    {m \in (DOMAIN expected) \X (DOMAIN predicted) :
        /\ LineKey(expected[m[1]]) # <<>>
        /\ LineKey(expected[m[1]]) = LineKey(predicted[m[2]])
        /\ Rank(expected, m[1]) = Rank(predicted, m[2])}

(* A case **************************************************************)

\* <<kind, expected, predicted>> for every expected field.
HeaderFields(t, p) ==
    {<<f, HeaderKind[f], t.head[f], p.head[f]>> :
        f \in {g \in DOMAIN HeaderKind : Present(t.head[g])}}

LineFields(t, p) ==
    UNION {{<<m[1], f, LineKind[f], t.lines[m[1]][f], p.lines[m[2]][f]>> :
                f \in {g \in DOMAIN LineKind : Present(t.lines[m[1]][g])}} :
           m \in Matched(t.lines, p.lines)}

Bare(p) == p.lines = <<>> /\ \A f \in DOMAIN HeaderKind : ~Present(p.head[f])

\* evaluate_prediction: counts, and the categories of errors that there are.
CaseScore(t, p) ==
    LET heads == HeaderFields(t, p)
        fields == LineFields(t, p)
        pairs == Matched(t.lines, p.lines)
        missing == {h \in heads : ~Present(h[4])}
        wrong == {h \in heads \ missing : Compare(h[2], h[3], h[4]) # "none"}
        unexpected == {f \in DOMAIN HeaderKind : ~Present(t.head[f]) /\ Present(p.head[f])}
        unmatched == DOMAIN t.lines \ {m[1] : m \in pairs}
        extra == DOMAIN p.lines \ {m[2] : m \in pairs}
        off == {x \in fields : ~Present(x[5]) \/ Compare(x[3], x[4], x[5]) # "none"}
        when(condition, category) == IF condition THEN {category} ELSE {}
    IN  [header |-> [expected |-> Cardinality(heads), missing |-> Cardinality(missing),
                     correct |-> Cardinality(heads \ (missing \union wrong)),
                     comparable |-> Cardinality(heads \ missing)],
         line |-> [expected |-> Cardinality({x \in (DOMAIN t.lines) \X (DOMAIN LineKind) :
                                                Present(t.lines[x[1]][x[2]])}),
                   comparable |-> Cardinality(fields),
                   correct |-> Cardinality(fields \ off)],
         errors |-> when(Bare(p), "EMPTY_EXTRACTION")
                    \union when(missing # {}, "MISSING_FIELD")
                    \union {Compare(h[2], h[3], h[4]) : h \in wrong}
                    \union when(unexpected # {}, "UNEXPECTED_FIELD")
                    \union when(p.type \notin {"none", t.type}, "DOCUMENT_TYPE_MISMATCH")
                    \union when(unmatched # {}, "MISSING_LINE")
                    \union when(extra # {}, "EXTRA_LINE")
                    \union {IF Present(x[5]) /\ Compare(x[3], x[4], x[5]) = "NUMERIC_MISMATCH"
                            THEN "NUMERIC_MISMATCH" ELSE "LINE_FIELD_MISMATCH" : x \in off}]

ExactMatch(score) == score.errors = {}

\* A field that was not expected does not make a failure.
Success(score) == score.errors \subseteq {"UNEXPECTED_FIELD"}

ScoreInit == scored = <<>>

EvaluateCase(t, p) ==
    /\ Len(scored) < MaxCases
    /\ scored' = Append(scored, [truth |-> t, prediction |-> p, score |-> CaseScore(t, p)])

ScoreNext == \E t \in Truths, p \in Predictions : EvaluateCase(t, p)

ScoreSpec == ScoreInit /\ [][ScoreNext]_scored

\* aggregate: one of the counts, over all cases.
Total(part, count) ==
    MapThenSumSet(LAMBDA i : scored[i].score[part][count], DOMAIN scored)

(* Properties **********************************************************)

\* The fields of q that are expected by e are there and mean the same.
Agree(kinds, e, q) ==
    \A f \in DOMAIN kinds : Present(e[f]) => Present(q[f]) /\ Equal(kinds[f], e[f], q[f])

\* Some pairing of the lines, whatever their order, has them agree.
SameLines(expected, predicted) ==
    \E b \in Bijection(DOMAIN expected, DOMAIN predicted) :
        \A i \in DOMAIN expected : Agree(LineKind, expected[i], predicted[b[i]])

Same(t, p) ==
    /\ p.type \in {"none", t.type} /\ ~Bare(p)
    /\ Agree(HeaderKind, t.head, p.head)
    /\ SameLines(t.lines, p.lines)

NothingMore(t, p) == \A f \in DOMAIN HeaderKind : Present(p.head[f]) => Present(t.head[f])

\* Every line has a key that no other has, and all are known by an identifier or
\* all by their description.
Distinct(t, p) ==
    LET lines == ToSet(t.lines) \union ToSet(p.lines)
    IN  /\ \A s \in {t.lines, p.lines} : \A i, j \in DOMAIN s :
               LineKey(s[i]) # <<>> /\ (LineKey(s[i]) = LineKey(s[j]) => i = j)
        /\ \E known \in BOOLEAN : \A l \in lines : Present(l.item_identifier) = known

\* "Formatting matches are not extraction errors", "line order is not a match
\* key" and "denominators are counted": an extraction that is scored a success
\* says all the document says and has no other line, under some pairing of the
\* lines; every such extraction whose lines can be told apart is a success, and an
\* exact match if it has no other header field; and over all cases what is correct
\* is never more than what could be compared, nor that than what is expected, so
\* that full completeness leaves no expected field missing or wrong in any case.
ExactIsTheSame ==
    /\ \A c \in ToSet(scored) :
          /\ Success(c.score) => Same(c.truth, c.prediction)
          /\ Same(c.truth, c.prediction) /\ Distinct(c.truth, c.prediction) => Success(c.score)
          /\ ExactMatch(c.score) <=> Success(c.score) /\ NothingMore(c.truth, c.prediction)
    /\ \A part \in {"header", "line"} :
          /\ Total(part, "correct") <= Total(part, "comparable")
          /\ Total(part, "comparable") <= Total(part, "expected")
          /\ Total(part, "correct") = Total(part, "expected") =>
                \A c \in ToSet(scored) :
                    c.score[part].correct = c.score[part].expected

=============================================================================
