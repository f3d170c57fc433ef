--------------------------- MODULE LlmAssistance ----------------------------
(***************************************************************************)
(* A model's second reading of one document: the quality gate, the calls   *)
(* of the provider, and the checks an answer goes through before a row     *)
(* says how far it can be relied on (app/services/llm_understanding_       *)
(* service.py, app/llm/).  DocumentReview has what becomes of the document *)
(* and its review task; here is what the row says and why.                 *)
(*                                                                         *)
(* A candidate has one field whose evidence is checked (the number), one   *)
(* whose evidence is not (the total), and lines of a quantity, which is    *)
(* checked, and a description, which is neither checked nor financial.     *)
(* A text, or a quoted snippet of it, is the set of values written in it.  *)
(***************************************************************************)
EXTENDS Integers, SequencesExt, FiniteSetsExt

CONSTANTS
    Readings,       \* deterministic results: [ready, candidate]
    Answers,        \* structured outputs: [typed, candidate, claims]
    Corpora,        \* texts of the document
    Positive,       \* quantities the validator accepts
    NoValue,        \* an empty field
    MaxRetries      \* the setting llm_max_retries

ASSUME LlmAssistanceAssumption ==
    /\ MaxRetries \in Nat
    /\ \A x \in Readings \union Answers : x.candidate.lines \in Seq(ToSet(x.candidate.lines))

\* What _map_provider_exception and _call_once raise.
Transient == {"RATE_LIMIT", "TIMEOUT", "UNAVAILABLE", "PROVIDER_ERROR",
              "AUTH_ERROR", "INVALID_ARGUMENT"}
Final == {"SCHEMA_INVALID", "MALFORMED_RESPONSE"}

VARIABLES
    m4,         \* the extraction row
    loaded,     \* that row as the request loaded it
    corpus,     \* the text of the document
    call,       \* [phase, calls, failed]: the provider calls of the request
    row         \* the llm_extraction_results row, or none yet

assistVars == <<m4, loaded, corpus, call, row>>

NoAssist == [status |-> "NONE"]

\* llm_extraction_results, with the priority that the review task got.
AssistRow ==
    [status : {"SKIPPED_M4_SUFFICIENT", "PROVIDER_ERROR", "INVOKED", "DISAGREEMENT",
               "VALIDATION_FAILED", "EVIDENCE_FAILED"},
     quality : {"HIGH", "MEDIUM", "REVIEW_REQUIRED"},
     priority : {"NONE", "LOW", "MEDIUM", "HIGH"}, answer : Answers \union {NoValue}]

NoCall == [phase |-> "idle", calls |-> 0, failed |-> {}]

AssistInit ==
    /\ m4 \in Readings /\ loaded = m4 /\ corpus \in Corpora
    /\ call = NoCall
    /\ row = NoAssist

(* Checks **************************************************************)

Heads == {"number", "total"}

Unfilled(v) == v = NoValue

\* The fields of two candidates, side by side: <<financial, left, right>>; a
\* line that one side does not have is empty there.
Pairs(c, d) ==
    LET Line(x, i, f) == IF i \in DOMAIN x.lines THEN x.lines[i][f] ELSE NoValue
    IN  {<<TRUE, c[f], d[f]>> : f \in Heads} \union
        UNION {{<<TRUE, Line(c, i, "quantity"), Line(d, i, "quantity")>>,
                <<FALSE, Line(c, i, "description"), Line(d, i, "description")>>} :
                  i \in DOMAIN c.lines \union DOMAIN d.lines}

\* has_financial_disagreement
Disagree(c, d) ==
    \/ Len(c.lines) # Len(d.lines)
    \/ \E p \in Pairs(c, d) : p[1] /\ ~Unfilled(p[2]) /\ ~Unfilled(p[3]) /\ p[2] # p[3]

\* A field that only one of them fills.
PartialOverlap(c, d) == \E p \in Pairs(c, d) : Unfilled(p[2]) # Unfilled(p[3])

\* Mutant: a quotation is taken at its word.
SupportedByClaim(v, snippets, text) == v \in text \/ \E s \in snippets : v \in s

\* validate_evidence, of one value.
Supported(v, snippets, text) ==
    v \in text \/ \E s \in snippets : s \subseteq text /\ v \in s

\* The values whose evidence is checked, each with what is quoted for it.
Important(a) ==
    {<<a.candidate.number, a.claims>>}
        \union {<<a.candidate.lines[i].quantity, a.claims>> : i \in DOMAIN a.candidate.lines}

Grounded(a, text) ==
    \A p \in Important(a) : ~Unfilled(p[1]) => Supported(p[1], p[2], text)

\* validate_candidate on the answer: an untyped one has no errors and is not
\* valid either.
HardErrors(a) ==
    a.typed /\ (\/ Unfilled(a.candidate.number) \/ a.candidate.lines = <<>>
                \/ \E l \in ToSet(a.candidate.lines) : l.quantity \notin Positive)

BusinessValid(a) == a.typed /\ ~HardErrors(a)

\* assess_application_quality
Quality(a, c, text) ==
    IF ~Grounded(a, text) \/ ~BusinessValid(a) \/ Disagree(c, a.candidate)
    THEN "REVIEW_REQUIRED"
    ELSE IF PartialOverlap(c, a.candidate) THEN "MEDIUM" ELSE "HIGH"

Invocation(a, c, text) ==
    IF ~Grounded(a, text) THEN "EVIDENCE_FAILED"
    ELSE IF HardErrors(a) THEN "VALIDATION_FAILED"
    ELSE IF Disagree(c, a.candidate) THEN "DISAGREEMENT"
    ELSE "INVOKED"

PriorityOf(a, c, text) ==
    IF Disagree(c, a.candidate) \/ ~Grounded(a, text) THEN "HIGH"
    ELSE IF Quality(a, c, text) = "HIGH" THEN "LOW" ELSE "MEDIUM"

(* The request *********************************************************)

\* _persist and _ensure_review.
Persisted(status, quality, priority, answer) ==
    row' = [status |-> status, quality |-> quality, priority |-> priority, answer |-> answer]

\* The quality gate: what the rules read well is not read again.
Skip ==
    /\ call.phase = "idle" /\ m4.ready
    /\ call' = [call EXCEPT !.phase = "done"]
    /\ Persisted("SKIPPED_M4_SUFFICIENT", "HIGH", "NONE", NoValue)
    /\ UNCHANGED <<m4, loaded, corpus>>

AskModel ==
    /\ call.phase = "idle" /\ ~m4.ready
    /\ loaded' = m4
    /\ call' = [call EXCEPT !.phase = "calling"]
    /\ UNCHANGED <<m4, corpus, row>>

Errored(calls, code) ==
    /\ call' = [call EXCEPT !.phase = "done", !.calls = calls, !.failed = @ \union {code}]
    /\ Persisted("PROVIDER_ERROR", "REVIEW_REQUIRED", "HIGH", NoValue)

\* Without a key, or without the library, there is no client to call.
NoClient ==
    /\ call.phase = "calling" /\ call.calls = 0
    /\ \E code \in {"MISSING_API_KEY", "SDK_MISSING"} : Errored(0, code)
    /\ UNCHANGED <<m4, loaded, corpus>>

\* Mutant: one more call than there are retries.
LastCallLate(calls) == calls > MaxRetries + 1

LastCall(calls) == calls > MaxRetries

\* generate_structured: an answer that does not fit the schema is not asked
\* for again, every other error of a call is.
CallFails(code) ==
    LET calls == call.calls + 1
    IN  /\ call.phase = "calling"
        /\ IF code \in Final \/ LastCall(calls) THEN Errored(calls, code)
           ELSE /\ call' = [call EXCEPT !.calls = calls, !.failed = @ \union {code}]
                /\ UNCHANGED row
        /\ UNCHANGED <<m4, loaded, corpus>>

CallAnswers(a) ==
    /\ call.phase = "calling"
    /\ call' = [call EXCEPT !.phase = "done", !.calls = @ + 1]
    /\ Persisted(Invocation(a, loaded.candidate, corpus), Quality(a, loaded.candidate, corpus),
                 PriorityOf(a, loaded.candidate, corpus), a)
    /\ UNCHANGED <<m4, loaded, corpus>>

\* The worker understands the document again while the model is thinking: the
\* extraction row is overwritten in place.
ReadAgain(x) ==
    /\ call.phase = "calling"
    /\ m4' = x
    /\ UNCHANGED <<loaded, corpus, call, row>>

AssistNext ==
    \/ Skip \/ AskModel \/ NoClient
    \/ \E code \in Transient \union Final : CallFails(code)
    \/ \E a \in Answers : CallAnswers(a)
    \/ \E x \in Readings : ReadAgain(x)

AssistSpec == AssistInit /\ [][AssistNext]_assistVars

(* Properties **********************************************************)

\* The application trusts no answer by the model's own word: a row that rates
\* an answer HIGH, and any answer whose review is not urgent, has every number
\* and quantity written in the document, whatever the model quoted, and nothing
\* in it contradicts what the rules had read; HIGH is also complete and valid,
\* and fills exactly the fields the rules had filled.
HighIsChecked ==
    row # NoAssist /\ row.answer # NoValue =>
        LET a == row.answer.candidate
            c == loaded.candidate
            written == {v \in {a.number} \union {l.quantity : l \in ToSet(a.lines)} :
                            v # NoValue} \subseteq corpus
            kept == /\ Len(a.lines) = Len(c.lines)
                    /\ \A f \in Heads : NoValue \in {a[f], c[f]} \/ a[f] = c[f]
                    /\ \A i \in DOMAIN a.lines :
                          \/ NoValue \in {a.lines[i].quantity, c.lines[i].quantity}
                          \/ a.lines[i].quantity = c.lines[i].quantity
        IN  /\ row.priority # "HIGH" => written /\ kept
            /\ row.quality = "HIGH" =>
                  /\ row.status = "INVOKED" /\ row.priority = "LOW"
                  /\ \A l \in ToSet(a.lines) : l.quantity \in Positive
                  /\ \A f \in Heads : (a[f] = NoValue) = (c[f] = NoValue)

\* "Bounded retries for transient Gemini failures (not schema retries)": however
\* the calls end, one request makes at most llm_max_retries + 1 of them, stops
\* at an answer that does not fit the schema, and ends in a row.
CallsAreBounded ==
    /\ call.calls <= MaxRetries + 1
    /\ call.phase = "calling" => call.failed \intersect Final = {} /\ call.calls <= MaxRetries
    /\ IF call.phase = "done" THEN row \in AssistRow ELSE row = NoAssist

=============================================================================
