--------------------------- MODULE DocumentReview ---------------------------
(***************************************************************************)
(* From an uploaded file to an authoritative record: the worker's          *)
(* understanding of a document (app/services/document_understanding_       *)
(* service.py and llm_understanding_service.py), the review queue          *)
(* (review_service.py) and promotion (promotion_service.py).               *)
(*                                                                         *)
(* A document has at most one extraction row and, for that row, at most    *)
(* one review task: both tables carry the unique constraint.  The review   *)
(* requests lock nothing: each loads its rows, decides on what it loaded   *)
(* and commits what it changed (OrmSession!Flush).  A request that the     *)
(* loaded rows refuse has no effect, so only the others begin.             *)
(*                                                                         *)
(* Understanding is one step: its first statement updates the document     *)
(* row, which keeps other writers of that row waiting until it commits,    *)
(* and it reads the extraction and the task right before it writes them.   *)
(*                                                                         *)
(* A candidate is reduced to what the handlers tell apart: which version   *)
(* it is, whether the validator accepts it ("sound"), finds an error       *)
(* ("failing") or cannot parse it ("malformed"), and its business number.  *)
(***************************************************************************)
EXTENDS Naturals, FiniteSets, OrmSession

CONSTANTS
    Documents,      \* uploaded documents
    Requests,       \* sessions at work at the same time: requests and LLM jobs
    Numbers,        \* business numbers a candidate may carry
    None,           \* no business number, no document
    Operations,     \* subset of {"approve", "correct", "reject", "promote", "llm"}
    Extracts,       \* how understanding may end, see Extracted
    Corrections,    \* grades a correction may produce
    MaxRuns,        \* bound: understanding runs
    MaxCandidates   \* bound: candidate versions

ASSUME DocumentReviewAssumption ==
    /\ None \notin Numbers
    /\ Operations \subseteq {"approve", "correct", "reject", "promote", "llm"}
    /\ Extracts \subseteq {"clean", "failing", "ambiguous", "unread", "untyped",
                           "failed", "aborted"}
    /\ Corrections \subseteq {"sound", "failing", "malformed"}
    /\ MaxRuns \in Nat /\ MaxCandidates \in Nat

Candidates == [id : Nat, doc : Documents, number : Numbers,
               grade : {"sound", "failing", "malformed"}]

NoCandidate == [id |-> 0, doc |-> None, number |-> None, grade |-> "none"]

AnyCandidate == Candidates \union {NoCandidate}

\* documents.status ("EXTRACTING" stands for the three statuses a run passes
\* through after it) and whether document_type is known.
DocumentRow ==
    [status : {"VALIDATED", "EXTRACTING", "READY_FOR_RECONCILIATION",
               "REVIEW_REQUIRED", "VALIDATION_FAILED", "EXTRACTION_FAILED",
               "REVIEW_REJECTED"},
     typed : BOOLEAN]

\* The issues of the stored validation, by severity; an AMBIGUOUS_FIELD issue
\* apart.  detected_type is UNKNOWN exactly when there is no candidate.
ExtractionRow ==
    [outcome : {"ABSENT", "READY_FOR_RECONCILIATION", "REVIEW_REQUIRED",
                "VALIDATION_FAILED", "EXTRACTION_FAILED"},
     issues : SUBSET {"error", "review", "ambiguous"},
     candidate : AnyCandidate]

TaskRow ==
    [status : {"ABSENT", "PENDING", "IN_REVIEW", "APPROVED", "CORRECTED", "REJECTED"},
     candidate : AnyCandidate,
     promoted : Numbers \union {None}]

NoExtraction == [outcome |-> "ABSENT", issues |-> {}, candidate |-> NoCandidate]
NoTask == [status |-> "ABSENT", candidate |-> NoCandidate, promoted |-> None]

\* review_decisions: for a correction, the candidate it produced.
Decisions == [document : Documents, action : {"APPROVE", "CORRECT", "REJECT"},
              candidate : AnyCandidate]

VARIABLES
    document,       \* document d: its row
    extraction,     \* document d: its extraction row
    task,           \* document d: its review task
    ledger,         \* number n: the candidate its PO, GRN or invoice was written from
    decisions,      \* the audit trail
    request,        \* session r: what it does and the rows it loaded
    runs,           \* understanding runs so far
    versions        \* candidate versions so far

rows == <<document, extraction, task, ledger, decisions>>
vars == <<document, extraction, task, ledger, decisions, request, runs, versions>>

Loaded == [document : DocumentRow, task : TaskRow, extraction : ExtractionRow]

RequestState ==
    [op : {"approve", "correct", "reject", "promote", "llm"}, doc : Documents,
     candidate : AnyCandidate, loaded : Loaded]
        \union {[op |-> "none"]}
Idle == [op |-> "none"]

TypeOK ==
    /\ document \in [Documents -> DocumentRow]
    /\ extraction \in [Documents -> ExtractionRow]
    /\ task \in [Documents -> TaskRow]
    /\ ledger \in [Numbers -> AnyCandidate]
    /\ decisions \subseteq Decisions
    /\ request \in [Requests -> RequestState]
    /\ runs \in Nat
    /\ versions \in Nat

Init ==
    /\ document \in [Documents -> [status : {"VALIDATED"}, typed : BOOLEAN]]
    /\ extraction = [d \in Documents |-> NoExtraction]
    /\ task = [d \in Documents |-> NoTask]
    /\ ledger = [n \in Numbers |-> NoCandidate]
    /\ decisions = {}
    /\ request = [r \in Requests |-> Idle]
    /\ runs = 0
    /\ versions = 0

-----------------------------------------------------------------------------
(* Understanding: the worker's DOCUMENT_UNDERSTAND job.                     *)

\* What a run stores, by how it ends, when its candidate is c:
\*   clean     no issue
\*   failing   validation errors only
\*   ambiguous two readings of a field (the field is left empty in c)
\*   unread    no OCR: an empty candidate and a review issue
\*   untyped   the document could not be classified
\*   failed    the file could not be read
Extracted(kind, c) ==
    CASE kind = "clean" ->
            [outcome |-> "READY_FOR_RECONCILIATION", issues |-> {}, candidate |-> c]
      [] kind = "failing" ->
            [outcome |-> "VALIDATION_FAILED", issues |-> {"error"}, candidate |-> c]
      [] kind = "ambiguous" ->
            [outcome |-> "REVIEW_REQUIRED", candidate |-> c,
             issues |-> {"ambiguous"} \union IF c.grade = "sound" THEN {} ELSE {"error"}]
      [] kind = "unread" ->
            [outcome |-> "REVIEW_REQUIRED", issues |-> {"error", "review"}, candidate |-> c]
      [] kind = "untyped" ->
            [outcome |-> "REVIEW_REQUIRED", issues |-> {"review"}, candidate |-> NoCandidate]
      [] OTHER ->
            [outcome |-> "EXTRACTION_FAILED", issues |-> {}, candidate |-> NoCandidate]

\* The grades of a candidate that understanding may end with.
Grades(kind) ==
    CASE kind = "clean" -> {"sound"}
      [] kind = "failing" -> {"failing"}
      [] kind = "ambiguous" -> {"sound", "failing"}
      [] kind = "unread" -> {"failing"}
      [] OTHER -> {}

\* The task create_review_task inserts: with a copy of the candidate.
NewTask(x) == [status |-> "PENDING", candidate |-> x.candidate, promoted |-> None]

\* Mutant: no task is created for an outcome that requires review.
FinalizeWithoutTask(d, kind, c) ==
    LET x == Extracted(kind, c)
    IN  /\ document' = [document EXCEPT ![d].status = x.outcome,
                                        ![d].typed = @ \/ c # NoCandidate]
        /\ extraction' = [extraction EXCEPT ![d] = x]
        /\ UNCHANGED <<task, ledger, decisions, request>>

\* _finalize: the extraction row is overwritten in place; a task that exists,
\* in whatever state, is left as it is.
Finalize(d, kind, c) ==
    LET x == Extracted(kind, c)
    IN  /\ document' = [document EXCEPT ![d].status = x.outcome,
                                        ![d].typed = @ \/ c # NoCandidate]
        /\ extraction' = [extraction EXCEPT ![d] = x]
        /\ task' = IF x.outcome = "REVIEW_REQUIRED" /\ task[d] = NoTask
                   THEN [task EXCEPT ![d] = NewTask(x)] ELSE task
        /\ UNCHANGED <<ledger, decisions, request>>

Understand(d) ==
    /\ runs < MaxRuns
    /\ runs' = runs + 1
    /\ \/ \E kind \in Extracts \ {"untyped", "failed", "aborted"}, n \in Numbers :
            \E g \in Grades(kind) :
              /\ versions < MaxCandidates
              /\ versions' = versions + 1
              /\ Finalize(d, kind, [id |-> versions + 1, doc |-> d, number |-> n, grade |-> g])
       \/ \E kind \in Extracts \intersect {"untyped", "failed"} :
              /\ kind = "untyped" => ~document[d].typed
              /\ Finalize(d, kind, NoCandidate)
              /\ UNCHANGED versions

\* An exception that understanding does not expect: the worker's mark_failed
\* commits the status updates already flushed in the same session.
UnderstandAborted(d) ==
    /\ "aborted" \in Extracts
    /\ runs < MaxRuns
    /\ runs' = runs + 1
    /\ document' = [document EXCEPT ![d].status = "EXTRACTING"]
    /\ UNCHANGED <<extraction, task, ledger, decisions, request, versions>>

\* The document's type is set by hand, to a known type or back to UNKNOWN.
UpdateAssociations(d) ==
    /\ document' = [document EXCEPT ![d].typed = ~@]
    /\ UNCHANGED <<extraction, task, ledger, decisions, request, runs, versions>>

\* POST /review/tasks: a task for a stored extraction, whatever its outcome.
CreateReviewTask(d) ==
    /\ extraction[d] # NoExtraction
    /\ task[d] = NoTask
    /\ task' = [task EXCEPT ![d] = NewTask(extraction[d])]
    /\ UNCHANGED <<document, extraction, ledger, decisions, request, runs, versions>>

-----------------------------------------------------------------------------
(* What the review handlers decide on the rows they loaded.                *)

Promotable == {"APPROVED", "CORRECTED"}

\* The candidate under review: the reviewer's copy, else the extraction's.
Reviewed(t, x) == IF t.candidate # NoCandidate THEN t.candidate ELSE x.candidate

Known(x) == x.candidate # NoCandidate

StillInvalid(x) ==
    \/ x.outcome = "VALIDATION_FAILED"
    \/ x.issues \intersect {"ambiguous", "error"} # {}

\* _refuse_invalid_approval, negated: there is nothing to re-validate when the
\* type is unknown or there is no candidate.
Approvable(x, c) ==
    /\ x.outcome # "VALIDATION_FAILED"
    /\ "ambiguous" \notin x.issues
    /\ Known(x) /\ c # NoCandidate => c.grade = "sound"

MayApprove(t, x) ==
    /\ Approvable(x, Reviewed(t, x))
    /\ t.status \in {"PENDING", "IN_REVIEW", "CORRECTED"}

\* _sync_outcome_after_correction: a candidate that cannot be parsed leaves the
\* stored validation as it was.
Synced(x, c) ==
    IF ~Known(x) THEN [x EXCEPT !.issues = {"review"}]
    ELSE CASE c.grade = "failing" ->
                [x EXCEPT !.issues = {"error"}, !.outcome = "VALIDATION_FAILED"]
           [] c.grade = "sound" ->
                [x EXCEPT !.issues = {}, !.outcome = "READY_FOR_RECONCILIATION"]
           [] OTHER -> x

SyncedDocument(doc, x, c) ==
    IF Known(x) /\ c.grade \in {"failing", "sound"}
    THEN [doc EXCEPT !.status = Synced(x, c).outcome] ELSE doc

\* Mutant: a corrected task may always be corrected again.
MayCorrectAgain(t, x, c) ==
    /\ Reviewed(t, x) # NoCandidate
    /\ t.status \in {"PENDING", "IN_REVIEW", "CORRECTED"}

\* correct: a CORRECTED task may still be corrected while it is invalid, but
\* only into a candidate that is invalid too: CORRECTED -> CORRECTED is no
\* transition.
MayCorrect(t, x, c) ==
    /\ Reviewed(t, x) # NoCandidate
    /\ \/ t.status \in {"PENDING", "IN_REVIEW"}
       \/ /\ t.status = "CORRECTED"
          /\ t.promoted = None
          /\ StillInvalid(x)
          /\ StillInvalid(Synced(x, c))

\* Mutant: an approved task may still be rejected.
MayRejectApproved(t) == t.status \in {"PENDING", "IN_REVIEW", "APPROVED"}

MayReject(t) == t.status \in {"PENDING", "IN_REVIEW"}

\* Mutant: the status of the task is not looked at.
MayPromoteAnyStatus(doc, t, x) ==
    /\ t.promoted = None
    /\ Known(x) \/ doc.typed
    /\ Reviewed(t, x).grade = "sound"

\* promote: the status and the candidate are judged, not the extraction.
MayPromote(doc, t, x) ==
    /\ t.promoted = None
    /\ t.status \in Promotable
    /\ Known(x) \/ doc.typed
    /\ Reviewed(t, x).grade = "sound"

\* evaluate_quality_gate
MayInvoke(x) == x.outcome \notin {"ABSENT", "READY_FOR_RECONCILIATION"}

May(op, l, c) ==
    CASE op = "approve" -> MayApprove(l.task, l.extraction)
      [] op = "correct" -> MayCorrect(l.task, l.extraction, c)
      [] op = "reject"  -> MayReject(l.task)
      [] op = "promote" -> MayPromote(l.document, l.task, l.extraction)
      [] OTHER          -> MayInvoke(l.extraction)

-----------------------------------------------------------------------------
(* A session: it loads the rows, and later commits.                        *)

\* The candidates a call may bring: a new version for a correction.
Inputs(op, d) ==
    IF op # "correct" THEN {NoCandidate}
    ELSE {c \in [id : {versions + 1}, doc : {d}, number : Numbers, grade : Corrections] :
            versions < MaxCandidates}

\* get_task, or the first SELECTs of an LLM job.
Begin(r, op, d, c) ==
    LET l == [document |-> document[d], task |-> task[d], extraction |-> extraction[d]]
    IN  /\ request[r] = Idle
        /\ May(op, l, c)
        /\ request' = [request EXCEPT ![r] =
                            [op |-> op, doc |-> d, candidate |-> c, loaded |-> l]]
        /\ versions' = IF c = NoCandidate THEN versions ELSE versions + 1
        /\ UNCHANGED <<rows, runs>>

Reads(r) ==
    \E op \in Operations, d \in Documents : \E c \in Inputs(op, d) : Begin(r, op, d, c)

\* The session of request r ends; the rest of the step says what it commits.
Ends(r, op) ==
    /\ request[r].op = op
    /\ request' = [request EXCEPT ![r] = Idle]
    /\ UNCHANGED <<runs, versions>>

Decided(r, action, c) ==
    decisions' = decisions \union
                    {[document |-> request[r].doc, action |-> action, candidate |-> c]}

FlushTask(r, assigned) ==
    task' = [task EXCEPT ![request[r].doc] = Flush(@, request[r].loaded.task, assigned)]

FlushDocument(r, assigned) ==
    document' = [document EXCEPT ![request[r].doc] =
                    Flush(@, request[r].loaded.document, assigned)]

Approve(r) ==
    /\ Ends(r, "approve")
    /\ LET l == request[r].loaded
           c == Reviewed(l.task, l.extraction)
       IN  /\ FlushTask(r, [l.task EXCEPT !.status = "APPROVED", !.candidate = c])
           /\ Decided(r, "APPROVE", c)
    /\ UNCHANGED <<document, extraction, ledger>>

\* The validation is one JSON column: an equal set of issues may still be
\* written, when the messages differ.
Correct(r) ==
    /\ Ends(r, "correct")
    /\ LET l == request[r].loaded
           c == request[r].candidate
           d == request[r].doc
           x == Synced(l.extraction, c)
           status == IF StillInvalid(x) THEN "IN_REVIEW" ELSE "CORRECTED"
           flushed == Flush(extraction[d], l.extraction, x)
       IN  /\ FlushTask(r, [l.task EXCEPT !.status = status, !.candidate = c])
           /\ FlushDocument(r, SyncedDocument(l.document, l.extraction, c))
           /\ \E issues \in {flushed.issues,
                             IF x = l.extraction \/ x.issues = {}
                             THEN flushed.issues ELSE x.issues} :
                extraction' = [extraction EXCEPT ![d] = [flushed EXCEPT !.issues = issues]]
           /\ Decided(r, "CORRECT", c)
    /\ UNCHANGED ledger

Reject(r) ==
    /\ Ends(r, "reject")
    /\ LET l == request[r].loaded
       IN  /\ FlushTask(r, [l.task EXCEPT !.status = "REJECTED"])
           /\ FlushDocument(r, [l.document EXCEPT !.status = "REVIEW_REJECTED"])
           /\ Decided(r, "REJECT", Reviewed(l.task, l.extraction))
    /\ UNCHANGED <<extraction, ledger>>

\* Mutant: a number that already has a record is written again.
PromoteOverwrites(r) ==
    /\ Ends(r, "promote")
    /\ LET l == request[r].loaded
           c == Reviewed(l.task, l.extraction)
       IN  /\ ledger' = [ledger EXCEPT ![c.number] = c]
           /\ FlushTask(r, [l.task EXCEPT !.promoted = c.number])
           /\ FlushDocument(r, [l.document EXCEPT !.status = "READY_FOR_RECONCILIATION"])
    /\ UNCHANGED <<extraction, decisions>>

\* A number that already has a record is linked, not written again.
Promote(r) ==
    /\ Ends(r, "promote")
    /\ LET l == request[r].loaded
           c == Reviewed(l.task, l.extraction)
       IN  /\ ledger' = IF ledger[c.number] = NoCandidate
                        THEN [ledger EXCEPT ![c.number] = c] ELSE ledger
           /\ FlushTask(r, [l.task EXCEPT !.promoted = c.number])
           /\ FlushDocument(r, [l.document EXCEPT !.status = "READY_FOR_RECONCILIATION"])
    /\ UNCHANGED <<extraction, decisions>>

\* The LLM job, once the provider has answered or failed.
LlmUnderstand(r) ==
    /\ Ends(r, "llm")
    /\ LET l == request[r].loaded
           d == request[r].doc
       IN  /\ FlushDocument(r, [l.document EXCEPT !.status = "REVIEW_REQUIRED"])
           /\ task' = IF task[d] = NoTask
                      THEN [task EXCEPT ![d] = NewTask(l.extraction)] ELSE task
    /\ UNCHANGED <<extraction, ledger, decisions>>

\* Any session may end in an exception before its commit: a unique constraint
\* lost to another session, a database error, a killed process.
RolledBack(r) ==
    /\ request[r] # Idle
    /\ request' = [request EXCEPT ![r] = Idle]
    /\ UNCHANGED <<rows, runs, versions>>

Session(r) ==
    \/ Reads(r) \/ RolledBack(r)
    \/ Approve(r) \/ Correct(r) \/ Reject(r) \/ Promote(r) \/ LlmUnderstand(r)

Worker(d) == Understand(d) \/ UnderstandAborted(d)

Next ==
    \/ \E d \in Documents : Worker(d) \/ UpdateAssociations(d) \/ CreateReviewTask(d)
    \/ \E r \in Requests : Session(r)

Spec == Init /\ [][Next]_vars

-----------------------------------------------------------------------------
(* Properties.                                                             *)

\* The candidates a person approved, or produced by a correction.
DecidedCandidates ==
    {e.candidate : e \in {f \in decisions : f.action \in {"APPROVE", "CORRECT"}}} \ {NoCandidate}

\* The documents a person approved when neither the task nor the extraction held
\* a candidate: nothing could be read, or nothing could be classified.
ApprovedBlank ==
    {d \in Documents : [document |-> d, action |-> "APPROVE", candidate |-> NoCandidate] \in decisions}

TB == INSTANCE TrustBoundary WITH
        NoCandidate <- NoCandidate, Numbers <- Numbers, decided <- DecidedCandidates,
        blank <- ApprovedBlank, book <- ledger

\* What reaches the authoritative tables was decided on by a person, is sound,
\* and stays (README.md, M5): review and promotion implement TrustBoundary.
KeepsTrustBoundary == TB!TBSpec

\* "only then promotes approved/corrected data": every record was written from
\* a candidate that a person approved or corrected.
OnlyReviewedIsPromoted ==
    \A n \in Numbers : ledger[n] # NoCandidate => ledger[n] \in DecidedCandidates

\* The same as far as the code keeps it (promotion_service.py:88), whichever
\* requests, LLM jobs and understanding runs interleave: a record that nobody
\* decided on is of a document that was approved blank.
ReviewedUnlessBlank ==
    \A n \in Numbers :
        ledger[n] # NoCandidate =>
            ledger[n] \in DecidedCandidates \/ ledger[n].doc \in ApprovedBlank

\* PromotionService._refuse_invalid_candidate: a validation failure never
\* becomes an authoritative record, whatever happened to the stored outcome.
RecordsAreSound ==
    \A n \in Numbers : ledger[n] # NoCandidate => ledger[n].grade = "sound"

\* "A REVIEW_REQUIRED outcome already creates a pending review task": a document
\* that waits for review has a task somebody can still act on.
ReviewRequiredIsOpen ==
    \A d \in Documents :
        document[d].status = "REVIEW_REQUIRED" =>
            /\ task[d].status \in {"PENDING", "IN_REVIEW"} \union Promotable
            /\ task[d].promoted = None

\* What is left of it when documents are read again: a document that waits for
\* review has a task, be it a finished one (review_service.py:77).
ReviewRequiredHasTask ==
    \A d \in Documents :
        document[d].status = "REVIEW_REQUIRED" => task[d] # NoTask

\* Request r is under way and will assign the task of document d.
Assigns(r, d) ==
    request[r].op \in {"approve", "correct", "reject", "promote"} /\ request[r].doc = d

Undecided(t) == t.status \notin {"APPROVED", "REJECTED"}
Recorded(t) == t.status \in Promotable /\ t.promoted # None

\* The decision of a reviewer is undone by nothing but a request that was under
\* way before: once those requests have ended, an approved or rejected task keeps
\* its status and the candidate that was decided on, whatever LLM jobs,
\* understanding runs and further requests do (review_service.py:398).
DecisionStands ==
    [][\A d \in Documents :
        \/ Undecided(task[d])
        \/ task'[d].status = task[d].status /\ task'[d].candidate = task[d].candidate
        \/ \E r \in Requests : Assigns(r, d) /\ Undecided(request[r].loaded.task)]_vars

\* Likewise for a task whose record is written: what it was promoted to and the
\* candidate it shows are replaced by nothing but a request that loaded the task
\* before the promotion, or after such a request had opened it again.
PromotionStands ==
    [][\A d \in Documents :
        \/ ~ Recorded(task[d])
        \/ task'[d].promoted = task[d].promoted /\ task'[d].candidate = task[d].candidate
        \/ \E r \in Requests : Assigns(r, d) /\ ~ Recorded(request[r].loaded.task)]_vars

=============================================================================
