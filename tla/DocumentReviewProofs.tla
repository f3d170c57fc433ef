------------------------ MODULE DocumentReviewProofs ------------------------
(***************************************************************************)
(* Theorems about DocumentReview, for every number of documents, sessions, *)
(* business numbers, understanding runs and candidate versions.            *)
(*                                                                         *)
(* That every record is sound holds however sessions interleave, because   *)
(* promote judges the candidate it loaded and writes that one.  That every *)
(* record was reviewed needs more: a task that can be promoted carries a   *)
(* candidate somebody decided on, or it carries none and its document was  *)
(* approved blank; and a session that will write a task loaded a task of   *)
(* that kind, which still carries the candidate it carried or one that was *)
(* decided on since (ReviewInv).  The same invariant keeps what a session  *)
(* may do, by the rows it loaded, beside the session: from this it follows *)
(* which requests can undo a decision or a promotion, namely those that    *)
(* were shown the task before it.  Nothing is assumed about how sessions,  *)
(* LLM jobs and understanding interleave.                                  *)
(*                                                                         *)
(* The last part is about FieldExtraction, the reading that is reviewed:   *)
(* what is stored last is what one of the extractors made of the file as   *)
(* it is and of the type that was kept (ReadingInv), so that the outcome,  *)
(* the issues and the fields of a candidate all follow from the file.      *)
(* And how a reading is scored is judged (ExtractionScore): a score is     *)
(* taken apart into what makes each of its errors, lines of one key are    *)
(* paired at most once because their ranks differ, and the totals are sums *)
(* over the cases.                                                         *)
(***************************************************************************)
EXTENDS DocumentReview, FieldExtraction, ExtractionScore, SequenceTheorems, FiniteLemmas

TaskOperations == {"approve", "correct", "reject", "promote"}

-----------------------------------------------------------------------------
(* Type correctness.                                                       *)

\* A commit of attributes of the right type leaves a row of the right type.
LEMMA FlushDocumentTyped ==
    ASSUME NEW s \in DocumentRow, NEW l \in DocumentRow, NEW a \in DocumentRow
    PROVE  Flush(s, l, a) \in DocumentRow
  BY DEF Flush, DocumentRow

LEMMA FlushExtractionTyped ==
    ASSUME NEW s \in ExtractionRow, NEW l \in ExtractionRow, NEW a \in ExtractionRow
    PROVE  Flush(s, l, a) \in ExtractionRow
  BY DEF Flush, ExtractionRow

LEMMA FlushTaskTyped ==
    ASSUME NEW s \in TaskRow, NEW l \in TaskRow, NEW a \in TaskRow
    PROVE  Flush(s, l, a) \in TaskRow
  BY DEF Flush, TaskRow

LEMMA AbsentRowsTyped ==
    /\ NoCandidate \in AnyCandidate
    /\ NoExtraction \in ExtractionRow
    /\ NoTask \in TaskRow
    /\ Idle \in RequestState
    /\ Idle.op = "none"
  BY DEF AnyCandidate, NoExtraction, ExtractionRow, NoTask, TaskRow, Idle, RequestState

LEMMA ReviewedTyped ==
    ASSUME NEW t \in TaskRow, NEW x \in ExtractionRow
    PROVE  Reviewed(t, x) \in AnyCandidate
  BY DEF Reviewed, TaskRow, ExtractionRow

LEMMA ExtractedTyped ==
    ASSUME NEW kind, NEW c \in AnyCandidate
    PROVE  Extracted(kind, c) \in ExtractionRow
<1>1. NoCandidate \in AnyCandidate
  BY AbsentRowsTyped
<1> QED BY <1>1 DEF Extracted, ExtractionRow

LEMMA NewTaskTyped ==
    ASSUME NEW x \in ExtractionRow
    PROVE  NewTask(x) \in TaskRow
  BY DEF NewTask, TaskRow, ExtractionRow

LEMMA SyncedTyped ==
    ASSUME NEW x \in ExtractionRow, NEW c \in AnyCandidate, NEW doc \in DocumentRow
    PROVE  /\ Synced(x, c) \in ExtractionRow
           /\ SyncedDocument(doc, x, c) \in DocumentRow
<1>1. Synced(x, c) \in ExtractionRow
  BY DEF Synced, ExtractionRow
<1>2. ASSUME Known(x), c.grade \in {"failing", "sound"}
      PROVE  Synced(x, c).outcome \in {"VALIDATION_FAILED", "READY_FOR_RECONCILIATION"}
  BY <1>2 DEF Synced, ExtractionRow
<1>3. SyncedDocument(doc, x, c) \in DocumentRow
  BY <1>2 DEF SyncedDocument, DocumentRow
<1> QED BY <1>1, <1>3

\* What a session in progress holds.
LEMMA SessionTyped ==
    ASSUME TypeOK, NEW r \in Requests, request[r].op # "none"
    PROVE  /\ request[r].doc \in Documents
           /\ request[r].candidate \in AnyCandidate
           /\ request[r].loaded \in Loaded
<1>1. request[r] \in RequestState
  BY DEF TypeOK
<1> QED BY <1>1 DEF RequestState

LEMMA LoadedTyped ==
    ASSUME NEW l \in Loaded
    PROVE  l.document \in DocumentRow /\ l.task \in TaskRow /\ l.extraction \in ExtractionRow
  BY DEF Loaded

\* The end of a session, and the three writes a session's commit is made of.
LEMMA EndsTyped ==
    ASSUME TypeOK, NEW r \in Requests, NEW op, Ends(r, op)
    PROVE  request' \in [Requests -> RequestState] /\ runs' \in Nat /\ versions' \in Nat
  BY AbsentRowsTyped DEF TypeOK, Ends

LEMMA FlushTaskKeepsType ==
    ASSUME TypeOK, NEW r \in Requests, request[r].op # "none",
           NEW a \in TaskRow, FlushTask(r, a)
    PROVE  task' \in [Documents -> TaskRow]
<1> DEFINE d == request[r].doc
           new == Flush(task[d], request[r].loaded.task, a)
<1>1. d \in Documents /\ request[r].loaded.task \in TaskRow
  BY SessionTyped, LoadedTyped
<1>2. task \in [Documents -> TaskRow]
  BY DEF TypeOK
<1>3. new \in TaskRow
  BY <1>1, <1>2, FlushTaskTyped
<1>4. task' = [task EXCEPT ![d] = new]
  BY <1>1, <1>2 DEF FlushTask
<1> HIDE DEF new, d
<1> QED BY <1>2, <1>3, <1>4

LEMMA FlushDocumentKeepsType ==
    ASSUME TypeOK, NEW r \in Requests, request[r].op # "none",
           NEW a \in DocumentRow, FlushDocument(r, a)
    PROVE  document' \in [Documents -> DocumentRow]
<1> DEFINE d == request[r].doc
           new == Flush(document[d], request[r].loaded.document, a)
<1>1. d \in Documents /\ request[r].loaded.document \in DocumentRow
  BY SessionTyped, LoadedTyped
<1>2. document \in [Documents -> DocumentRow]
  BY DEF TypeOK
<1>3. new \in DocumentRow
  BY <1>1, <1>2, FlushDocumentTyped
<1>4. document' = [document EXCEPT ![d] = new]
  BY <1>1, <1>2 DEF FlushDocument
<1> HIDE DEF new, d
<1> QED BY <1>2, <1>3, <1>4

LEMMA DecidedKeepsType ==
    ASSUME TypeOK, NEW r \in Requests, request[r].op # "none",
           NEW action \in {"APPROVE", "CORRECT", "REJECT"}, NEW c \in AnyCandidate,
           Decided(r, action, c)
    PROVE  decisions' \subseteq Decisions
  BY SessionTyped DEF TypeOK, Decided, Decisions

LEMMA FinalizeKeepsType ==
    ASSUME TypeOK, NEW d \in Documents, NEW kind, NEW c \in AnyCandidate,
           Finalize(d, kind, c)
    PROVE  /\ document' \in [Documents -> DocumentRow]
           /\ extraction' \in [Documents -> ExtractionRow]
           /\ task' \in [Documents -> TaskRow]
           /\ UNCHANGED <<ledger, decisions, request>>
<1> DEFINE x == Extracted(kind, c)
<1>1. x \in ExtractionRow
  BY ExtractedTyped
<1>2. x.outcome \in {"READY_FOR_RECONCILIATION", "REVIEW_REQUIRED",
                     "VALIDATION_FAILED", "EXTRACTION_FAILED"}
  BY DEF Extracted
<1>3. NewTask(x) \in TaskRow
  BY <1>1, NewTaskTyped
<1>4. /\ document' = [document EXCEPT ![d].status = x.outcome,
                                      ![d].typed = @ \/ c # NoCandidate]
      /\ extraction' = [extraction EXCEPT ![d] = x]
      /\ task' = IF x.outcome = "REVIEW_REQUIRED" /\ task[d] = NoTask
                 THEN [task EXCEPT ![d] = NewTask(x)] ELSE task
      /\ UNCHANGED <<ledger, decisions, request>>
  BY DEF Finalize
<1> HIDE DEF x
<1>5. document' \in [Documents -> DocumentRow]
  BY <1>2, <1>4 DEF TypeOK, DocumentRow
<1>6. extraction' \in [Documents -> ExtractionRow]
  BY <1>1, <1>4 DEF TypeOK
<1>7. task' \in [Documents -> TaskRow]
  BY <1>3, <1>4 DEF TypeOK
<1> QED BY <1>4, <1>5, <1>6, <1>7

\* A request that begins holds rows of the right type.
LEMMA BeginKeepsType ==
    ASSUME TypeOK, NEW r \in Requests, NEW op \in Operations, NEW d \in Documents,
           NEW c \in Inputs(op, d), Begin(r, op, d, c)
    PROVE  TypeOK'
<1> DEFINE l == [document |-> document[d], task |-> task[d], extraction |-> extraction[d]]
           new == [op |-> op, doc |-> d, candidate |-> c, loaded |-> l]
<1>1. l \in Loaded
  BY DEF TypeOK, Loaded
<1>2. c \in AnyCandidate
  <2>1. CASE op # "correct"
    BY <2>1 DEF Inputs, AnyCandidate
  <2>2. CASE op = "correct"
    <3>1. versions + 1 \in Nat
      BY DEF TypeOK
    <3>2. c \in [id : {versions + 1}, doc : {d}, number : Numbers, grade : Corrections]
      BY <2>2 DEF Inputs
    <3>3. c \in Candidates
      BY <3>1, <3>2, DocumentReviewAssumption DEF Candidates
    <3> QED BY <3>3 DEF AnyCandidate
  <2> QED BY <2>1, <2>2
<1>3. new \in RequestState
  <2>1. op \in {"approve", "correct", "reject", "promote", "llm"}
    BY DocumentReviewAssumption
  <2> HIDE DEF l
  <2> QED BY <1>1, <1>2, <2>1 DEF RequestState
<1>4. /\ request' = [request EXCEPT ![r] = new]
      /\ versions' = IF c = NoCandidate THEN versions ELSE versions + 1
      /\ UNCHANGED <<rows, runs>>
  BY DEF Begin
<1> HIDE DEF new, l
<1>5. request' \in [Requests -> RequestState] /\ versions' \in Nat
  BY <1>3, <1>4 DEF TypeOK
<1> QED BY <1>4, <1>5 DEF TypeOK, rows

LEMMA InitTyped == Init => TypeOK
<1> SUFFICES ASSUME Init PROVE TypeOK
  OBVIOUS
<1>1. document \in [Documents -> DocumentRow]
  BY DEF Init, DocumentRow
<1>2. extraction \in [Documents -> ExtractionRow] /\ task \in [Documents -> TaskRow]
  BY AbsentRowsTyped DEF Init
<1>3. ledger \in [Numbers -> AnyCandidate] /\ request \in [Requests -> RequestState]
  BY AbsentRowsTyped DEF Init
<1> QED BY <1>1, <1>2, <1>3 DEF Init, TypeOK

LEMMA StepTyped == TypeOK /\ [Next]_vars => TypeOK'
<1> SUFFICES ASSUME TypeOK, [Next]_vars PROVE TypeOK'
  OBVIOUS
<1>1. ASSUME NEW d \in Documents, Understand(d) PROVE TypeOK'
  <2>1. runs' \in Nat
    BY <1>1 DEF Understand, TypeOK
  <2>2. ASSUME NEW kind, NEW n \in Numbers, NEW g \in Grades(kind),
               versions' = versions + 1,
               Finalize(d, kind, [id |-> versions + 1, doc |-> d, number |-> n, grade |-> g])
        PROVE  TypeOK'
    <3> DEFINE c == [id |-> versions + 1, doc |-> d, number |-> n, grade |-> g]
    <3>1. g \in {"sound", "failing", "malformed"}
      BY <2>2 DEF Grades
    <3>2. c \in AnyCandidate
      BY <3>1 DEF AnyCandidate, Candidates, TypeOK
    <3>3. Finalize(d, kind, c)
      BY <2>2
    <3> HIDE DEF c
    <3> QED BY <2>1, <2>2, <3>2, <3>3, FinalizeKeepsType DEF TypeOK
  <2>3. ASSUME NEW kind, Finalize(d, kind, NoCandidate), UNCHANGED versions PROVE TypeOK'
    <3>1. NoCandidate \in AnyCandidate
      BY AbsentRowsTyped
    <3> HIDE DEF NoCandidate
    <3> QED BY <2>1, <2>3, <3>1, FinalizeKeepsType DEF TypeOK
  <2> QED BY <1>1, <2>2, <2>3 DEF Understand
<1>2. ASSUME NEW d \in Documents, UnderstandAborted(d) PROVE TypeOK'
  BY <1>2 DEF UnderstandAborted, TypeOK, DocumentRow
<1>3. ASSUME NEW d \in Documents, UpdateAssociations(d) PROVE TypeOK'
  BY <1>3 DEF UpdateAssociations, TypeOK, DocumentRow
<1>4. ASSUME NEW d \in Documents, CreateReviewTask(d) PROVE TypeOK'
  <2>1. NewTask(extraction[d]) \in TaskRow
    BY NewTaskTyped DEF TypeOK
  <2> QED BY <1>4, <2>1 DEF CreateReviewTask, TypeOK
<1>5. ASSUME NEW r \in Requests, Reads(r) PROVE TypeOK'
  BY <1>5, BeginKeepsType DEF Reads
<1>6. ASSUME NEW r \in Requests, RolledBack(r) PROVE TypeOK'
  BY <1>6, AbsentRowsTyped DEF RolledBack, TypeOK, rows
<1>7. ASSUME NEW r \in Requests, Approve(r) PROVE TypeOK'
  <2> DEFINE l == request[r].loaded
             c == Reviewed(l.task, l.extraction)
             a == [l.task EXCEPT !.status = "APPROVED", !.candidate = c]
  <2>1. Ends(r, "approve") /\ request[r].op # "none"
    BY <1>7 DEF Approve, Ends
  <2>2. l.task \in TaskRow /\ c \in AnyCandidate
    BY <2>1, SessionTyped, LoadedTyped, ReviewedTyped
  <2>3. a \in TaskRow
    BY <2>2 DEF TaskRow
  <2>4. FlushTask(r, a) /\ Decided(r, "APPROVE", c) /\ UNCHANGED <<document, extraction, ledger>>
    BY <1>7 DEF Approve
  <2> HIDE DEF a, c
  <2>5. task' \in [Documents -> TaskRow] /\ decisions' \subseteq Decisions
    BY <2>1, <2>2, <2>3, <2>4, FlushTaskKeepsType, DecidedKeepsType
  <2> QED BY <2>1, <2>4, <2>5, EndsTyped DEF TypeOK
<1>8. ASSUME NEW r \in Requests, Correct(r) PROVE TypeOK'
  <2> DEFINE l == request[r].loaded
             c == request[r].candidate
             d == request[r].doc
             x == Synced(l.extraction, c)
             status == IF StillInvalid(x) THEN "IN_REVIEW" ELSE "CORRECTED"
             flushed == Flush(extraction[d], l.extraction, x)
             a == [l.task EXCEPT !.status = status, !.candidate = c]
             doc == SyncedDocument(l.document, l.extraction, c)
  <2>1. Ends(r, "correct") /\ request[r].op # "none"
    BY <1>8 DEF Correct, Ends
  <2>2. /\ d \in Documents /\ c \in AnyCandidate
        /\ l.document \in DocumentRow /\ l.task \in TaskRow /\ l.extraction \in ExtractionRow
    BY <2>1, SessionTyped, LoadedTyped
  <2>3. x \in ExtractionRow /\ doc \in DocumentRow
    BY <2>2, SyncedTyped
  <2>4. a \in TaskRow
    <3>1. status \in {"IN_REVIEW", "CORRECTED"}
      OBVIOUS
    <3> HIDE DEF status, c, l
    <3> QED BY <2>2, <3>1 DEF TaskRow
  <2>5. flushed \in ExtractionRow
    <3> HIDE DEF x, l, d
    <3> QED BY <2>2, <2>3, FlushExtractionTyped DEF TypeOK
  <2>6. /\ FlushTask(r, a) /\ FlushDocument(r, doc) /\ Decided(r, "CORRECT", c)
        /\ UNCHANGED ledger
    BY <1>8 DEF Correct
  <2>7. PICK issues \in {flushed.issues,
                         IF x = l.extraction \/ x.issues = {}
                         THEN flushed.issues ELSE x.issues} :
              extraction' = [extraction EXCEPT ![d] = [flushed EXCEPT !.issues = issues]]
    BY <1>8 DEF Correct
  <2> HIDE DEF a, c, doc, x, flushed, status, l, d
  <2>8. [flushed EXCEPT !.issues = issues] \in ExtractionRow
    BY <2>3, <2>5, <2>7 DEF ExtractionRow
  <2>9. extraction' \in [Documents -> ExtractionRow]
    BY <2>7, <2>8 DEF TypeOK
  <2>10. task' \in [Documents -> TaskRow]
    BY <2>1, <2>4, <2>6, FlushTaskKeepsType
  <2>11. document' \in [Documents -> DocumentRow]
    BY <2>1, <2>3, <2>6, FlushDocumentKeepsType
  <2>12. decisions' \subseteq Decisions
    BY <2>1, <2>2, <2>6, DecidedKeepsType
  <2> QED BY <2>1, <2>6, <2>9, <2>10, <2>11, <2>12, EndsTyped DEF TypeOK
<1>9. ASSUME NEW r \in Requests, Reject(r) PROVE TypeOK'
  <2> DEFINE l == request[r].loaded
             c == Reviewed(l.task, l.extraction)
             a == [l.task EXCEPT !.status = "REJECTED"]
             doc == [l.document EXCEPT !.status = "REVIEW_REJECTED"]
  <2>1. Ends(r, "reject") /\ request[r].op # "none"
    BY <1>9 DEF Reject, Ends
  <2>2. l.task \in TaskRow /\ l.document \in DocumentRow /\ c \in AnyCandidate
    BY <2>1, SessionTyped, LoadedTyped, ReviewedTyped
  <2>3. a \in TaskRow /\ doc \in DocumentRow
    BY <2>2 DEF TaskRow, DocumentRow
  <2>4. /\ FlushTask(r, a) /\ FlushDocument(r, doc) /\ Decided(r, "REJECT", c)
        /\ UNCHANGED <<extraction, ledger>>
    BY <1>9 DEF Reject
  <2> HIDE DEF a, c, doc
  <2>5. /\ task' \in [Documents -> TaskRow] /\ document' \in [Documents -> DocumentRow]
        /\ decisions' \subseteq Decisions
    BY <2>1, <2>2, <2>3, <2>4, FlushTaskKeepsType, FlushDocumentKeepsType, DecidedKeepsType
  <2> QED BY <2>1, <2>4, <2>5, EndsTyped DEF TypeOK
<1>10. ASSUME NEW r \in Requests, Promote(r) PROVE TypeOK'
  <2> DEFINE l == request[r].loaded
             c == Reviewed(l.task, l.extraction)
             a == [l.task EXCEPT !.promoted = c.number]
             doc == [l.document EXCEPT !.status = "READY_FOR_RECONCILIATION"]
  <2>1. Ends(r, "promote") /\ request[r].op # "none"
    BY <1>10 DEF Promote, Ends
  <2>2. l.task \in TaskRow /\ l.document \in DocumentRow /\ c \in AnyCandidate
    BY <2>1, SessionTyped, LoadedTyped, ReviewedTyped
  <2>3. c.number \in Numbers \union {None}
    BY <2>2 DEF AnyCandidate, Candidates, NoCandidate
  <2>4. a \in TaskRow /\ doc \in DocumentRow
    BY <2>2, <2>3 DEF TaskRow, DocumentRow
  <2>5. /\ ledger' = IF ledger[c.number] = NoCandidate
                     THEN [ledger EXCEPT ![c.number] = c] ELSE ledger
        /\ FlushTask(r, a) /\ FlushDocument(r, doc) /\ UNCHANGED <<extraction, decisions>>
    BY <1>10 DEF Promote
  <2> HIDE DEF a, c, doc
  <2>6. ledger' \in [Numbers -> AnyCandidate]
    BY <2>2, <2>5 DEF TypeOK
  <2>7. task' \in [Documents -> TaskRow] /\ document' \in [Documents -> DocumentRow]
    BY <2>1, <2>4, <2>5, FlushTaskKeepsType, FlushDocumentKeepsType
  <2> QED BY <2>1, <2>5, <2>6, <2>7, EndsTyped DEF TypeOK
<1>11. ASSUME NEW r \in Requests, LlmUnderstand(r) PROVE TypeOK'
  <2> DEFINE l == request[r].loaded
             d == request[r].doc
             doc == [l.document EXCEPT !.status = "REVIEW_REQUIRED"]
             new == NewTask(l.extraction)
  <2>1. Ends(r, "llm") /\ request[r].op # "none"
    BY <1>11 DEF LlmUnderstand, Ends
  <2>2. d \in Documents /\ l.document \in DocumentRow /\ l.extraction \in ExtractionRow
    BY <2>1, SessionTyped, LoadedTyped
  <2>3. doc \in DocumentRow /\ new \in TaskRow
    BY <2>2, NewTaskTyped DEF DocumentRow
  <2>4. /\ FlushDocument(r, doc)
        /\ task' = IF task[d] = NoTask THEN [task EXCEPT ![d] = new] ELSE task
        /\ UNCHANGED <<extraction, ledger, decisions>>
    BY <1>11 DEF LlmUnderstand
  <2> HIDE DEF new, doc, d
  <2>5. task' \in [Documents -> TaskRow]
    BY <2>2, <2>3, <2>4 DEF TypeOK
  <2>6. document' \in [Documents -> DocumentRow]
    BY <2>1, <2>3, <2>4, FlushDocumentKeepsType
  <2> QED BY <2>1, <2>4, <2>5, <2>6, EndsTyped DEF TypeOK
<1>12. CASE UNCHANGED vars
  BY <1>12 DEF vars, TypeOK
<1> QED
  BY <1>1, <1>2, <1>3, <1>4, <1>5, <1>6, <1>7, <1>8, <1>9, <1>10, <1>11, <1>12
  DEF Next, Worker, Session

\* Every variable keeps its type, the rows a session loaded included.
THEOREM TypeCorrect == Spec => []TypeOK
<1>1. TypeOK /\ [Next]_vars => TypeOK'
  BY StepTyped
<1> QED BY InitTyped, <1>1, PTL DEF Spec

-----------------------------------------------------------------------------
(* Every record is sound.                                                  *)

SoundInv ==
    /\ RecordsAreSound
    /\ \A r \in Requests :
            request[r].op = "promote" =>
                Reviewed(request[r].loaded.task, request[r].loaded.extraction).grade = "sound"

\* Only promote writes the ledger, and it writes the candidate it judged.
LEMMA StepSound == TypeOK /\ SoundInv /\ [Next]_vars => SoundInv'
<1> SUFFICES ASSUME TypeOK, SoundInv, [Next]_vars PROVE SoundInv'
  OBVIOUS
<1> USE DEF SoundInv, RecordsAreSound
<1>1. ASSUME UNCHANGED <<ledger, request>> PROVE SoundInv'
  BY <1>1 DEF Reviewed
<1>2. ASSUME NEW r \in Requests, request' = [request EXCEPT ![r] = Idle], UNCHANGED ledger
      PROVE  SoundInv'
  BY <1>2 DEF Reviewed, Idle, TypeOK
<1>3. ASSUME NEW d \in Documents, Understand(d) PROVE SoundInv'
  BY <1>1, <1>3 DEF Understand, Finalize
<1>4. ASSUME NEW d \in Documents,
             UnderstandAborted(d) \/ UpdateAssociations(d) \/ CreateReviewTask(d)
      PROVE  SoundInv'
  BY <1>1, <1>4 DEF UnderstandAborted, UpdateAssociations, CreateReviewTask
<1>5. ASSUME NEW r \in Requests, Reads(r) PROVE SoundInv'
  <2>1. PICK op \in Operations, d \in Documents : \E c \in Inputs(op, d) : Begin(r, op, d, c)
    BY <1>5 DEF Reads
  <2>2. PICK c \in Inputs(op, d) : Begin(r, op, d, c)
    BY <2>1
  <2> DEFINE l == [document |-> document[d], task |-> task[d], extraction |-> extraction[d]]
             new == [op |-> op, doc |-> d, candidate |-> c, loaded |-> l]
  <2>3. request' = [request EXCEPT ![r] = new] /\ May(op, l, c) /\ UNCHANGED ledger
    BY <2>2 DEF Begin, rows
  <2>4. op = "promote" => Reviewed(l.task, l.extraction).grade = "sound"
    BY <2>3 DEF May, MayPromote
  <2>5. new.op = op /\ new.loaded = l
    OBVIOUS
  <2> HIDE DEF new, l
  <2> QED BY <2>3, <2>4, <2>5 DEF Reviewed, TypeOK
<1>6. ASSUME NEW r \in Requests,
             RolledBack(r) \/ Approve(r) \/ Correct(r) \/ Reject(r) \/ LlmUnderstand(r)
      PROVE  SoundInv'
  BY <1>2, <1>6 DEF RolledBack, rows, Approve, Correct, Reject, LlmUnderstand, Ends
<1>7. ASSUME NEW r \in Requests, Promote(r) PROVE SoundInv'
  <2> DEFINE c == Reviewed(request[r].loaded.task, request[r].loaded.extraction)
  <2>1. /\ request[r].op = "promote" /\ request' = [request EXCEPT ![r] = Idle]
        /\ ledger' = IF ledger[c.number] = NoCandidate
                     THEN [ledger EXCEPT ![c.number] = c] ELSE ledger
    BY <1>7 DEF Promote, Ends
  <2>2. c.grade = "sound"
    BY <2>1
  <2> HIDE DEF c
  <2>3. RecordsAreSound'
    BY <2>1, <2>2 DEF TypeOK
  <2> QED BY <2>1, <2>3 DEF Reviewed, Idle, TypeOK
<1>8. CASE UNCHANGED vars
  BY <1>1, <1>8 DEF vars
<1> QED BY <1>3, <1>4, <1>5, <1>6, <1>7, <1>8 DEF Next, Worker, Session

\* PromotionService._refuse_invalid_candidate: whatever the sessions and the
\* worker interleave, no record is written from a candidate that the validator
\* does not accept.
THEOREM EveryRecordIsSound == Spec => []RecordsAreSound
<1>1. Init => SoundInv
  BY DEF Init, SoundInv, RecordsAreSound, Idle
<1>2. SoundInv => RecordsAreSound
  BY DEF SoundInv
<1>3. TypeOK /\ SoundInv /\ [Next]_vars => SoundInv'
  BY StepSound
<1> QED BY <1>1, <1>2, <1>3, TypeCorrect, PTL DEF Spec

-----------------------------------------------------------------------------
(* Every record was reviewed, or its document was approved blank.          *)

\* What was decided so far accounts for a task t of document d: if it can be
\* promoted, its candidate is among the decided ones C, or it has none and d is
\* among the documents B approved blank.
Accounted(t, d, C, B) ==
    /\ t = NoTask \/ t.status # "ABSENT"
    /\ t.status \in Promotable => IF t.candidate = NoCandidate THEN d \in B ELSE t.candidate \in C
    /\ t.status = "CORRECTED" => t.candidate # NoCandidate

\* A candidate is of the document whose reading holds it.
Own(c, d) == c = NoCandidate \/ c.doc = d

ExtractionsAreOwn == \A d \in Documents : Own(extraction[d].candidate, d)

TasksAreAccounted ==
    \A d \in Documents : Accounted(task[d], d, DecidedCandidates, ApprovedBlank)

WaitingHasTask ==
    \A d \in Documents : document[d].status = "REVIEW_REQUIRED" => task[d].status # "ABSENT"

\* A session was allowed by what it loaded, and what it loaded was accounted for.
\* The task still carries the candidate the session loaded, or one decided on since.
SessionKnows(q) ==
    /\ May(q.op, q.loaded, q.candidate)
    /\ Own(q.loaded.extraction.candidate, q.doc)
    /\ q.op = "correct" => q.candidate # NoCandidate
    /\ q.op \in TaskOperations =>
        /\ Accounted(q.loaded.task, q.doc, DecidedCandidates, ApprovedBlank)
        /\ task[q.doc].status # "ABSENT"
        /\ task[q.doc].candidate \in DecidedCandidates \union {q.loaded.task.candidate}

SessionsKnow == \A r \in Requests : request[r].op # "none" => SessionKnows(request[r])

ReviewInv ==
    /\ ExtractionsAreOwn
    /\ TasksAreAccounted
    /\ WaitingHasTask
    /\ SessionsKnow
    /\ ReviewedUnlessBlank

DecidedGrow ==
    DecidedCandidates \subseteq DecidedCandidates' /\ ApprovedBlank \subseteq ApprovedBlank'

\* What accounts for a task still does when more has been decided.
LEMMA StaysAccounted ==
    ASSUME DecidedGrow, NEW t, NEW d, Accounted(t, d, DecidedCandidates, ApprovedBlank)
    PROVE  Accounted(t, d, DecidedCandidates', ApprovedBlank')
  BY DEF DecidedGrow, Accounted

LEMMA FlushExtractionCandidate ==
    ASSUME NEW s \in ExtractionRow, NEW l \in ExtractionRow, NEW a \in ExtractionRow
    PROVE  Flush(s, l, a).candidate = IF a.candidate = l.candidate
                                      THEN s.candidate ELSE a.candidate
  BY DEF Flush, ExtractionRow

\* What an entry of the audit trail adds to the decided candidates and to the
\* documents approved blank.
LEMMA DecidedAdds ==
    ASSUME NEW r \in Requests, request[r].doc \in Documents,
           NEW action \in {"APPROVE", "CORRECT", "REJECT"}, NEW c, Decided(r, action, c)
    PROVE  /\ DecidedCandidates' = IF action = "REJECT" \/ c = NoCandidate THEN DecidedCandidates
                                   ELSE DecidedCandidates \union {c}
           /\ ApprovedBlank' = IF action = "APPROVE" /\ c = NoCandidate
                               THEN ApprovedBlank \union {request[r].doc} ELSE ApprovedBlank
<1> DEFINE entry == [document |-> request[r].doc, action |-> action, candidate |-> c]
           Told(S) == {f \in S : f.action \in {"APPROVE", "CORRECT"}}
           Blank(d) == [document |-> d, action |-> "APPROVE", candidate |-> NoCandidate]
<1>1. decisions' = decisions \union {entry}
  BY DEF Decided
<1>2. entry.action = action /\ entry.candidate = c
  OBVIOUS
<1>3. \A d \in Documents : Blank(d) = entry <=>
            d = request[r].doc /\ action = "APPROVE" /\ c = NoCandidate
  OBVIOUS
<1>4. /\ DecidedCandidates = {e.candidate : e \in Told(decisions)} \ {NoCandidate}
      /\ DecidedCandidates' = {e.candidate : e \in Told(decisions')} \ {NoCandidate}
      /\ ApprovedBlank = {d \in Documents : Blank(d) \in decisions}
      /\ ApprovedBlank' = {d \in Documents : Blank(d) \in decisions'}
  BY DEF DecidedCandidates, ApprovedBlank
<1> HIDE DEF entry, Blank
<1>5. Told(decisions') = IF action = "REJECT" THEN Told(decisions)
                         ELSE Told(decisions) \union {entry}
  BY <1>1, <1>2
<1>6. DecidedCandidates' = IF action = "REJECT" \/ c = NoCandidate THEN DecidedCandidates
                           ELSE DecidedCandidates \union {c}
  <2> HIDE DEF Told
  <2> QED BY <1>2, <1>4, <1>5
<1>7. ApprovedBlank' = IF action = "APPROVE" /\ c = NoCandidate
                       THEN ApprovedBlank \union {request[r].doc} ELSE ApprovedBlank
  BY <1>1, <1>3, <1>4
<1> QED BY <1>6, <1>7

LEMMA DecidedSame ==
    ASSUME UNCHANGED decisions
    PROVE  DecidedCandidates' = DecidedCandidates /\ ApprovedBlank' = ApprovedBlank
  BY DEF DecidedCandidates, ApprovedBlank

\* What a session's commit leaves of its task, attribute by attribute.
LEMMA WriteTask ==
    ASSUME TypeOK, NEW r \in Requests, request[r].op \in TaskOperations,
           NEW a \in TaskRow, FlushTask(r, a)
    PROVE  LET d == request[r].doc
               seen == request[r].loaded.task
               row == Flush(task[d], seen, a)
           IN  /\ d \in Documents /\ seen \in TaskRow /\ row \in TaskRow
               /\ task' = [task EXCEPT ![d] = row]
               /\ row.status = IF a.status = seen.status THEN task[d].status ELSE a.status
               /\ row.candidate = IF a.candidate = seen.candidate
                                  THEN task[d].candidate ELSE a.candidate
               /\ row.promoted = IF a.promoted = seen.promoted
                                 THEN task[d].promoted ELSE a.promoted
<1>1. request[r].doc \in Documents /\ request[r].loaded.task \in TaskRow
  BY SessionTyped, LoadedTyped DEF TaskOperations
<1>2. task[request[r].doc] \in TaskRow
  BY <1>1 DEF TypeOK
<1>3. ASSUME NEW t \in TaskRow, NEW l \in TaskRow
      PROVE  /\ Flush(t, l, a).status = IF a.status = l.status THEN t.status ELSE a.status
             /\ Flush(t, l, a).candidate = IF a.candidate = l.candidate
                                           THEN t.candidate ELSE a.candidate
             /\ Flush(t, l, a).promoted = IF a.promoted = l.promoted
                                          THEN t.promoted ELSE a.promoted
  BY DEF Flush, TaskRow
<1> QED BY <1>1, <1>2, <1>3, FlushTaskTyped DEF FlushTask

\* A session whose commit leaves its task accounted for, with the candidate the
\* task had or one that has been decided on, leaves the other sessions knowing
\* their tasks.
LEMMA CommitKeepsReview ==
    ASSUME TypeOK, ReviewInv, NEW r \in Requests, NEW d \in Documents, NEW row,
           request' = [request EXCEPT ![r] = Idle],
           task' = [task EXCEPT ![d] = row],
           DecidedGrow,
           row.status # "ABSENT",
           Accounted(row, d, DecidedCandidates', ApprovedBlank'),
           row.candidate \in DecidedCandidates' \union {task[d].candidate}
    PROVE  TasksAreAccounted' /\ SessionsKnow'
<1>1. \A e \in Documents : task'[e] = IF e = d THEN row ELSE task[e]
  BY DEF TypeOK
<1>2. TasksAreAccounted'
  <2> SUFFICES ASSUME NEW e \in Documents
               PROVE  Accounted(task'[e], e, DecidedCandidates', ApprovedBlank')
    BY DEF TasksAreAccounted
  <2>1. CASE e = d
    BY <1>1, <2>1
  <2>2. CASE e # d
    BY <1>1, <2>2, StaysAccounted DEF ReviewInv, TasksAreAccounted
  <2> QED BY <2>1, <2>2
<1>3. SessionsKnow'
  <2> SUFFICES ASSUME NEW q \in Requests, request'[q].op # "none"
               PROVE  SessionKnows(request[q])' /\ request'[q] = request[q]
    BY DEF SessionsKnow
  <2>1. request'[q] = request[q]
    BY DEF TypeOK, Idle
  <2>2. SessionKnows(request[q]) /\ request[q].doc \in Documents
    BY <2>1, SessionTyped DEF ReviewInv, SessionsKnow
  <2>3. ASSUME request[q].op \in TaskOperations
        PROVE  /\ Accounted(request[q].loaded.task, request[q].doc,
                            DecidedCandidates', ApprovedBlank')
               /\ task'[request[q].doc].status # "ABSENT"
               /\ task'[request[q].doc].candidate
                        \in DecidedCandidates' \union {request[q].loaded.task.candidate}
    <3>1. /\ Accounted(request[q].loaded.task, request[q].doc,
                       DecidedCandidates, ApprovedBlank)
          /\ task[request[q].doc].status # "ABSENT"
          /\ task[request[q].doc].candidate
                    \in DecidedCandidates \union {request[q].loaded.task.candidate}
      BY <2>2, <2>3 DEF SessionKnows
    <3>2. Accounted(request[q].loaded.task, request[q].doc, DecidedCandidates', ApprovedBlank')
      BY <3>1, StaysAccounted
    <3> QED BY <1>1, <2>2, <3>1, <3>2 DEF DecidedGrow
  <2> QED BY <2>1, <2>2, <2>3
      DEF SessionKnows, May, MayApprove, MayCorrect, MayReject, MayPromote, MayInvoke
<1> QED BY <1>2, <1>3

\* A commit puts no document under review, and takes no task away.
LEMMA WaitingKept ==
    ASSUME ReviewInv,
           \A e \in Documents : task[e].status # "ABSENT" => task'[e].status # "ABSENT",
           \A e \in Documents : document'[e].status = "REVIEW_REQUIRED" =>
                \/ document[e].status = "REVIEW_REQUIRED"
                \/ task'[e].status # "ABSENT"
    PROVE  WaitingHasTask'
  BY DEF ReviewInv, WaitingHasTask

LEMMA FlushDocumentStatus ==
    ASSUME TypeOK, NEW r \in Requests, request[r].op # "none",
           NEW a \in DocumentRow, FlushDocument(r, a)
    PROVE  \A e \in Documents :
              document'[e].status \in {document[e].status, a.status}
<1>1. request[r].doc \in Documents /\ request[r].loaded.document \in DocumentRow
  BY SessionTyped, LoadedTyped
<1>2. \A s, l \in DocumentRow : Flush(s, l, a).status \in {s.status, a.status}
  BY DEF Flush, DocumentRow
<1>3. \A e \in Documents : document[e] \in DocumentRow
  BY DEF TypeOK
<1> DEFINE d == request[r].doc
           row == Flush(document[d], request[r].loaded.document, a)
<1>4. document' = [document EXCEPT ![d] = row]
  BY DEF FlushDocument
<1>5. row.status \in {document[d].status, a.status}
  BY <1>1, <1>2, <1>3
<1> HIDE DEF row, d
<1> QED BY <1>3, <1>4, <1>5 DEF TypeOK

\* What a session that is about to write a task knows.
LEMMA SessionFacts ==
    ASSUME TypeOK, ReviewInv, NEW r \in Requests, request[r].op \in TaskOperations
    PROVE  LET l == request[r].loaded
               d == request[r].doc
           IN  /\ d \in Documents
               /\ l.document \in DocumentRow /\ l.task \in TaskRow
               /\ l.extraction \in ExtractionRow /\ task[d] \in TaskRow
               /\ Reviewed(l.task, l.extraction) \in AnyCandidate
               /\ Own(l.extraction.candidate, d)
               /\ May(request[r].op, l, request[r].candidate)
               /\ Accounted(l.task, d, DecidedCandidates, ApprovedBlank)
               /\ Accounted(task[d], d, DecidedCandidates, ApprovedBlank)
               /\ task[d].status # "ABSENT"
               /\ task[d].candidate \in DecidedCandidates \union {l.task.candidate}
               /\ request[r].candidate \in AnyCandidate
               /\ request[r].op = "correct" => request[r].candidate # NoCandidate
<1> DEFINE l == request[r].loaded
           d == request[r].doc
<1>1. request[r].op # "none"
  BY DEF TaskOperations
<1>2. d \in Documents /\ l \in Loaded /\ request[r].candidate \in AnyCandidate
  BY <1>1, SessionTyped
<1>3. l.document \in DocumentRow /\ l.task \in TaskRow /\ l.extraction \in ExtractionRow
  BY <1>2, LoadedTyped
<1>4. task[d] \in TaskRow /\ Reviewed(l.task, l.extraction) \in AnyCandidate
  BY <1>2, <1>3, ReviewedTyped DEF TypeOK
<1>5. SessionKnows(request[r])
  BY <1>1 DEF ReviewInv, SessionsKnow
<1>6. Accounted(task[d], d, DecidedCandidates, ApprovedBlank)
  BY <1>2 DEF ReviewInv, TasksAreAccounted
<1> QED BY <1>2, <1>3, <1>4, <1>5, <1>6 DEF SessionKnows

\* An approval approves the candidate the reviewer was shown, or a blank.
LEMMA ApproveKeepsReview ==
    ASSUME TypeOK, ReviewInv, NEW r \in Requests, Approve(r)
    PROVE  ReviewInv'
<1> DEFINE l == request[r].loaded
           d == request[r].doc
           c == Reviewed(l.task, l.extraction)
           a == [l.task EXCEPT !.status = "APPROVED", !.candidate = c]
           row == Flush(task[d], l.task, a)
<1>1. request[r].op = "approve" /\ request[r].op \in TaskOperations
      /\ request' = [request EXCEPT ![r] = Idle]
  BY DEF Approve, Ends, TaskOperations
<1>2. /\ d \in Documents /\ l.task \in TaskRow /\ task[d] \in TaskRow
      /\ c \in AnyCandidate /\ MayApprove(l.task, l.extraction)
      /\ task[d].candidate \in DecidedCandidates \union {l.task.candidate}
  BY <1>1, SessionFacts DEF May
<1>3. a \in TaskRow /\ a.candidate = c /\ a.status = "APPROVED"
  BY <1>2 DEF TaskRow
<1>4. /\ FlushTask(r, a) /\ Decided(r, "APPROVE", c)
      /\ UNCHANGED <<document, extraction, ledger>>
  BY DEF Approve
<1>5. /\ DecidedCandidates' = IF c = NoCandidate THEN DecidedCandidates
                              ELSE DecidedCandidates \union {c}
      /\ ApprovedBlank' = IF c = NoCandidate THEN ApprovedBlank \union {d} ELSE ApprovedBlank
  BY <1>2, <1>4, DecidedAdds
<1>6. c = l.task.candidate \/ l.task.candidate = NoCandidate
  BY DEF Reviewed
<1>7. /\ task' = [task EXCEPT ![d] = row]
      /\ row.status = IF a.status = l.task.status THEN task[d].status ELSE a.status
      /\ row.candidate = IF a.candidate = l.task.candidate THEN task[d].candidate ELSE a.candidate
  BY <1>1, <1>3, <1>4, WriteTask
<1>8. l.task.status # "APPROVED"
  BY <1>2 DEF MayApprove
<1> HIDE DEF a, c, l, d, row
<1>9. row.status = "APPROVED" /\ row.candidate \in {task[d].candidate, c}
      /\ (row.candidate = task[d].candidate => c = l.task.candidate \/ row.candidate = c)
  BY <1>3, <1>7, <1>8
<1>10. DecidedGrow
  BY <1>5 DEF DecidedGrow
<1>11. row.candidate \in DecidedCandidates' \union {c}
  BY <1>2, <1>5, <1>9
<1>12. NoCandidate \notin DecidedCandidates'
  BY DEF DecidedCandidates
<1>13. Accounted(row, d, DecidedCandidates', ApprovedBlank')
  BY <1>5, <1>9, <1>11, <1>12 DEF Accounted
<1>14. row.candidate \in DecidedCandidates' \union {task[d].candidate}
  BY <1>5, <1>6, <1>2, <1>9, <1>11, <1>3, <1>7
<1>15. TasksAreAccounted' /\ SessionsKnow'
  BY <1>1, <1>2, <1>7, <1>9, <1>10, <1>13, <1>14, CommitKeepsReview
<1>16. WaitingHasTask'
  <2>1. \A e \in Documents : task'[e] = IF e = d THEN row ELSE task[e]
    BY <1>7 DEF TypeOK
  <2> QED BY <1>4, <1>9, <2>1, WaitingKept
<1>17. ExtractionsAreOwn' /\ ReviewedUnlessBlank'
  BY <1>4, <1>10 DEF ReviewInv, ExtractionsAreOwn, ReviewedUnlessBlank, DecidedGrow
<1> QED BY <1>15, <1>16, <1>17 DEF ReviewInv

\* A correction decides on the candidate it brings.
LEMMA CorrectKeepsReview ==
    ASSUME TypeOK, ReviewInv, NEW r \in Requests, Correct(r)
    PROVE  ReviewInv'
<1> DEFINE l == request[r].loaded
           d == request[r].doc
           c == request[r].candidate
           x == Synced(l.extraction, c)
           y == SyncedDocument(l.document, l.extraction, c)
           status == IF StillInvalid(x) THEN "IN_REVIEW" ELSE "CORRECTED"
           a == [l.task EXCEPT !.status = status, !.candidate = c]
           row == Flush(task[d], l.task, a)
           flushed == Flush(extraction[d], l.extraction, x)
<1>1. /\ request[r].op = "correct" /\ request[r].op \in TaskOperations
      /\ request' = [request EXCEPT ![r] = Idle]
  BY DEF Correct, Ends, TaskOperations
<1>2. /\ d \in Documents /\ l.task \in TaskRow /\ l.extraction \in ExtractionRow
      /\ l.document \in DocumentRow /\ task[d] \in TaskRow
      /\ Own(l.extraction.candidate, d)
      /\ task[d].status # "ABSENT"
      /\ task[d].candidate \in DecidedCandidates \union {l.task.candidate}
      /\ c \in AnyCandidate /\ c # NoCandidate
  BY <1>1, SessionFacts
<1>3. status \in {"IN_REVIEW", "CORRECTED"}
  OBVIOUS
<1>4. a \in TaskRow /\ a.candidate = c /\ a.status = status
  <2> HIDE DEF status, c, l
  <2> QED BY <1>2, <1>3 DEF TaskRow
<1>5. FlushTask(r, a) /\ FlushDocument(r, y) /\ Decided(r, "CORRECT", c) /\ UNCHANGED ledger
  BY DEF Correct
<1>6. DecidedCandidates' = DecidedCandidates \union {c} /\ ApprovedBlank' = ApprovedBlank
  BY <1>2, <1>5, DecidedAdds
<1>7. PICK issues :
          extraction' = [extraction EXCEPT ![d] = [flushed EXCEPT !.issues = issues]]
  BY DEF Correct
<1>8. x \in ExtractionRow /\ y \in DocumentRow
  BY <1>2, SyncedTyped
<1>9. x.candidate = l.extraction.candidate
  BY <1>2 DEF Synced, ExtractionRow
<1>10. y.status = "REVIEW_REQUIRED" => y = l.document
  <2>1. CASE Known(l.extraction) /\ c.grade \in {"failing", "sound"}
    <3>1. x.outcome \in {"VALIDATION_FAILED", "READY_FOR_RECONCILIATION"}
      BY <1>2, <2>1 DEF Synced, ExtractionRow
    <3>2. y.status = x.outcome
      BY <1>2, <2>1 DEF SyncedDocument, DocumentRow
    <3> QED BY <3>1, <3>2
  <2>2. CASE ~(Known(l.extraction) /\ c.grade \in {"failing", "sound"})
    BY <2>2 DEF SyncedDocument
  <2> QED BY <2>1, <2>2
<1>11. flushed \in ExtractionRow /\ Own(flushed.candidate, d)
  <2>1. extraction[d] \in ExtractionRow /\ Own(extraction[d].candidate, d)
    BY <1>2 DEF TypeOK, ReviewInv, ExtractionsAreOwn
  <2> HIDE DEF x, l, d
  <2>2. flushed.candidate = extraction[d].candidate
    BY <1>2, <1>8, <1>9, <2>1, FlushExtractionCandidate
  <2>3. flushed \in ExtractionRow
    BY <1>2, <1>8, <2>1, FlushExtractionTyped
  <2> QED BY <2>1, <2>2, <2>3
<1>12. /\ task' = [task EXCEPT ![d] = row]
       /\ row.status = IF a.status = l.task.status THEN task[d].status ELSE a.status
       /\ row.candidate = IF a.candidate = l.task.candidate THEN task[d].candidate ELSE a.candidate
  BY <1>1, <1>4, <1>5, WriteTask
<1>13. \A e \in Documents : document'[e].status = "REVIEW_REQUIRED" =>
                document[e].status = "REVIEW_REQUIRED"
  <2>1. document' = [document EXCEPT ![d] = Flush(document[d], l.document, y)]
    BY <1>5 DEF FlushDocument
  <2>2. document \in [Documents -> DocumentRow]
    BY DEF TypeOK
  <2> HIDE DEF y, l, d
  <2>3. Flush(document[d], l.document, y).status =
            IF y.status = l.document.status THEN document[d].status ELSE y.status
    BY <1>2, <2>2 DEF Flush, DocumentRow
  <2> QED BY <1>2, <1>10, <2>1, <2>2, <2>3
<1> HIDE DEF a, c, l, d, x, y, status, flushed, row
<1>14. row.status # "ABSENT" /\ row.candidate \in DecidedCandidates'
  BY <1>2, <1>3, <1>4, <1>6, <1>12
<1>15. row.candidate # NoCandidate
  BY <1>14 DEF DecidedCandidates
<1>16. Accounted(row, d, DecidedCandidates', ApprovedBlank')
  BY <1>14, <1>15 DEF Accounted
<1>17. DecidedGrow
  BY <1>6 DEF DecidedGrow
<1>18. TasksAreAccounted' /\ SessionsKnow'
  BY <1>1, <1>2, <1>12, <1>14, <1>16, <1>17, CommitKeepsReview
<1>19. WaitingHasTask'
  <2>1. \A e \in Documents : task'[e] = IF e = d THEN row ELSE task[e]
    BY <1>12 DEF TypeOK
  <2> QED BY <1>13, <1>14, <2>1, WaitingKept
<1>20. ExtractionsAreOwn'
  <2> DEFINE new == [flushed EXCEPT !.issues = issues]
  <2>1. new.candidate = flushed.candidate
    BY <1>11 DEF ExtractionRow
  <2>2. extraction' = [extraction EXCEPT ![d] = new]
    BY <1>7
  <2> HIDE DEF new
  <2>3. \A e \in Documents : extraction'[e] = IF e = d THEN new ELSE extraction[e]
    BY <2>2 DEF TypeOK
  <2> QED BY <1>11, <2>1, <2>3 DEF ReviewInv, ExtractionsAreOwn
<1>21. ReviewedUnlessBlank'
  BY <1>5, <1>17 DEF ReviewInv, ReviewedUnlessBlank, DecidedGrow
<1> QED BY <1>18, <1>19, <1>20, <1>21 DEF ReviewInv

LEMMA RejectKeepsReview ==
    ASSUME TypeOK, ReviewInv, NEW r \in Requests, Reject(r)
    PROVE  /\ ReviewInv'
           /\ DecidedCandidates' = DecidedCandidates /\ ApprovedBlank' = ApprovedBlank
<1> DEFINE l == request[r].loaded
           d == request[r].doc
           a == [l.task EXCEPT !.status = "REJECTED"]
           y == [l.document EXCEPT !.status = "REVIEW_REJECTED"]
           row == Flush(task[d], l.task, a)
<1>1. request[r].op = "reject" /\ request[r].op \in TaskOperations
      /\ request' = [request EXCEPT ![r] = Idle]
  BY DEF Reject, Ends, TaskOperations
<1>2. /\ d \in Documents /\ l.task \in TaskRow /\ task[d] \in TaskRow
      /\ l.document \in DocumentRow
      /\ Accounted(task[d], d, DecidedCandidates, ApprovedBlank)
      /\ task[d].status # "ABSENT"
      /\ MayReject(l.task)
  BY <1>1, SessionFacts DEF May
<1>3. a \in TaskRow /\ a.candidate = l.task.candidate /\ a.status = "REJECTED"
  BY <1>2 DEF TaskRow
<1>4. y \in DocumentRow /\ y.status = "REVIEW_REJECTED"
  BY <1>2 DEF DocumentRow
<1>5. /\ FlushTask(r, a) /\ FlushDocument(r, y) /\ UNCHANGED <<extraction, ledger>>
      /\ Decided(r, "REJECT", Reviewed(l.task, l.extraction))
  BY DEF Reject
<1>6. DecidedCandidates' = DecidedCandidates /\ ApprovedBlank' = ApprovedBlank
  BY <1>2, <1>5, DecidedAdds
<1>7. /\ task' = [task EXCEPT ![d] = row]
      /\ row.status = IF a.status = l.task.status THEN task[d].status ELSE a.status
      /\ row.candidate = IF a.candidate = l.task.candidate THEN task[d].candidate ELSE a.candidate
  BY <1>1, <1>3, <1>5, WriteTask
<1>8. \A e \in Documents : document'[e].status \in {document[e].status, y.status}
  BY <1>1, <1>4, <1>5, FlushDocumentStatus
<1> HIDE DEF a, l, d, y, row
<1>9. row.candidate = task[d].candidate /\ row.status = "REJECTED"
  BY <1>2, <1>3, <1>7 DEF MayReject
<1>10. Accounted(row, d, DecidedCandidates', ApprovedBlank')
  BY <1>9 DEF Accounted, Promotable
<1>11. TasksAreAccounted' /\ SessionsKnow'
  BY <1>1, <1>2, <1>6, <1>7, <1>9, <1>10, CommitKeepsReview DEF DecidedGrow
<1>12. WaitingHasTask'
  <2>1. \A e \in Documents : task'[e] = IF e = d THEN row ELSE task[e]
    BY <1>7 DEF TypeOK
  <2> QED BY <1>4, <1>8, <1>9, <2>1, WaitingKept
<1>13. ExtractionsAreOwn' /\ ReviewedUnlessBlank'
  BY <1>5, <1>6 DEF ReviewInv, ExtractionsAreOwn, ReviewedUnlessBlank
<1> QED BY <1>6, <1>11, <1>12, <1>13 DEF ReviewInv

\* promote writes the candidate it loaded, which has been decided on, or else is
\* the extraction's of a document that was approved blank.
LEMMA PromoteKeepsReview ==
    ASSUME TypeOK, ReviewInv, NEW r \in Requests, Promote(r)
    PROVE  LET c == Reviewed(request[r].loaded.task, request[r].loaded.extraction)
           IN  /\ ReviewInv'
               /\ DecidedCandidates' = DecidedCandidates /\ ApprovedBlank' = ApprovedBlank
               /\ c.grade = "sound" /\ c.number \in Numbers
               /\ c \in DecidedCandidates \/ c.doc \in ApprovedBlank
               /\ ledger' = IF ledger[c.number] = NoCandidate
                            THEN [ledger EXCEPT ![c.number] = c] ELSE ledger
<1> DEFINE l == request[r].loaded
           d == request[r].doc
           c == Reviewed(l.task, l.extraction)
           a == [l.task EXCEPT !.promoted = c.number]
           y == [l.document EXCEPT !.status = "READY_FOR_RECONCILIATION"]
           row == Flush(task[d], l.task, a)
<1>1. /\ request[r].op = "promote" /\ request[r].op \in TaskOperations
      /\ request' = [request EXCEPT ![r] = Idle]
  BY DEF Promote, Ends, TaskOperations
<1>2. /\ d \in Documents /\ l.task \in TaskRow /\ task[d] \in TaskRow
      /\ l.document \in DocumentRow /\ c \in AnyCandidate
      /\ Own(l.extraction.candidate, d)
      /\ Accounted(l.task, d, DecidedCandidates, ApprovedBlank)
      /\ Accounted(task[d], d, DecidedCandidates, ApprovedBlank)
      /\ task[d].status # "ABSENT"
      /\ MayPromote(l.document, l.task, l.extraction)
  BY <1>1, SessionFacts DEF May
<1>3. c.grade = "sound" /\ l.task.status \in Promotable
  BY <1>2 DEF MayPromote
<1>4. c # NoCandidate /\ c.number \in Numbers
  BY <1>2, <1>3 DEF AnyCandidate, Candidates, NoCandidate
<1>5. c \in DecidedCandidates \/ c.doc \in ApprovedBlank
  BY <1>2, <1>3, <1>4 DEF Accounted, Reviewed, Own
<1>6. a \in TaskRow /\ a.candidate = l.task.candidate /\ a.status = l.task.status
  <2> HIDE DEF c, l
  <2> QED BY <1>2, <1>4 DEF TaskRow
<1>7. y \in DocumentRow /\ y.status = "READY_FOR_RECONCILIATION"
  BY <1>2 DEF DocumentRow
<1>8. /\ FlushTask(r, a) /\ FlushDocument(r, y) /\ UNCHANGED <<extraction, decisions>>
      /\ ledger' = IF ledger[c.number] = NoCandidate
                   THEN [ledger EXCEPT ![c.number] = c] ELSE ledger
  BY DEF Promote
<1>9. DecidedCandidates' = DecidedCandidates /\ ApprovedBlank' = ApprovedBlank
  BY <1>8, DecidedSame
<1>10. /\ task' = [task EXCEPT ![d] = row]
       /\ row.status = IF a.status = l.task.status THEN task[d].status ELSE a.status
       /\ row.candidate = IF a.candidate = l.task.candidate THEN task[d].candidate ELSE a.candidate
  BY <1>1, <1>6, <1>8, WriteTask
<1>11. \A e \in Documents : document'[e].status \in {document[e].status, y.status}
  BY <1>1, <1>7, <1>8, FlushDocumentStatus
<1> HIDE DEF a, c, l, d, y, row
<1>12. row.candidate = task[d].candidate /\ row.status = task[d].status
  BY <1>6, <1>10
<1>13. Accounted(row, d, DecidedCandidates', ApprovedBlank')
  BY <1>2, <1>9, <1>12 DEF Accounted
<1>14. TasksAreAccounted' /\ SessionsKnow'
  BY <1>1, <1>2, <1>9, <1>10, <1>12, <1>13, CommitKeepsReview DEF DecidedGrow
<1>15. WaitingHasTask'
  <2>1. \A e \in Documents : task'[e] = IF e = d THEN row ELSE task[e]
    BY <1>10 DEF TypeOK
  <2> QED BY <1>2, <1>7, <1>11, <1>12, <2>1, WaitingKept
<1>16. ExtractionsAreOwn' /\ ReviewedUnlessBlank'
  BY <1>4, <1>5, <1>8, <1>9
  DEF ReviewInv, ExtractionsAreOwn, ReviewedUnlessBlank, TypeOK
<1> QED BY <1>3, <1>4, <1>5, <1>8, <1>9, <1>14, <1>15, <1>16 DEF ReviewInv, c, l

\* A task that is inserted where there was none is accounted for: PENDING.
LEMMA InsertKeepsReview ==
    ASSUME TypeOK, ReviewInv, NEW d \in Documents, NEW x, task[d] = NoTask,
           task' = [task EXCEPT ![d] = NewTask(x)], UNCHANGED <<decisions, request>>
    PROVE  TasksAreAccounted' /\ SessionsKnow'
<1>1. NewTask(x).status = "PENDING" /\ NoTask.status = "ABSENT"
  BY DEF NewTask, NoTask
<1>2. \A e \in Documents : task'[e] = IF e = d THEN NewTask(x) ELSE task[e]
  BY DEF TypeOK
<1>3. DecidedCandidates' = DecidedCandidates /\ ApprovedBlank' = ApprovedBlank
  BY DecidedSame
<1>4. TasksAreAccounted'
  BY <1>1, <1>2, <1>3 DEF ReviewInv, TasksAreAccounted, Accounted, Promotable
<1>5. SessionsKnow'
  <2> SUFFICES ASSUME NEW q \in Requests, request[q].op # "none"
               PROVE  SessionKnows(request[q])'
    BY DEF SessionsKnow
  <2>1. SessionKnows(request[q]) /\ request[q].doc \in Documents
    BY SessionTyped DEF ReviewInv, SessionsKnow
  <2>2. request[q].op \in TaskOperations => task'[request[q].doc] = task[request[q].doc]
    BY <1>1, <1>2, <2>1 DEF SessionKnows
  <2> QED BY <1>3, <2>1, <2>2
      DEF SessionKnows, May, MayApprove, MayCorrect, MayReject, MayPromote, MayInvoke
<1> QED BY <1>4, <1>5

\* The sessions that are left know what they knew.
LEMMA SessionEndsQuietly ==
    ASSUME TypeOK, ReviewInv, NEW r \in Requests,
           request' = [request EXCEPT ![r] = Idle], UNCHANGED <<task, decisions>>
    PROVE  TasksAreAccounted' /\ SessionsKnow'
<1>1. DecidedCandidates' = DecidedCandidates /\ ApprovedBlank' = ApprovedBlank
  BY DecidedSame
<1>2. TasksAreAccounted'
  BY <1>1 DEF ReviewInv, TasksAreAccounted
<1>3. SessionsKnow'
  <2> SUFFICES ASSUME NEW q \in Requests, request'[q].op # "none"
               PROVE  SessionKnows(request[q])' /\ request'[q] = request[q]
    BY DEF SessionsKnow
  <2>1. request'[q] = request[q]
    BY DEF TypeOK, Idle
  <2>2. SessionKnows(request[q])
    BY <2>1 DEF ReviewInv, SessionsKnow
  <2> QED BY <1>1, <2>1, <2>2
      DEF SessionKnows, May, MayApprove, MayCorrect, MayReject, MayPromote, MayInvoke
<1> QED BY <1>2, <1>3

LEMMA LlmUnderstandKeepsReview ==
    ASSUME TypeOK, ReviewInv, NEW r \in Requests, LlmUnderstand(r)
    PROVE  /\ ReviewInv'
           /\ DecidedCandidates' = DecidedCandidates /\ ApprovedBlank' = ApprovedBlank
<1> DEFINE l == request[r].loaded
           d == request[r].doc
           new == NewTask(l.extraction)
           y == [l.document EXCEPT !.status = "REVIEW_REQUIRED"]
<1>1. /\ request[r].op = "llm" /\ request' = [request EXCEPT ![r] = Idle]
      /\ task' = IF task[d] = NoTask THEN [task EXCEPT ![d] = new] ELSE task
      /\ document' = [document EXCEPT ![d] = Flush(document[d], l.document, y)]
      /\ UNCHANGED <<extraction, ledger, decisions>>
  BY DEF LlmUnderstand, Ends, FlushDocument
<1>2. d \in Documents
  BY <1>1, SessionTyped
<1>3. DecidedCandidates' = DecidedCandidates /\ ApprovedBlank' = ApprovedBlank
  BY <1>1, DecidedSame
<1>4. new.status = "PENDING" /\ NoTask.status = "ABSENT"
  BY DEF NewTask, NoTask
<1>5. TasksAreAccounted' /\ SessionsKnow'
  <2>1. CASE task[d] # NoTask
    BY <1>1, <2>1, SessionEndsQuietly
  <2>2. CASE task[d] = NoTask
    <3>1. /\ task' = [task EXCEPT ![d] = new] /\ new.status # "ABSENT"
          /\ Accounted(new, d, DecidedCandidates', ApprovedBlank')
      BY <1>1, <1>4, <2>2 DEF Accounted, Promotable
    <3> HIDE DEF new, d
    <3>2. \A e \in Documents : task'[e] = IF e = d THEN new ELSE task[e]
      BY <3>1 DEF TypeOK
    <3>3. TasksAreAccounted'
      BY <1>3, <3>1, <3>2 DEF ReviewInv, TasksAreAccounted
    <3>4. SessionsKnow'
      <4> SUFFICES ASSUME NEW q \in Requests, request'[q].op # "none"
                   PROVE  SessionKnows(request[q])' /\ request'[q] = request[q]
        BY DEF SessionsKnow
      <4>1. request'[q] = request[q]
        BY <1>1 DEF TypeOK, Idle
      <4>2. SessionKnows(request[q]) /\ request[q].doc \in Documents
        BY <4>1, SessionTyped DEF ReviewInv, SessionsKnow
      <4>3. request[q].op \in TaskOperations => task'[request[q].doc] = task[request[q].doc]
        BY <1>4, <2>2, <3>2, <4>2 DEF SessionKnows
      <4> QED BY <1>3, <4>1, <4>2, <4>3
          DEF SessionKnows, May, MayApprove, MayCorrect, MayReject, MayPromote, MayInvoke
    <3> QED BY <3>3, <3>4
  <2> QED BY <2>1, <2>2
<1>6. WaitingHasTask'
  <2>1. task[d] = NoTask \/ task[d].status # "ABSENT"
    BY <1>2 DEF ReviewInv, TasksAreAccounted, Accounted
  <2> HIDE DEF new, y, l, d
  <2>2. \A e \in Documents : task'[e] = IF e = d /\ task[d] = NoTask THEN new ELSE task[e]
    BY <1>1 DEF TypeOK
  <2>3. \A e \in Documents : e # d => document'[e] = document[e]
    BY <1>1 DEF TypeOK
  <2> QED BY <1>4, <2>1, <2>2, <2>3, WaitingKept
<1>7. ExtractionsAreOwn' /\ ReviewedUnlessBlank'
  BY <1>1, <1>3 DEF ReviewInv, ExtractionsAreOwn, ReviewedUnlessBlank
<1> QED BY <1>3, <1>5, <1>6, <1>7 DEF ReviewInv

\* Understanding stores a candidate of the document, and a task with an outcome
\* that requires review.
LEMMA FinalizeKeepsReview ==
    ASSUME TypeOK, ReviewInv, NEW d \in Documents, NEW kind \in Extracts,
           NEW c \in AnyCandidate, Own(c, d), Finalize(d, kind, c)
    PROVE  ReviewInv'
<1> DEFINE x == Extracted(kind, c)
<1>1. Own(x.candidate, d) /\ x \in ExtractionRow
  BY ExtractedTyped DEF Extracted, Own
<1>2. /\ document' = [document EXCEPT ![d].status = x.outcome,
                                      ![d].typed = @ \/ c # NoCandidate]
      /\ extraction' = [extraction EXCEPT ![d] = x]
      /\ task' = IF x.outcome = "REVIEW_REQUIRED" /\ task[d] = NoTask
                 THEN [task EXCEPT ![d] = NewTask(x)] ELSE task
      /\ UNCHANGED <<ledger, decisions, request>>
  BY DEF Finalize
<1> HIDE DEF x
<1>3. DecidedCandidates' = DecidedCandidates /\ ApprovedBlank' = ApprovedBlank
  BY <1>2, DecidedSame
<1>4. ExtractionsAreOwn'
  <2>1. \A e \in Documents : extraction'[e] = IF e = d THEN x ELSE extraction[e]
    BY <1>2 DEF TypeOK
  <2> QED BY <1>1, <2>1 DEF ReviewInv, ExtractionsAreOwn
<1>5. TasksAreAccounted' /\ SessionsKnow'
  <2>1. CASE x.outcome = "REVIEW_REQUIRED" /\ task[d] = NoTask
    BY <1>2, <2>1, InsertKeepsReview
  <2>2. CASE UNCHANGED task
    BY <1>2, <1>3, <2>2
    DEF ReviewInv, TasksAreAccounted, SessionsKnow, SessionKnows,
        May, MayApprove, MayCorrect, MayReject, MayPromote, MayInvoke
  <2> QED BY <1>2, <2>1, <2>2
<1>6. WaitingHasTask'
  <2>1. NewTask(x).status = "PENDING"
    BY DEF NewTask
  <2>2. task[d] = NoTask \/ task[d].status # "ABSENT"
    BY DEF ReviewInv, TasksAreAccounted, Accounted
  <2>3. \A e \in Documents : task'[e] = IF e = d /\ x.outcome = "REVIEW_REQUIRED" /\ task[d] = NoTask
                                        THEN NewTask(x) ELSE task[e]
    BY <1>2 DEF TypeOK
  <2>4. \A e \in Documents :
            document'[e].status = IF e = d THEN x.outcome ELSE document[e].status
    BY <1>2 DEF TypeOK, DocumentRow
  <2> QED BY <2>1, <2>2, <2>3, <2>4, WaitingKept
<1>7. ReviewedUnlessBlank'
  BY <1>2, <1>3 DEF ReviewInv, ReviewedUnlessBlank
<1> QED BY <1>4, <1>5, <1>6, <1>7 DEF ReviewInv

\* A session begins with what its guard saw.
LEMMA BeginKeepsReview ==
    ASSUME TypeOK, ReviewInv, NEW r \in Requests, NEW op \in Operations,
           NEW d \in Documents, NEW c \in Inputs(op, d), Begin(r, op, d, c)
    PROVE  ReviewInv'
<1> DEFINE l == [document |-> document[d], task |-> task[d], extraction |-> extraction[d]]
           new == [op |-> op, doc |-> d, candidate |-> c, loaded |-> l]
<1>1. /\ request' = [request EXCEPT ![r] = new] /\ May(op, l, c)
      /\ UNCHANGED <<document, extraction, task, ledger, decisions>>
  BY DEF Begin, rows
<1>2. DecidedCandidates' = DecidedCandidates /\ ApprovedBlank' = ApprovedBlank
  BY <1>1, DecidedSame
<1>3. op \in TaskOperations => task[d].status # "ABSENT"
  BY <1>1
  DEF May, MayApprove, MayCorrect, MayReject, MayPromote, TaskOperations, Promotable
<1>4. op = "correct" => c # NoCandidate
  <2>1. versions + 1 # 0
    BY DEF TypeOK
  <2>2. op = "correct" => c.id = versions + 1
    BY DEF Inputs
  <2>3. NoCandidate.id = 0
    BY DEF NoCandidate
  <2> QED BY <2>1, <2>2, <2>3
<1>5. /\ new.op = op /\ new.doc = d /\ new.candidate = c /\ new.loaded = l
      /\ l.task = task[d] /\ l.extraction = extraction[d]
  OBVIOUS
<1>6. /\ Own(l.extraction.candidate, d)
      /\ Accounted(l.task, d, DecidedCandidates, ApprovedBlank)
  BY DEF ReviewInv, ExtractionsAreOwn, TasksAreAccounted
<1>7. SessionsKnow'
  <2> SUFFICES ASSUME NEW q \in Requests, request'[q].op # "none"
               PROVE  SessionKnows(request'[q])
    BY <1>1, <1>2
    DEF SessionsKnow, SessionKnows, May, MayApprove, MayCorrect, MayReject, MayPromote, MayInvoke
  <2>1. CASE q = r
    <3>1. request'[q] = new
      BY <1>1, <2>1 DEF TypeOK
    <3> HIDE DEF new, l
    <3>2. SessionKnows(new)
      BY <1>1, <1>3, <1>4, <1>5, <1>6 DEF SessionKnows
    <3> QED BY <3>1, <3>2
  <2>2. CASE q # r
    <3>1. request'[q] = request[q]
      BY <1>1, <2>2 DEF TypeOK
    <3> QED BY <3>1 DEF ReviewInv, SessionsKnow
  <2> QED BY <2>1, <2>2
<1>8. ExtractionsAreOwn' /\ TasksAreAccounted' /\ WaitingHasTask' /\ ReviewedUnlessBlank'
  BY <1>1, <1>2
  DEF ReviewInv, ExtractionsAreOwn, TasksAreAccounted, WaitingHasTask, ReviewedUnlessBlank
<1> QED BY <1>7, <1>8 DEF ReviewInv

\* The steps that decide on nothing: the worker's, the owner's, and a session
\* that begins or is rolled back.
QuietStep ==
    \/ \E d \in Documents : Worker(d) \/ UpdateAssociations(d) \/ CreateReviewTask(d)
    \/ \E r \in Requests : Reads(r) \/ RolledBack(r)
    \/ UNCHANGED vars

LEMMA QuietStepDecidesNothing == QuietStep => UNCHANGED <<ledger, decisions>>
<1>1. ASSUME NEW d \in Documents, Understand(d) PROVE UNCHANGED <<ledger, decisions>>
  BY <1>1 DEF Understand, Finalize
<1>2. ASSUME NEW d \in Documents,
             UnderstandAborted(d) \/ UpdateAssociations(d) \/ CreateReviewTask(d)
      PROVE  UNCHANGED <<ledger, decisions>>
  BY <1>2 DEF UnderstandAborted, UpdateAssociations, CreateReviewTask
<1>3. ASSUME NEW r \in Requests, Reads(r) \/ RolledBack(r)
      PROVE  UNCHANGED <<ledger, decisions>>
  BY <1>3 DEF Reads, Begin, RolledBack, rows
<1> QED BY <1>1, <1>2, <1>3 DEF QuietStep, Worker, vars

LEMMA QuietStepKeepsReview ==
    ASSUME TypeOK, ReviewInv, QuietStep
    PROVE  ReviewInv'
<1>1. UNCHANGED <<ledger, decisions>>
  BY QuietStepDecidesNothing
<1>2. DecidedCandidates' = DecidedCandidates /\ ApprovedBlank' = ApprovedBlank
  BY <1>1, DecidedSame
<1>3. ASSUME UNCHANGED <<extraction, task, request>>,
             \A e \in Documents : document'[e].status = "REVIEW_REQUIRED" =>
                                    document[e].status = "REVIEW_REQUIRED"
      PROVE  ReviewInv'
  BY <1>1, <1>2, <1>3
  DEF ReviewInv, ExtractionsAreOwn, TasksAreAccounted, WaitingHasTask, SessionsKnow,
      SessionKnows, ReviewedUnlessBlank, May, MayApprove, MayCorrect, MayReject,
      MayPromote, MayInvoke
<1>4. ASSUME NEW d \in Documents, Understand(d) PROVE ReviewInv'
  <2>1. CASE \E kind \in Extracts : Finalize(d, kind, NoCandidate)
    <3>1. NoCandidate \in AnyCandidate /\ Own(NoCandidate, d)
      BY AbsentRowsTyped DEF Own
    <3> QED BY <2>1, <3>1, FinalizeKeepsReview
  <2>2. CASE \E kind \in Extracts, n \in Numbers : \E g \in Grades(kind) :
                Finalize(d, kind, [id |-> versions + 1, doc |-> d, number |-> n, grade |-> g])
    <3>0. PICK kind \in Extracts, n \in Numbers : \E g \in Grades(kind) :
                Finalize(d, kind, [id |-> versions + 1, doc |-> d, number |-> n, grade |-> g])
      BY <2>2
    <3>1. PICK g \in Grades(kind) :
                Finalize(d, kind, [id |-> versions + 1, doc |-> d, number |-> n, grade |-> g])
      BY <3>0
    <3> DEFINE c == [id |-> versions + 1, doc |-> d, number |-> n, grade |-> g]
    <3>2. g \in {"sound", "failing"} /\ versions + 1 \in Nat
      BY DEF Grades, TypeOK
    <3>3. c \in AnyCandidate /\ Own(c, d)
      BY <3>2 DEF AnyCandidate, Candidates, Own
    <3>4. Finalize(d, kind, c)
      BY <3>1
    <3> HIDE DEF c
    <3> QED BY <3>3, <3>4, FinalizeKeepsReview
  <2> QED BY <1>4, <2>1, <2>2 DEF Understand
<1>5. ASSUME NEW d \in Documents, UnderstandAborted(d) \/ UpdateAssociations(d)
      PROVE  ReviewInv'
  <2>1. UNCHANGED <<extraction, task, request>>
    BY <1>5 DEF UnderstandAborted, UpdateAssociations
  <2>2. \A e \in Documents : document'[e].status \in {document[e].status, "EXTRACTING"}
    BY <1>5 DEF UnderstandAborted, UpdateAssociations, TypeOK, DocumentRow
  <2> QED BY <1>3, <2>1, <2>2
<1>6. ASSUME NEW d \in Documents, CreateReviewTask(d) PROVE ReviewInv'
  <2>1. /\ task[d] = NoTask /\ task' = [task EXCEPT ![d] = NewTask(extraction[d])]
        /\ UNCHANGED <<document, extraction, request>>
    BY <1>6 DEF CreateReviewTask
  <2>2. TasksAreAccounted' /\ SessionsKnow'
    BY <1>1, <2>1, InsertKeepsReview
  <2>3. \A e \in Documents : task'[e] = IF e = d THEN NewTask(extraction[d]) ELSE task[e]
    BY <2>1 DEF TypeOK
  <2>4. NewTask(extraction[d]).status = "PENDING"
    BY DEF NewTask
  <2>5. WaitingHasTask'
    BY <2>1, <2>3, <2>4, WaitingKept
  <2> QED BY <1>1, <1>2, <2>1, <2>2, <2>5
      DEF ReviewInv, ExtractionsAreOwn, ReviewedUnlessBlank
<1>7. ASSUME NEW r \in Requests, Reads(r) PROVE ReviewInv'
  BY <1>7, BeginKeepsReview DEF Reads
<1>8. ASSUME NEW r \in Requests, RolledBack(r) PROVE ReviewInv'
  <2>1. request' = [request EXCEPT ![r] = Idle] /\ UNCHANGED <<document, extraction, task>>
    BY <1>8 DEF RolledBack, rows
  <2>2. TasksAreAccounted' /\ SessionsKnow'
    BY <1>1, <2>1, SessionEndsQuietly
  <2> QED BY <1>1, <1>2, <2>1, <2>2
      DEF ReviewInv, ExtractionsAreOwn, WaitingHasTask, ReviewedUnlessBlank
<1>9. CASE UNCHANGED vars
  BY <1>3, <1>9 DEF vars
<1> QED BY <1>4, <1>5, <1>6, <1>7, <1>8, <1>9 DEF QuietStep, Worker

\* A step is quiet or a session's commit.
LEMMA StepCases ==
    [Next]_vars =>
        \/ QuietStep
        \/ \E r \in Requests :
                Approve(r) \/ Correct(r) \/ Reject(r) \/ Promote(r) \/ LlmUnderstand(r)
  BY DEF Next, QuietStep, Session

LEMMA InitReviewed == Init => ReviewInv
  BY DEF Init, ReviewInv, ExtractionsAreOwn, Own, NoExtraction, TasksAreAccounted, Accounted,
         NoTask, Promotable, WaitingHasTask, SessionsKnow, Idle, ReviewedUnlessBlank

LEMMA StepReviewed == TypeOK /\ ReviewInv /\ [Next]_vars => ReviewInv'
  BY StepCases, QuietStepKeepsReview, ApproveKeepsReview, CorrectKeepsReview,
     RejectKeepsReview, PromoteKeepsReview, LlmUnderstandKeepsReview

THEOREM ReviewInvariant == Spec => []ReviewInv
<1>1. TypeOK /\ ReviewInv /\ [Next]_vars => ReviewInv'
  BY StepReviewed
<1> QED BY <1>1, InitReviewed, TypeCorrect, PTL DEF Spec

\* "only then promotes approved/corrected data into authoritative tables": no
\* interleaving of sessions and worker records a candidate that nobody approved
\* or corrected, unless its document was approved when there was none to see.
THEOREM RecordsAreReviewed == Spec => []ReviewedUnlessBlank
<1>1. ReviewInv => ReviewedUnlessBlank
  BY DEF ReviewInv
<1> QED BY <1>1, ReviewInvariant, PTL

\* Whatever is stored as REVIEW_REQUIRED, by whichever job, has a task.
THEOREM WaitingDocumentsHaveTasks == Spec => []ReviewRequiredHasTask
<1>1. ReviewInv => ReviewRequiredHasTask
  BY DEF ReviewInv, WaitingHasTask, ReviewRequiredHasTask, NoTask
<1> QED BY <1>1, ReviewInvariant, PTL

\* Approvals and corrections decide, a first promotion records, the rest
\* changes neither what was decided nor the book.
LEMMA StepSimulates == TypeOK /\ ReviewInv /\ [Next]_vars => [TB!TBNext]_(TB!tbVars)
<1> SUFFICES ASSUME TypeOK, ReviewInv, [Next]_vars
             PROVE  TB!TBNext \/ UNCHANGED TB!tbVars
  OBVIOUS
<1>1. ASSUME DecidedCandidates' = DecidedCandidates, ApprovedBlank' = ApprovedBlank,
             UNCHANGED ledger
      PROVE  UNCHANGED TB!tbVars
  BY <1>1 DEF TB!tbVars
<1>2. ASSUME NEW r \in Requests, NEW action \in {"APPROVE", "CORRECT"}, NEW c,
             request[r].doc \in Documents, Decided(r, action, c), UNCHANGED ledger
      PROVE  TB!TBNext \/ UNCHANGED TB!tbVars
  <2>1. /\ DecidedCandidates' = IF c = NoCandidate THEN DecidedCandidates
                                ELSE DecidedCandidates \union {c}
        /\ ApprovedBlank' = IF action = "APPROVE" /\ c = NoCandidate
                            THEN ApprovedBlank \union {request[r].doc} ELSE ApprovedBlank
    BY <1>2, DecidedAdds
  <2>2. CASE c # NoCandidate
    BY <1>2, <2>1, <2>2 DEF TB!TBNext, TB!Decide
  <2>3. CASE c = NoCandidate
    BY <1>2, <2>1, <2>3 DEF TB!TBNext, TB!DecideBlank, TB!tbVars
  <2> QED BY <2>2, <2>3
<1>3. ASSUME NEW r \in Requests, Promote(r) PROVE TB!TBNext \/ UNCHANGED TB!tbVars
  <2> DEFINE c == Reviewed(request[r].loaded.task, request[r].loaded.extraction)
  <2>1. /\ DecidedCandidates' = DecidedCandidates /\ ApprovedBlank' = ApprovedBlank
        /\ c.grade = "sound" /\ c.number \in Numbers
        /\ c \in DecidedCandidates \/ c.doc \in ApprovedBlank
        /\ ledger' = IF ledger[c.number] = NoCandidate
                     THEN [ledger EXCEPT ![c.number] = c] ELSE ledger
    BY <1>3, PromoteKeepsReview
  <2> HIDE DEF c
  <2>2. CASE ledger[c.number] = NoCandidate
    <3>1. ledger'[c.number] = c
      BY <2>1, <2>2 DEF TypeOK
    <3>2. TB!Record(c.number)
      BY <2>1, <2>2, <3>1 DEF TB!Record
    <3> QED BY <2>1, <3>2 DEF TB!TBNext
  <2>3. CASE ledger[c.number] # NoCandidate
    BY <1>1, <2>1, <2>3
  <2> QED BY <2>2, <2>3
<1>4. ASSUME NEW r \in Requests, Approve(r) \/ Correct(r)
      PROVE  TB!TBNext \/ UNCHANGED TB!tbVars
  <2>1. request[r].doc \in Documents
    BY <1>4, SessionTyped DEF Approve, Correct, Ends
  <2> QED BY <1>2, <1>4, <2>1 DEF Approve, Correct
<1>5. ASSUME NEW r \in Requests, Reject(r) \/ LlmUnderstand(r) PROVE UNCHANGED TB!tbVars
  BY <1>1, <1>5, RejectKeepsReview, LlmUnderstandKeepsReview DEF Reject, LlmUnderstand
<1>6. CASE QuietStep
  BY <1>1, <1>6, QuietStepDecidesNothing, DecidedSame
<1> QED BY <1>3, <1>4, <1>5, <1>6, StepCases

\* Review and promotion implement TrustBoundary: a number is recorded once,
\* from a sound candidate that was decided on before or of a document approved
\* blank, and no step, of the worker or of a session, changes a record.
THEOREM ImplementsTrustBoundary == Spec => KeepsTrustBoundary
<1>1. Init => TB!TBInit
  BY DEF Init, TB!TBInit, DecidedCandidates, ApprovedBlank
<1>2. TypeOK /\ ReviewInv /\ [Next]_vars => [TB!TBNext]_(TB!tbVars)
  BY StepSimulates
<1> QED BY <1>1, <1>2, ReviewInvariant, TypeCorrect, PTL DEF Spec, KeepsTrustBoundary, TB!TBSpec

-----------------------------------------------------------------------------
(* What a decision and a promotion withstand.                              *)

\* A session's commit, where the session was shown the task as decided, leaves
\* the decision; where it was shown it recorded, the record.
LEMMA CommitKeepsDecision ==
    ASSUME TypeOK, ReviewInv, NEW r \in Requests,
           Approve(r) \/ Correct(r) \/ Reject(r) \/ Promote(r)
    PROVE  LET d == request[r].doc
               seen == request[r].loaded.task
           IN  /\ d \in Documents /\ Assigns(r, d)
               /\ \A e \in Documents : e # d => task'[e] = task[e]
               /\ ~ Undecided(seen) =>
                    task'[d].status = task[d].status /\ task'[d].candidate = task[d].candidate
               /\ Recorded(seen) =>
                    task'[d].promoted = task[d].promoted /\ task'[d].candidate = task[d].candidate
<1> DEFINE l == request[r].loaded
           d == request[r].doc
           row(a) == Flush(task[d], l.task, a)
<1>1. request[r].op \in TaskOperations
  BY DEF Approve, Correct, Reject, Promote, Ends, TaskOperations
<1>2. /\ d \in Documents /\ l.task \in TaskRow /\ task[d] \in TaskRow
      /\ May(request[r].op, l, request[r].candidate)
      /\ Accounted(l.task, d, DecidedCandidates, ApprovedBlank)
      /\ Reviewed(l.task, l.extraction) \in AnyCandidate
      /\ request[r].candidate \in AnyCandidate
  BY <1>1, SessionFacts
<1>3. Assigns(r, d)
  BY <1>1 DEF Assigns, TaskOperations
<1>4. ASSUME NEW a \in TaskRow, FlushTask(r, a),
             ~ Undecided(l.task) => a.status = l.task.status /\ a.candidate = l.task.candidate,
             Recorded(l.task) => a.promoted = l.task.promoted /\ a.candidate = l.task.candidate
      PROVE  /\ \A e \in Documents : e # d => task'[e] = task[e]
             /\ ~ Undecided(l.task) =>
                  task'[d].status = task[d].status /\ task'[d].candidate = task[d].candidate
             /\ Recorded(l.task) =>
                  task'[d].promoted = task[d].promoted /\ task'[d].candidate = task[d].candidate
  <2>1. /\ task' = [task EXCEPT ![d] = row(a)]
        /\ row(a).status = IF a.status = l.task.status THEN task[d].status ELSE a.status
        /\ row(a).candidate = IF a.candidate = l.task.candidate
                              THEN task[d].candidate ELSE a.candidate
        /\ row(a).promoted = IF a.promoted = l.task.promoted
                             THEN task[d].promoted ELSE a.promoted
    BY <1>1, <1>4, WriteTask
  <2> HIDE DEF row
  <2>2. \A e \in Documents : task'[e] = IF e = d THEN row(a) ELSE task[e]
    BY <2>1 DEF TypeOK
  <2> HIDE DEF l, d
  <2> QED BY <1>2, <1>4, <2>1, <2>2
<1>5. CASE Approve(r)
  <2> DEFINE c == Reviewed(l.task, l.extraction)
             a == [l.task EXCEPT !.status = "APPROVED", !.candidate = c]
  <2>1. FlushTask(r, a) /\ MayApprove(l.task, l.extraction)
    BY <1>2, <1>5 DEF Approve, Ends, May
  <2>2. Undecided(l.task)
    BY <2>1 DEF MayApprove, Undecided
  <2>3. Recorded(l.task) => c = l.task.candidate
    BY <1>2, <2>1 DEF MayApprove, Recorded, Promotable, Accounted, Reviewed
  <2> HIDE DEF c
  <2>4. a \in TaskRow /\ a.candidate = c /\ a.promoted = l.task.promoted
    BY <1>2 DEF TaskRow, c
  <2> HIDE DEF a
  <2> QED BY <1>2, <1>3, <1>4, <2>1, <2>2, <2>3, <2>4
<1>6. CASE Correct(r)
  <2> DEFINE c == request[r].candidate
             status == IF StillInvalid(Synced(l.extraction, c)) THEN "IN_REVIEW" ELSE "CORRECTED"
             a == [l.task EXCEPT !.status = status, !.candidate = c]
  <2>1. FlushTask(r, a) /\ MayCorrect(l.task, l.extraction, c)
    BY <1>2, <1>6 DEF Correct, Ends, May
  <2>2. Undecided(l.task) /\ ~ Recorded(l.task)
    BY <2>1 DEF MayCorrect, Undecided, Recorded, Promotable
  <2>3. status \in {"IN_REVIEW", "CORRECTED"}
    OBVIOUS
  <2> HIDE DEF status
  <2>4. a \in TaskRow
    BY <1>2, <2>3 DEF TaskRow
  <2> HIDE DEF a
  <2> QED BY <1>2, <1>3, <1>4, <2>1, <2>2, <2>4
<1>7. CASE Reject(r)
  <2> DEFINE a == [l.task EXCEPT !.status = "REJECTED"]
  <2>1. FlushTask(r, a) /\ MayReject(l.task)
    BY <1>2, <1>7 DEF Reject, Ends, May
  <2>2. Undecided(l.task) /\ ~ Recorded(l.task)
    BY <2>1 DEF MayReject, Undecided, Recorded, Promotable
  <2>3. a \in TaskRow
    BY <1>2 DEF TaskRow
  <2> HIDE DEF a
  <2> QED BY <1>2, <1>3, <1>4, <2>1, <2>2, <2>3
<1>8. CASE Promote(r)
  <2> DEFINE c == Reviewed(l.task, l.extraction)
             a == [l.task EXCEPT !.promoted = c.number]
  <2>1. FlushTask(r, a) /\ MayPromote(l.document, l.task, l.extraction)
    BY <1>2, <1>8 DEF Promote, Ends, May
  <2>2. ~ Recorded(l.task) /\ c.grade = "sound"
    BY <2>1 DEF MayPromote, Recorded
  <2>3. c.number \in Numbers
    BY <1>2, <2>2 DEF AnyCandidate, Candidates, NoCandidate
  <2> HIDE DEF c
  <2>4. a \in TaskRow /\ a.status = l.task.status /\ a.candidate = l.task.candidate
    BY <1>2, <2>3 DEF TaskRow
  <2> HIDE DEF a
  <2> QED BY <1>2, <1>3, <1>4, <2>1, <2>2, <2>4
<1> QED BY <1>5, <1>6, <1>7, <1>8

\* No other step changes a task that exists.
LEMMA OtherStepsKeepTasks ==
    ASSUME TypeOK, QuietStep \/ \E r \in Requests : LlmUnderstand(r)
    PROVE  \A d \in Documents : task[d] # NoTask => task'[d] = task[d]
<1> USE DEF TypeOK
<1>1. ASSUME NEW d \in Documents, Understand(d)
      PROVE  \A e \in Documents : task[e] # NoTask => task'[e] = task[e]
  BY <1>1 DEF Understand, Finalize
<1>2. ASSUME NEW d \in Documents,
             UnderstandAborted(d) \/ UpdateAssociations(d) \/ CreateReviewTask(d)
      PROVE  \A e \in Documents : task[e] # NoTask => task'[e] = task[e]
  BY <1>2 DEF UnderstandAborted, UpdateAssociations, CreateReviewTask
<1>3. ASSUME NEW r \in Requests, Reads(r) \/ RolledBack(r) PROVE UNCHANGED task
  BY <1>3 DEF Reads, Begin, RolledBack, rows
<1>4. ASSUME NEW r \in Requests, LlmUnderstand(r)
      PROVE  \A e \in Documents : task[e] # NoTask => task'[e] = task[e]
  BY <1>4 DEF LlmUnderstand
<1>5. CASE UNCHANGED vars
  BY <1>5 DEF vars
<1> QED BY <1>1, <1>2, <1>3, <1>4, <1>5 DEF QuietStep, Worker

\* Only a request that was under way when the reviewer decided undoes the
\* decision, however the sessions interleave.
THEOREM DecisionsStand == Spec => DecisionStands
<1> DEFINE Stands ==
        \A d \in Documents :
            \/ Undecided(task[d])
            \/ task'[d].status = task[d].status /\ task'[d].candidate = task[d].candidate
            \/ \E r \in Requests : Assigns(r, d) /\ Undecided(request[r].loaded.task)
<1>1. ASSUME TypeOK, ReviewInv, [Next]_vars PROVE Stands
  <2>1. ASSUME NEW r \in Requests, Approve(r) \/ Correct(r) \/ Reject(r) \/ Promote(r)
        PROVE  Stands
    BY <1>1, <2>1, CommitKeepsDecision
  <2>2. CASE QuietStep \/ \E r \in Requests : LlmUnderstand(r)
    <3>1. Undecided(NoTask)
      BY DEF Undecided, NoTask
    <3> QED BY <1>1, <2>2, <3>1, OtherStepsKeepTasks
  <2> QED BY <1>1, <2>1, <2>2, StepCases
<1>2. TypeOK /\ ReviewInv /\ [Next]_vars => [Stands]_vars
  BY <1>1
<1> QED BY <1>2, ReviewInvariant, TypeCorrect, PTL DEF Spec, DecisionStands

\* Only a request that loaded the task before it was recorded, or after such a
\* request had opened it again, changes what a promoted task shows.
THEOREM PromotionsStand == Spec => PromotionStands
<1> DEFINE Stands ==
        \A d \in Documents :
            \/ ~ Recorded(task[d])
            \/ task'[d].promoted = task[d].promoted /\ task'[d].candidate = task[d].candidate
            \/ \E r \in Requests : Assigns(r, d) /\ ~ Recorded(request[r].loaded.task)
<1>1. ASSUME TypeOK, ReviewInv, [Next]_vars PROVE Stands
  <2>1. ASSUME NEW r \in Requests, Approve(r) \/ Correct(r) \/ Reject(r) \/ Promote(r)
        PROVE  Stands
    BY <1>1, <2>1, CommitKeepsDecision
  <2>2. CASE QuietStep \/ \E r \in Requests : LlmUnderstand(r)
    <3>1. ~ Recorded(NoTask)
      BY DEF Recorded, NoTask, Promotable
    <3> QED BY <1>1, <2>2, <3>1, OtherStepsKeepTasks
  <2> QED BY <1>1, <2>1, <2>2, StepCases
<1>2. TypeOK /\ ReviewInv /\ [Next]_vars => [Stands]_vars
  BY <1>1
<1> QED BY <1>2, ReviewInvariant, TypeCorrect, PTL DEF Spec, PromotionStands

-----------------------------------------------------------------------------
(* What understanding reads: FieldExtraction.                              *)

\* What is stored last was made of the file as it is, and of the type kept.
ReadingInv ==
    /\ paper \in Papers
    /\ declared \in DocTypes \union {"UNKNOWN"}
    /\ \/ reading \in {Nothing, Failed}
       \/ \E ocr \in BOOLEAN : reading = Understood(ExtractedFrom(paper, ocr), declared)

\* A type is kept, or one of the three is found.
LEMMA ClassifiedTyped ==
    ASSUME NEW x, NEW filename, NEW known \in DocTypes \union {"UNKNOWN"}
    PROVE  Classified(x, filename, known) \in DocTypes \union {"UNKNOWN"}
  BY DEF Classified

\* The inductive invariant of a reading.
LEMMA ReadingInvariant == ExtractionSpec => []ReadingInv
<1>1. ExtractionInit => ReadingInv
  BY DEF ExtractionInit, ReadingInv
<1>2. ReadingInv /\ [ExtractionNext]_extractionVars => ReadingInv'
  <2> SUFFICES ASSUME ReadingInv, [ExtractionNext]_extractionVars PROVE ReadingInv'
    OBVIOUS
  <2>1. CASE Read
    <3>1. PICK ocr \in BOOLEAN :
            /\ declared' = Classified(ExtractedFrom(paper, ocr), paper.filename, declared)
            /\ reading' = Understood(ExtractedFrom(paper, ocr), declared')
      BY <2>1 DEF Read
    <3>2. paper' = paper
      BY <2>1 DEF Read
    <3>3. declared' \in DocTypes \union {"UNKNOWN"}
      BY <3>1, ClassifiedTyped DEF ReadingInv
    <3> QED BY <3>1, <3>2, <3>3 DEF ReadingInv
  <2>2. CASE ReadFails
    BY <2>2 DEF ReadFails, ReadingInv, Failed
  <2>3. CASE UNCHANGED extractionVars
    BY <2>3 DEF extractionVars, ReadingInv, Failed
  <2> QED BY <2>1, <2>2, <2>3 DEF ExtractionNext
<1> QED BY <1>1, <1>2, PTL DEF ExtractionSpec

\* Every paper has the parts of a paper.
LEMMA PaperParts ==
    ASSUME NEW p \in Papers
    PROVE  /\ p.text \in Seq([label : Fields \union {"text"}, parts : Seq(Phrases)])
           /\ p.table \in Seq(Row) /\ p.stacked \in Seq(Row) /\ p.inline \in Seq(Row)
           /\ p.single \in Cells
  BY FieldExtractionAssumption DEF Paper

\* An extractor passes on what the paper has, or nothing.
LEMMA ExtractedParts ==
    ASSUME NEW p \in Papers, NEW ocr \in BOOLEAN, NEW x, x = ExtractedFrom(p, ocr)
    PROVE  /\ x.text \in {p.text, <<>>} /\ x.table \in {p.table, <<>>}
           /\ x.stacked \in {p.stacked, <<>>} /\ x.inline \in {p.inline, <<>>}
           /\ x.single \in {p.single, "none"}
           /\ x.ocr \in BOOLEAN
           /\ ~x.ocr => /\ x.text = <<>> /\ x.table = <<>> /\ x.stacked = <<>>
                        /\ x.inline = <<>> /\ x.single = "none"
<1>1. /\ PdfRead(p).ocr = TRUE /\ XlsxRead(p).ocr = TRUE
  BY DEF PdfRead, XlsxRead, TextOf, Empty
<1>2. CASE p.format = "pdf"
  <2>1. x = PdfRead(p)
    BY <1>2 DEF ExtractedFrom
  <2> QED BY <2>1, <1>1 DEF PdfRead, TextOf, Empty
<1>3. CASE p.format = "xlsx"
  <2>1. x = XlsxRead(p)
    BY <1>3 DEF ExtractedFrom
  <2> QED BY <2>1, <1>1 DEF XlsxRead, TextOf, Empty
<1>4. CASE p.format \notin {"pdf", "xlsx"}
  <2>1. x = ImageRead(p, ocr)
    BY <1>4 DEF ExtractedFrom
  <2> QED BY <2>1 DEF ImageRead, TextOf, Empty
<1> QED BY <1>2, <1>3, <1>4

\* A text as the extractors pass it on.
Text == Seq([label : Fields \union {"text"}, parts : Seq(Phrases)])

\* A region holds phrases, and the first has a first word if it is not empty.
LEMMA RegionTyped ==
    ASSUME NEW text \in Text, NEW i \in DOMAIN text
    PROVE  /\ Region(text, i) \in Value
           /\ Region(text, i) # <<>> => /\ Head(Region(text, i)) \in Phrases
                                        /\ Head(Words[Head(Region(text, i))]) \in Phrases
<1>1. /\ i \in 1 .. Len(text) /\ Len(text) \in Nat
      /\ \A j \in 1 .. Len(text) : text[j].parts \in Seq(Phrases)
  <2>1. DOMAIN text = 1 .. Len(text) /\ Len(text) \in Nat
    BY DEF Text
  <2>2. ASSUME NEW j \in 1 .. Len(text) PROVE text[j].parts \in Seq(Phrases)
    <3> DEFINE R == [label : Fields \union {"text"}, parts : Seq(Phrases)]
    <3>1. text \in Seq(R)
      BY DEF Text
    <3>2. text[j] \in R
      <4> HIDE DEF R
      <4> QED BY <3>1
    <3> QED BY <3>2
  <2> QED BY <2>1, <2>2
<1>2. text[i].parts \in Value
  BY <1>1 DEF Value
<1>3. ASSUME i # Len(text)
      PROVE  /\ text[i + 1].parts \in Value
             /\ <<LabelWord>> \o SubSeq(text[i + 1].parts, 2, Len(text[i + 1].parts)) \in Value
  <2>1. i + 1 \in 1 .. Len(text)
    BY <1>1, <1>3
  <2> DEFINE q == text[i + 1].parts
  <2>2. q \in Seq(Phrases)
    BY <1>1, <2>1
  <2> HIDE DEF q
  <2>3. SubSeq(q, 2, Len(q)) \in Seq(Phrases)
    BY <2>2
  <2>4. q \in Value /\ SubSeq(q, 2, Len(q)) \in Value /\ <<LabelWord>> \in Value
    BY <2>2, <2>3, FieldExtractionAssumption DEF Value
  <2>5. <<LabelWord>> \o SubSeq(q, 2, Len(q)) \in Value
    BY <2>4 DEF Value
  <2> QED BY <2>4, <2>5 DEF q
<1>4. <<>> \in Value
  BY DEF Value
<1>5. Region(text, i) \in Value
  BY <1>2, <1>3, <1>4 DEF Region
<1>6. ASSUME NEW r \in Value, r # <<>>
      PROVE  Head(r) \in Phrases /\ Head(Words[Head(r)]) \in Phrases
  <2>1. Head(r) \in Phrases
    BY <1>6 DEF Value
  <2>2. Words[Head(r)] \in Seq(Phrases) /\ Words[Head(r)] # <<>>
    BY <2>1, FieldExtractionAssumption
  <2>3. ASSUME NEW s \in Seq(Phrases), s # <<>> PROVE Head(s) \in Phrases
    BY <2>3
  <2> QED BY <2>1, <2>2, <2>3
<1> QED BY <1>5, <1>6

\* What is read for a field is what one line has for it, unless it is nothing.
LEMMA FieldIsOfLine ==
    ASSUME NEW text \in Text, NEW f \in Fields, FieldRead(text, f).value # Nothing
    PROVE  \E i \in DOMAIN text :
              /\ i \in Occurrences(text, f)
              /\ ~ConflictingValues(Region(text, i), f)
              /\ FieldRead(text, f).value = TakenFrom(Region(text, i), f)
<1> DEFINE B == Occurrences(text, f)
<1>1. B # {}
  BY DEF FieldRead
<1>2. B \subseteq DOMAIN text /\ DOMAIN text = 1 .. Len(text) /\ Len(text) \in Nat
  BY DEF Occurrences, Text
<1>4. Min(B) \in B
  <2> HIDE DEF B
  <2> QED BY <1>1, <1>2, FirstPosition
<1>5. ~ConflictingValues(Region(text, Min(B)), f)
  BY <1>1 DEF FieldRead
<1>6. FieldRead(text, f).value = TakenFrom(Region(text, Min(B)), f)
  BY <1>1, <1>5 DEF FieldRead
<1> QED BY <1>2, <1>4, <1>5, <1>6

\* What a field of a candidate is read from: a line with its label, that has no
\* phrase beside it that begins with another word.
LEMMA FieldIsWritten ==
    ASSUME NEW text \in Text, NEW f \in Fields, NEW v,
           v = DayOf(f, FieldRead(text, f).value), v # Nothing
    PROVE  \E i \in DOMAIN text :
              LET region == Region(text, i)
              IN  /\ text[i].label = f
                  /\ v = TakenFrom(region, f) /\ ~IsMissing(v)
                  /\ \A u, w \in Tokens(region, f) : u = w
<1>1. v = FieldRead(text, f).value
  BY DEF DayOf
<1>2. PICK i \in DOMAIN text :
              /\ i \in Occurrences(text, f)
              /\ ~ConflictingValues(Region(text, i), f)
              /\ v = TakenFrom(Region(text, i), f)
  BY <1>1, FieldIsOfLine
<1>3. text[i].label = f /\ ~IsMissing(TakenFrom(Region(text, i), f))
  BY <1>2 DEF Occurrences
<1>4. \A u, w \in Tokens(Region(text, i), f) : u = w
  BY <1>2 DEF ConflictingValues
<1> QED BY <1>2, <1>3, <1>4

\* The lines kept are lines of the file, or its one labelled quantity.
LEMMA LinesAreWritten ==
    ASSUME NEW x, NEW type, NEW row \in ItemLines(x, type)
    PROVE  \/ row \in ToSet(x.table) \union ToSet(x.stacked) \union ToSet(x.inline)
           \/ /\ x.single \in {"pos", "zero"}
              /\ row = [qty |-> x.single, price |-> "none"]
<1> DEFINE kinds == <<TableLines(x), StackedLines(x), InlineLines(x), SingleLine(x, type)>>
           some == {k \in 1 .. 4 : kinds[k] # {}}
<1>1. some # {} /\ row \in kinds[Min(some)]
  BY DEF ItemLines
<1>4. Min(some) \in some
  <2>1. some \in SUBSET (1 .. 4)
    OBVIOUS
  <2> HIDE DEF some
  <2> QED BY <1>1, <2>1, FirstPosition
<1>5. PICK k \in 1 .. 4 : row \in kinds[k]
  BY <1>1, <1>4
<1>6. row \in TableLines(x) \union StackedLines(x) \union InlineLines(x) \union SingleLine(x, type)
  BY <1>5
<1>7. StackedLines(x) \subseteq ToSet(x.stacked)
  BY DEF StackedLines, ToSet
<1> QED BY <1>6, <1>7 DEF TableLines, InlineLines, SingleLine

\* FieldExtraction!ReadyIsReadable, from the invariant.
LEMMA ReadingInvImpliesReadable == ReadingInv => ReadyIsReadable
<1> SUFFICES ASSUME ReadingInv, reading # Nothing,
                    reading.outcome = "READY_FOR_RECONCILIATION"
             PROVE  LET c == reading.candidate
        IN  /\ \A f \in Required(c.type) : \E i \in DOMAIN paper.text :
                  LET region == Region(paper.text, i)
                  IN  /\ paper.text[i].label = f
                      /\ c.fields[f] = TakenFrom(region, f) /\ ~IsMissing(c.fields[f])
                      /\ \A v, w \in Tokens(region, f) : v = w
            /\ c.lines # {}
            /\ \A row \in c.lines :
                  /\ row.qty = "pos" /\ (c.type # "GRN" => row.price \in {"pos", "zero"})
                  /\ \/ row \in ToSet(paper.table) \union ToSet(paper.stacked)
                                                   \union ToSet(paper.inline)
                     \/ row.qty = paper.single /\ row.price = "none"
  BY DEF ReadyIsReadable
<1>1. PICK ocr \in BOOLEAN : reading = Understood(ExtractedFrom(paper, ocr), declared)
  BY DEF ReadingInv, Failed
<1> DEFINE x == ExtractedFrom(paper, ocr)
           c == reading.candidate
<1>2. IssuesOf(x, declared) = {}
  BY <1>1 DEF Understood, OutcomeOf
<1>3. declared # "UNKNOWN" /\ Sound(Candidate(x, declared))
  <2>1. "error" \notin IssuesOf(x, declared) /\ "review" \notin IssuesOf(x, declared)
    BY <1>2
  <2> HIDE DEF x
  <2> QED BY <2>1 DEF IssuesOf
<1>4. c = Candidate(x, declared) /\ Sound(c)
  BY <1>1, <1>3 DEF Understood
<1>5. /\ c.type = declared /\ c.lines = ItemLines(x, declared)
      /\ c.fields = [f \in LookedFor(declared) |-> DayOf(f, FieldRead(x.text, f).value)]
  <2> HIDE DEF x, c
  <2> QED BY <1>4 DEF Candidate
<1>6. /\ x.text \in {paper.text, <<>>} /\ x.table \in {paper.table, <<>>}
      /\ x.stacked \in {paper.stacked, <<>>} /\ x.inline \in {paper.inline, <<>>}
      /\ x.single \in {paper.single, "none"}
  BY ExtractedParts DEF ReadingInv
<1> HIDE DEF x, c
<1>7. x.text \in Text /\ paper \in Papers
  <2>1. paper.text \in Text /\ <<>> \in Text
    <3>1. paper.text \in Text
      BY PaperParts DEF Text, ReadingInv
    <3>2. <<>> \in Text
      BY DEF Text
    <3> QED BY <3>1, <3>2
  <2> QED BY <1>6, <2>1 DEF ReadingInv
<1>8. ASSUME NEW f \in Required(c.type)
      PROVE  \E i \in DOMAIN paper.text :
                  LET region == Region(paper.text, i)
                  IN  /\ paper.text[i].label = f
                      /\ c.fields[f] = TakenFrom(region, f) /\ ~IsMissing(c.fields[f])
                      /\ \A v, w \in Tokens(region, f) : v = w
  <2>1. f \in LookedFor(declared) /\ f \in Fields
    BY <1>5 DEF Required, LookedFor, NumberField, DateField, Fields
  <2>2. c.fields[f] = DayOf(f, FieldRead(x.text, f).value) /\ c.fields[f] # Nothing
    BY <1>4, <1>5, <2>1 DEF Sound
  <2>3. PICK i \in DOMAIN x.text :
              LET region == Region(x.text, i)
              IN  /\ x.text[i].label = f
                  /\ c.fields[f] = TakenFrom(region, f) /\ ~IsMissing(c.fields[f])
                  /\ \A v, w \in Tokens(region, f) : v = w
    BY <1>7, <2>1, <2>2, FieldIsWritten
  <2>4. x.text = paper.text
    <3>1. DOMAIN <<>> = {}
      OBVIOUS
    <3> QED BY <1>6, <2>3, <3>1
  <2> QED BY <2>3, <2>4
<1>9. c.lines # {} /\ \A row \in c.lines : LineSound(declared, row)
  BY <1>4, <1>5 DEF Sound
<1>10. ASSUME NEW row \in c.lines
       PROVE  /\ row.qty = "pos" /\ (c.type # "GRN" => row.price \in {"pos", "zero"})
              /\ \/ row \in ToSet(paper.table) \union ToSet(paper.stacked)
                                                   \union ToSet(paper.inline)
                 \/ row.qty = paper.single /\ row.price = "none"
  <2>1. \/ row \in ToSet(x.table) \union ToSet(x.stacked) \union ToSet(x.inline)
        \/ x.single \in {"pos", "zero"} /\ row = [qty |-> x.single, price |-> "none"]
    BY <1>5, LinesAreWritten
  <2>2. ToSet(<<>>) = {}
    BY DEF ToSet
  <2>3. \/ row \in ToSet(paper.table) \union ToSet(paper.stacked) \union ToSet(paper.inline)
        \/ row.qty = paper.single /\ row.price = "none"
    BY <1>6, <2>1, <2>2
  <2> QED BY <1>5, <1>9, <2>3 DEF LineSound
<1> QED BY <1>8, <1>9, <1>10 DEF c

\* FieldExtraction!ReadyIsReadable: what skips the reviewer is written in the
\* document, for every file, whichever extractor reads it and however often.
THEOREM ReadinessIsRead == ExtractionSpec => []ReadyIsReadable
<1>1. ReadingInv => ReadyIsReadable
  BY ReadingInvImpliesReadable
<1> QED BY <1>1, ReadingInvariant, PTL

\* A candidate is one: it is not the absence of one.
LEMMA CandidateIsOne ==
    ASSUME NEW x, x.text \in Text, NEW type \in DocTypes,
           x.table \in Seq(Row), x.stacked \in Seq(Row), x.inline \in Seq(Row),
           x.single \in Cells
    PROVE  Candidate(x, type) # Nothing
<1> DEFINE read == [f \in LookedFor(type) |-> DayOf(f, FieldRead(x.text, f).value)]
           lines == ItemLines(x, type)
<1>1. LookedFor(type) \in SUBSET Fields
  BY DEF LookedFor, NumberField, DateField, Fields
<1>2. ASSUME NEW f \in Fields PROVE DayOf(f, FieldRead(x.text, f).value) \in Value \union {Nothing}
  <2> SUFFICES ASSUME FieldRead(x.text, f).value # Nothing
               PROVE  FieldRead(x.text, f).value \in Value
    BY DEF DayOf
  <2>1. PICK i \in DOMAIN x.text :
              /\ i \in Occurrences(x.text, f)
              /\ FieldRead(x.text, f).value = TakenFrom(Region(x.text, i), f)
    BY FieldIsOfLine
  <2> DEFINE region == Region(x.text, i)
  <2>2. region \in Value /\ Head(Words[Head(region)]) \in Phrases
    BY <2>1, RegionTyped DEF Occurrences
  <2> HIDE DEF region
  <2>3. <<Head(Words[Head(region)])>> \in Value
    BY <2>2 DEF Value
  <2> QED BY <2>1, <2>2, <2>3 DEF TakenFrom, region
<1>3. read \in [LookedFor(type) -> Value \union {Nothing}]
  BY <1>1, <1>2
<1>4. lines \in SUBSET Row
  <2>1. ASSUME NEW s \in Seq(Row) PROVE ToSet(s) \subseteq Row
    <3> HIDE DEF Row
    <3> QED BY DEF ToSet
  <2>2. ASSUME NEW row \in lines PROVE row \in Row
    <3>1. \/ row \in ToSet(x.table) \union ToSet(x.stacked) \union ToSet(x.inline)
          \/ x.single \in {"pos", "zero"} /\ row = [qty |-> x.single, price |-> "none"]
      BY LinesAreWritten
    <3>2. ASSUME x.single \in {"pos", "zero"} PROVE [qty |-> x.single, price |-> "none"] \in Row
      BY <3>2 DEF Row, Cells
    <3> QED BY <2>1, <3>1, <3>2
  <2> QED BY <2>2
<1> HIDE DEF read, lines
<1>5. [type |-> type, fields |-> read, lines |-> lines] \in CandidateRow
  BY <1>1, <1>3, <1>4 DEF CandidateRow
<1> QED BY <1>5, FieldExtractionAssumption DEF Candidate, read, lines

\* Without text there is neither a field nor a line.
LEMMA NothingRead ==
    ASSUME NEW x, NEW type \in DocTypes,
           x.text = <<>> /\ x.table = <<>> /\ x.stacked = <<>> /\ x.inline = <<>>
    PROVE  AmbiguousIn(x, type) = {} /\ ~Sound(Candidate(x, type))
<1>1. \A f : FieldRead(x.text, f) = [value |-> Nothing, ambiguous |-> FALSE]
  BY DEF FieldRead, Occurrences
<1>2. AmbiguousIn(x, type) = {}
  BY <1>1 DEF AmbiguousIn
<1> DEFINE f == NumberField(type)
<1>3. f \in LookedFor(type) /\ f \in Required(type)
  BY DEF LookedFor, Required
<1>4. Candidate(x, type).fields[f] = Nothing /\ Candidate(x, type).type = type
  BY <1>1, <1>3 DEF Candidate, DayOf
<1> QED BY <1>2, <1>3, <1>4 DEF Sound

\* FieldExtraction!EndsAsReviewed, from the invariant.
LEMMA ReadingInvImpliesReviewed == ReadingInv => EndsAsReviewed
<1> SUFFICES ASSUME ReadingInv, reading # Nothing
             PROVE  \E kind \in {"clean", "failing", "ambiguous", "unread", "untyped", "failed"} :
                      /\ reading.outcome = Review!Extracted(kind, Graded).outcome
                      /\ reading.issues = Review!Extracted(kind, Graded).issues
                      /\ Graded = Review!Extracted(kind, Graded).candidate
                      /\ Graded # Review!NoCandidate => Graded.grade \in Review!Grades(kind)
  BY DEF EndsAsReviewed
<1>1. CASE reading = Failed
  <2>1. /\ reading.outcome = "EXTRACTION_FAILED" /\ reading.issues = {}
        /\ Graded = Review!NoCandidate
    BY <1>1 DEF Failed, Graded
  <2>2. Review!Extracted("failed", Graded) =
          [outcome |-> "EXTRACTION_FAILED", issues |-> {}, candidate |-> Review!NoCandidate]
    BY DEF Review!Extracted
  <2> QED BY <2>1, <2>2
<1>2. CASE \E ocr \in BOOLEAN : reading = Understood(ExtractedFrom(paper, ocr), declared)
  <2>1. PICK ocr \in BOOLEAN : reading = Understood(ExtractedFrom(paper, ocr), declared)
    BY <1>2
  <2> DEFINE x == ExtractedFrom(paper, ocr)
             issues == IssuesOf(x, declared)
             sound == Sound(Candidate(x, declared))
             doubt == AmbiguousIn(x, declared) # {}
  <2>2. /\ reading.outcome = OutcomeOf(issues) /\ reading.issues = issues
        /\ reading.candidate = IF declared = "UNKNOWN" THEN Nothing ELSE Candidate(x, declared)
    BY <2>1 DEF Understood
  <2>3. /\ issues \subseteq {"error", "review", "ambiguous"}
        /\ "error" \in issues <=> declared # "UNKNOWN" /\ ~sound
        /\ "review" \in issues <=> declared = "UNKNOWN" \/ ~x.ocr
        /\ "ambiguous" \in issues <=> declared # "UNKNOWN" /\ doubt
    <3> HIDE DEF x
    <3> QED BY DEF IssuesOf
  <2>4. /\ x.text \in {paper.text, <<>>} /\ x.table \in {paper.table, <<>>}
        /\ x.stacked \in {paper.stacked, <<>>} /\ x.inline \in {paper.inline, <<>>}
        /\ x.single \in {paper.single, "none"} /\ x.ocr \in BOOLEAN
        /\ ~x.ocr => x.text = <<>> /\ x.table = <<>> /\ x.stacked = <<>> /\ x.inline = <<>>
    BY ExtractedParts DEF ReadingInv
  <2> HIDE DEF x, issues, sound, doubt
  <2>5. CASE declared = "UNKNOWN"
    <3>1. issues = {"review"} /\ Graded = Review!NoCandidate
      BY <2>2, <2>3, <2>5 DEF Graded
    <3>2. reading.outcome = "REVIEW_REQUIRED"
      BY <2>2, <3>1 DEF OutcomeOf
    <3>3. Review!Extracted("untyped", Graded) =
            [outcome |-> "REVIEW_REQUIRED", issues |-> {"review"}, candidate |-> Review!NoCandidate]
      BY DEF Review!Extracted
    <3> QED BY <2>2, <3>1, <3>2, <3>3
  <2>6. CASE declared \in DocTypes
    <3>0. declared # "UNKNOWN"
      BY <2>6 DEF DocTypes
    <3>1. reading.candidate # Nothing /\ reading.candidate = Candidate(x, declared)
      <4>1. /\ paper \in Papers /\ <<>> \in Text /\ <<>> \in Seq(Row) /\ "none" \in Cells
        BY DEF ReadingInv, Text, Cells
      <4>2. /\ paper.text \in Text /\ paper.table \in Seq(Row) /\ paper.stacked \in Seq(Row)
            /\ paper.inline \in Seq(Row) /\ paper.single \in Cells
        BY <4>1, PaperParts DEF Text
      <4>3. Candidate(x, declared) # Nothing
        <5>1. /\ x.text \in Text /\ x.table \in Seq(Row) /\ x.stacked \in Seq(Row)
              /\ x.inline \in Seq(Row) /\ x.single \in Cells
          BY <2>4, <4>1, <4>2
        <5> QED BY <2>6, <5>1, CandidateIsOne
      <4> QED BY <2>2, <3>0, <4>3
    <3>2. /\ Graded # Review!NoCandidate
          /\ Graded.grade = IF sound THEN "sound" ELSE "failing"
      BY <3>1 DEF Graded, Review!NoCandidate, sound
    <3>3. ~x.ocr => ~doubt /\ ~sound
      BY <2>4, <2>6, NothingRead DEF doubt, sound
    <3>4. CASE ~x.ocr
      <4>1. issues = {"error", "review"}
        BY <2>3, <3>0, <3>3, <3>4
      <4>2. Review!Extracted("unread", Graded) =
              [outcome |-> "REVIEW_REQUIRED", issues |-> {"error", "review"}, candidate |-> Graded]
        BY DEF Review!Extracted
      <4>3. Review!Grades("unread") = {"failing"}
        BY DEF Review!Grades
      <4>4. reading.outcome = "REVIEW_REQUIRED"
        BY <2>2, <4>1 DEF OutcomeOf
      <4> QED BY <2>2, <3>2, <3>3, <3>4, <4>1, <4>2, <4>3, <4>4
    <3>5. CASE x.ocr /\ doubt
      <4>1. issues = {"ambiguous"} \union IF sound THEN {} ELSE {"error"}
        BY <2>3, <3>0, <3>5
      <4>2. Review!Extracted("ambiguous", Graded) =
              [outcome |-> "REVIEW_REQUIRED", candidate |-> Graded,
               issues |-> {"ambiguous"} \union IF Graded.grade = "sound" THEN {} ELSE {"error"}]
        BY DEF Review!Extracted
      <4>3. Review!Grades("ambiguous") = {"sound", "failing"}
        BY DEF Review!Grades
      <4>4. reading.outcome = "REVIEW_REQUIRED"
        BY <2>2, <4>1 DEF OutcomeOf
      <4> QED BY <2>2, <3>2, <4>1, <4>2, <4>3, <4>4
    <3>6. CASE x.ocr /\ ~doubt /\ sound
      <4>1. issues = {}
        BY <2>3, <3>0, <3>6
      <4>2. Review!Extracted("clean", Graded) =
              [outcome |-> "READY_FOR_RECONCILIATION", issues |-> {}, candidate |-> Graded]
        BY DEF Review!Extracted
      <4>3. Review!Grades("clean") = {"sound"}
        BY DEF Review!Grades
      <4>4. reading.outcome = "READY_FOR_RECONCILIATION"
        BY <2>2, <4>1 DEF OutcomeOf
      <4> QED BY <2>2, <3>2, <3>6, <4>1, <4>2, <4>3, <4>4
    <3>7. CASE x.ocr /\ ~doubt /\ ~sound
      <4>1. issues = {"error"}
        BY <2>3, <3>0, <3>7
      <4>2. Review!Extracted("failing", Graded) =
              [outcome |-> "VALIDATION_FAILED", issues |-> {"error"}, candidate |-> Graded]
        BY DEF Review!Extracted
      <4>3. Review!Grades("failing") = {"failing"}
        BY DEF Review!Grades
      <4>4. reading.outcome = "VALIDATION_FAILED"
        BY <2>2, <4>1 DEF OutcomeOf
      <4> QED BY <2>2, <3>2, <3>7, <4>1, <4>2, <4>3, <4>4
    <3> QED BY <3>4, <3>5, <3>6, <3>7, <2>4
  <2> QED BY <2>5, <2>6 DEF ReadingInv
<1> QED BY <1>1, <1>2 DEF ReadingInv

\* FieldExtraction!EndsAsReviewed: what DocumentReview takes as given of
\* understanding is what the extractors, the classifier and the validator do.
THEOREM ReadingEndsAsReviewed == ExtractionSpec => []EndsAsReviewed
<1>1. ReadingInv => EndsAsReviewed
  BY ReadingInvImpliesReviewed
<1> QED BY <1>1, ReadingInvariant, PTL

-----------------------------------------------------------------------------
(* Scores: pairing lines.                                                  *)

ItemLine == [DOMAIN LineKind -> Written]

\* Of two lines of one key the later ranks higher.
LEMMA LaterRanksHigher ==
    ASSUME NEW lines \in Seq(ItemLine), NEW i \in DOMAIN lines, NEW j \in DOMAIN lines,
           LineKey(lines[i]) = LineKey(lines[j]), i < j
    PROVE  Rank(lines, i) # Rank(lines, j)
<1> DEFINE A == {k \in 1 .. i : LineKey(lines[k]) = LineKey(lines[i])}
           B == {k \in 1 .. j : LineKey(lines[k]) = LineKey(lines[j])}
<1>1. PICK n \in Nat : DOMAIN lines = 1 .. n
  BY LenProperties
<1>2. A \subseteq B /\ j \in B /\ j \notin A /\ B \subseteq 1 .. j
  BY <1>1
<1>3. IsFiniteSet(1 .. j)
  BY <1>1, FirstPlaces
<1> HIDE DEF A, B
<1>4. IsFiniteSet(B)
  BY <1>2, <1>3, FS_Subset
<1>5. Cardinality(A) # Cardinality(B)
  BY <1>2, <1>4, FS_Subset
<1> QED BY <1>5 DEF Rank, A, B

\* Two lines of one key and rank are one.
LEMMA RankTellsLinesApart ==
    ASSUME NEW lines \in Seq(ItemLine), NEW i \in DOMAIN lines, NEW j \in DOMAIN lines,
           LineKey(lines[i]) = LineKey(lines[j]), Rank(lines, i) = Rank(lines, j)
    PROVE  i = j
<1>1. PICK n \in Nat : DOMAIN lines = 1 .. n
  BY LenProperties
<1>2. ~(i < j) /\ ~(j < i)
  BY LaterRanksHigher
<1> QED BY <1>1, <1>2

\* A line whose key no other has is the first of it.
LEMMA RankOfUnique ==
    ASSUME NEW lines \in Seq(ItemLine), NEW i \in DOMAIN lines,
           \A j \in DOMAIN lines : LineKey(lines[i]) = LineKey(lines[j]) => i = j
    PROVE  Rank(lines, i) = 1
<1>1. PICK n \in Nat : DOMAIN lines = 1 .. n
  BY LenProperties
<1>2. {k \in 1 .. i : LineKey(lines[k]) = LineKey(lines[i])} = {i}
  BY <1>1
<1> QED BY <1>2, FS_Singleton DEF Rank

\* No line is paired twice.
LEMMA PairedOnce ==
    ASSUME NEW e \in Seq(ItemLine), NEW q \in Seq(ItemLine),
           NEW m \in Matched(e, q), NEW n \in Matched(e, q)
    PROVE  m[1] = n[1] <=> m[2] = n[2]
<1>1. /\ m[1] \in DOMAIN e /\ m[2] \in DOMAIN q /\ n[1] \in DOMAIN e /\ n[2] \in DOMAIN q
      /\ LineKey(e[m[1]]) = LineKey(q[m[2]]) /\ Rank(e, m[1]) = Rank(q, m[2])
      /\ LineKey(e[n[1]]) = LineKey(q[n[2]]) /\ Rank(e, n[1]) = Rank(q, n[2])
  BY DEF Matched
<1>2. m[1] = n[1] => m[2] = n[2]
  BY <1>1, RankTellsLinesApart
<1>3. m[2] = n[2] => m[1] = n[1]
  BY <1>1, RankTellsLinesApart
<1> QED BY <1>2, <1>3

-----------------------------------------------------------------------------
(* Scores: the parts of one.                                               *)

MissingHeads(t, p) == {h \in HeaderFields(t, p) : ~Present(h[4])}
WrongHeads(t, p) ==
    {h \in HeaderFields(t, p) \ MissingHeads(t, p) : Compare(h[2], h[3], h[4]) # "none"}
UnexpectedHeads(t, p) == {f \in DOMAIN HeaderKind : ~Present(t.head[f]) /\ Present(p.head[f])}
UnmatchedLines(t, p) == DOMAIN t.lines \ {m[1] : m \in Matched(t.lines, p.lines)}
ExtraLines(t, p) == DOMAIN p.lines \ {m[2] : m \in Matched(t.lines, p.lines)}
OffFields(t, p) ==
    {x \in LineFields(t, p) : ~Present(x[5]) \/ Compare(x[3], x[4], x[5]) # "none"}
ExpectedFields(t) ==
    {x \in (DOMAIN t.lines) \X (DOMAIN LineKind) : Present(t.lines[x[1]][x[2]])}

If(condition, category) == IF condition THEN {category} ELSE {}

ErrorsOf(t, p) ==
    If(Bare(p), "EMPTY_EXTRACTION")
    \union If(MissingHeads(t, p) # {}, "MISSING_FIELD")
    \union {Compare(h[2], h[3], h[4]) : h \in WrongHeads(t, p)}
    \union If(UnexpectedHeads(t, p) # {}, "UNEXPECTED_FIELD")
    \union If(p.type \notin {"none", t.type}, "DOCUMENT_TYPE_MISMATCH")
    \union If(UnmatchedLines(t, p) # {}, "MISSING_LINE")
    \union If(ExtraLines(t, p) # {}, "EXTRA_LINE")
    \union {IF Present(x[5]) /\ Compare(x[3], x[4], x[5]) = "NUMERIC_MISMATCH"
            THEN "NUMERIC_MISMATCH" ELSE "LINE_FIELD_MISMATCH" : x \in OffFields(t, p)}

\* The score of a case, with a name for each part of it.
LEMMA ScoreInParts ==
    ASSUME NEW t, NEW p
    PROVE  /\ CaseScore(t, p).errors = ErrorsOf(t, p)
           /\ CaseScore(t, p).header =
                [expected |-> Cardinality(HeaderFields(t, p)),
                 missing |-> Cardinality(MissingHeads(t, p)),
                 correct |-> Cardinality(HeaderFields(t, p)
                                \ (MissingHeads(t, p) \union WrongHeads(t, p))),
                 comparable |-> Cardinality(HeaderFields(t, p) \ MissingHeads(t, p))]
           /\ CaseScore(t, p).line =
                [expected |-> Cardinality(ExpectedFields(t)),
                 comparable |-> Cardinality(LineFields(t, p)),
                 correct |-> Cardinality(LineFields(t, p) \ OffFields(t, p))]
<1>1. CaseScore(t, p).errors = ErrorsOf(t, p)
  BY DEF CaseScore, ErrorsOf, If, MissingHeads, WrongHeads, UnexpectedHeads, UnmatchedLines,
         ExtraLines, OffFields
<1>2. CaseScore(t, p).header =
                [expected |-> Cardinality(HeaderFields(t, p)),
                 missing |-> Cardinality(MissingHeads(t, p)),
                 correct |-> Cardinality(HeaderFields(t, p)
                                \ (MissingHeads(t, p) \union WrongHeads(t, p))),
                 comparable |-> Cardinality(HeaderFields(t, p) \ MissingHeads(t, p))]
  BY DEF CaseScore, MissingHeads, WrongHeads
<1>3. CaseScore(t, p).line =
                [expected |-> Cardinality(ExpectedFields(t)),
                 comparable |-> Cardinality(LineFields(t, p)),
                 correct |-> Cardinality(LineFields(t, p) \ OffFields(t, p))]
  BY DEF CaseScore, ExpectedFields, OffFields
<1> QED BY <1>1, <1>2, <1>3

\* What is compared and not equal is one of four errors.
LEMMA Compared ==
    ASSUME NEW kind, NEW e, NEW q
    PROVE  /\ Compare(kind, e, q) = "none" <=> Equal(kind, e, q)
           /\ Compare(kind, e, q) \in {"none", "NUMERIC_MISMATCH", "DATE_MISMATCH",
                                       "NORMALIZATION_MISMATCH", "INCORRECT_FIELD"}
  BY DEF Compare

\* Every part tells its own error.
LEMMA PartsOfErrors ==
    ASSUME NEW t, NEW p
    PROVE  /\ ErrorsOf(t, p) \subseteq {"UNEXPECTED_FIELD"} <=>
                /\ ~Bare(p) /\ MissingHeads(t, p) = {} /\ WrongHeads(t, p) = {}
                /\ p.type \in {"none", t.type} /\ UnmatchedLines(t, p) = {}
                /\ ExtraLines(t, p) = {} /\ OffFields(t, p) = {}
           /\ "UNEXPECTED_FIELD" \in ErrorsOf(t, p) <=> UnexpectedHeads(t, p) # {}
<1> DEFINE E == ErrorsOf(t, p)
           wrong == {Compare(h[2], h[3], h[4]) : h \in WrongHeads(t, p)}
           off == {IF Present(x[5]) /\ Compare(x[3], x[4], x[5]) = "NUMERIC_MISMATCH"
                   THEN "NUMERIC_MISMATCH" ELSE "LINE_FIELD_MISMATCH" : x \in OffFields(t, p)}
<1>1. wrong \subseteq {"NUMERIC_MISMATCH", "DATE_MISMATCH", "NORMALIZATION_MISMATCH",
                       "INCORRECT_FIELD"}
  BY Compared DEF WrongHeads
<1>2. off \subseteq {"NUMERIC_MISMATCH", "LINE_FIELD_MISMATCH"}
  OBVIOUS
<1>3. (wrong = {} <=> WrongHeads(t, p) = {}) /\ (off = {} <=> OffFields(t, p) = {})
  OBVIOUS
<1>4. E = If(Bare(p), "EMPTY_EXTRACTION")
          \union If(MissingHeads(t, p) # {}, "MISSING_FIELD")
          \union wrong
          \union If(UnexpectedHeads(t, p) # {}, "UNEXPECTED_FIELD")
          \union If(p.type \notin {"none", t.type}, "DOCUMENT_TYPE_MISMATCH")
          \union If(UnmatchedLines(t, p) # {}, "MISSING_LINE")
          \union If(ExtraLines(t, p) # {}, "EXTRA_LINE")
          \union off
  BY DEF ErrorsOf
<1> HIDE DEF wrong, off, E
<1>5. "UNEXPECTED_FIELD" \in E <=> UnexpectedHeads(t, p) # {}
  BY <1>1, <1>2, <1>4 DEF If
<1>6. ASSUME E \subseteq {"UNEXPECTED_FIELD"}
      PROVE  /\ ~Bare(p) /\ MissingHeads(t, p) = {} /\ WrongHeads(t, p) = {}
             /\ p.type \in {"none", t.type} /\ UnmatchedLines(t, p) = {}
             /\ ExtraLines(t, p) = {} /\ OffFields(t, p) = {}
  <2>1. wrong = {} /\ off = {}
    BY <1>1, <1>2, <1>4, <1>6
  <2>2. ~Bare(p) /\ MissingHeads(t, p) = {} /\ p.type \in {"none", t.type}
    BY <1>4, <1>6 DEF If
  <2>3. UnmatchedLines(t, p) = {} /\ ExtraLines(t, p) = {}
    BY <1>4, <1>6 DEF If
  <2> QED BY <1>3, <2>1, <2>2, <2>3
<1>7. ASSUME /\ ~Bare(p) /\ MissingHeads(t, p) = {} /\ WrongHeads(t, p) = {}
             /\ p.type \in {"none", t.type} /\ UnmatchedLines(t, p) = {}
             /\ ExtraLines(t, p) = {} /\ OffFields(t, p) = {}
      PROVE  E \subseteq {"UNEXPECTED_FIELD"}
  <2>1. wrong = {} /\ off = {}
    BY <1>3, <1>7
  <2> QED BY <1>4, <1>7, <2>1 DEF If
<1> QED BY <1>5, <1>6, <1>7 DEF E


-----------------------------------------------------------------------------
(* Scores: a success is the same.                                          *)

\* A success pairs every line with one whose fields agree.
LEMMA SuccessHasSameLines ==
    ASSUME NEW t \in FieldValues, NEW p \in FieldValues,
           UnmatchedLines(t, p) = {}, ExtraLines(t, p) = {}, OffFields(t, p) = {}
    PROVE  SameLines(t.lines, p.lines)
<1> DEFINE e == t.lines
           q == p.lines
           M == Matched(e, q)
<1>1. e \in Seq(ItemLine) /\ q \in Seq(ItemLine)
  BY DEF FieldValues, ItemLine
<1>2. M \subseteq (DOMAIN e) \X (DOMAIN q)
  BY DEF Matched
<1>3. \A i \in DOMAIN e : \E m \in M : m[1] = i
  BY DEF UnmatchedLines
<1>4. \A j \in DOMAIN q : \E m \in M : m[2] = j
  BY DEF ExtraLines
<1>5. \A m, n \in M : m[1] = n[1] <=> m[2] = n[2]
  BY <1>1, PairedOnce
<1>6. ASSUME NEW m \in M, NEW f \in DOMAIN LineKind, Present(e[m[1]][f])
      PROVE  Present(q[m[2]][f]) /\ Equal(LineKind[f], e[m[1]][f], q[m[2]][f])
  <2> DEFINE x == <<m[1], f, LineKind[f], e[m[1]][f], q[m[2]][f]>>
  <2>1. x \in LineFields(t, p)
    BY <1>6 DEF LineFields
  <2>2. x \notin OffFields(t, p)
    OBVIOUS
  <2>3. Present(x[5]) /\ Compare(x[3], x[4], x[5]) = "none"
    BY <2>1, <2>2 DEF OffFields
  <2> QED BY <2>3, Compared
<1> HIDE DEF M, e, q
<1> DEFINE b == [i \in DOMAIN e |-> (CHOOSE m \in M : m[1] = i)[2]]
<1>7. ASSUME NEW i \in DOMAIN e PROVE \E m \in M : m[1] = i /\ b[i] = m[2]
  BY <1>3
<1>8. \A i \in DOMAIN e : b[i] \in DOMAIN q
  BY <1>2, <1>7
<1>9. \A i, j \in DOMAIN e : b[i] = b[j] => i = j
  BY <1>5, <1>7
<1>10. ASSUME NEW j \in DOMAIN q PROVE \E i \in DOMAIN e : b[i] = j
  <2>1. PICK n \in M : n[2] = j
    BY <1>4
  <2>2. n[1] \in DOMAIN e
    BY <1>2
  <2>3. PICK m \in M : m[1] = n[1] /\ b[n[1]] = m[2]
    BY <1>7, <2>2
  <2> QED BY <1>5, <2>1, <2>2, <2>3
<1>11. b \in Bijection(DOMAIN e, DOMAIN q)
  <2>1. b \in [DOMAIN e -> DOMAIN q] /\ DOMAIN b = DOMAIN e
    BY <1>8
  <2> HIDE DEF b
  <2> QED BY <1>9, <1>10, <2>1 DEF Bijection, Injection, Surjection, IsInjective
<1>12. \A i \in DOMAIN e : Agree(LineKind, e[i], q[b[i]])
  <2> HIDE DEF b
  <2> QED BY <1>6, <1>7 DEF Agree
<1> HIDE DEF b
<1> QED BY <1>11, <1>12 DEF SameLines, e, q

\* A success says what the document says.
LEMMA SuccessIsSame ==
    ASSUME NEW t \in FieldValues, NEW p \in FieldValues, Success(CaseScore(t, p))
    PROVE  Same(t, p)
<1>1. /\ ~Bare(p) /\ MissingHeads(t, p) = {} /\ WrongHeads(t, p) = {}
      /\ p.type \in {"none", t.type} /\ UnmatchedLines(t, p) = {}
      /\ ExtraLines(t, p) = {} /\ OffFields(t, p) = {}
  BY ScoreInParts, PartsOfErrors DEF Success
<1>2. SameLines(t.lines, p.lines)
  BY <1>1, SuccessHasSameLines
<1>3. ASSUME NEW f \in DOMAIN HeaderKind, Present(t.head[f])
      PROVE  Present(p.head[f]) /\ Equal(HeaderKind[f], t.head[f], p.head[f])
  <2> DEFINE h == <<f, HeaderKind[f], t.head[f], p.head[f]>>
  <2>1. h \in HeaderFields(t, p)
    BY <1>3 DEF HeaderFields
  <2>2. Present(h[4])
    BY <1>1, <2>1 DEF MissingHeads
  <2>3. Compare(h[2], h[3], h[4]) = "none"
    BY <1>1, <2>1 DEF WrongHeads
  <2> QED BY <2>2, <2>3, Compared
<1>4. Agree(HeaderKind, t.head, p.head)
  BY <1>3 DEF Agree
<1> QED BY <1>1, <1>2, <1>4 DEF Same

\* Lines that agree have one key, when both are known in the same way.
LEMMA AgreeingKeys ==
    ASSUME NEW e \in ItemLine, NEW q \in ItemLine, Agree(LineKind, e, q),
           Present(e.item_identifier) = Present(q.item_identifier), LineKey(e) # <<>>
    PROVE  LineKey(e) = LineKey(q)
<1>1. /\ e.item_identifier \in Written /\ q.item_identifier \in Written
      /\ e.description \in Written /\ q.description \in Written
  BY DEF ItemLine, LineKind
<1>2. CASE Present(e.item_identifier)
  <2>1. Equal("identifier", e.item_identifier, q.item_identifier)
    BY <1>2 DEF Agree, LineKind
  <2>2. /\ e.item_identifier.word = q.item_identifier.word
        /\ e.item_identifier.form = q.item_identifier.form
    BY <2>1 DEF Equal
  <2>3. e.item_identifier = q.item_identifier
    BY <1>1, <2>2 DEF Written
  <2> QED BY <1>2, <2>3 DEF LineKey
<1>3. CASE ~Present(e.item_identifier)
  <2>1. Present(e.description)
    BY <1>3 DEF LineKey
  <2>2. Present(q.description) /\ Equal("name", e.description, q.description)
    BY <2>1 DEF Agree, LineKind
  <2> QED BY <1>3, <2>1, <2>2 DEF LineKey, Equal
<1> QED BY <1>2, <1>3

\* Where keys tell lines apart, whatever says the same is paired as it should be.
LEMMA SameIsPaired ==
    ASSUME NEW t \in FieldValues, NEW p \in FieldValues,
           SameLines(t.lines, p.lines), Distinct(t, p)
    PROVE  UnmatchedLines(t, p) = {} /\ ExtraLines(t, p) = {} /\ OffFields(t, p) = {}
<1> DEFINE e == t.lines
           q == p.lines
           M == Matched(e, q)
<1>1. e \in Seq(ItemLine) /\ q \in Seq(ItemLine)
  BY DEF FieldValues, ItemLine
<1>2. PICK b \in Bijection(DOMAIN e, DOMAIN q) :
         \A i \in DOMAIN e : Agree(LineKind, e[i], q[b[i]])
  BY DEF SameLines
<1>3. /\ \A i \in DOMAIN e : b[i] \in DOMAIN q
      /\ \A j \in DOMAIN q : \E i \in DOMAIN e : b[i] = j
  BY <1>2 DEF Bijection, Injection, Surjection
<1>4. /\ \A i, j \in DOMAIN e : LineKey(e[i]) # <<>> /\ (LineKey(e[i]) = LineKey(e[j]) => i = j)
      /\ \A i, j \in DOMAIN q : LineKey(q[i]) # <<>> /\ (LineKey(q[i]) = LineKey(q[j]) => i = j)
  BY DEF Distinct
<1>5. PICK known \in BOOLEAN :
         \A l \in ToSet(e) \union ToSet(q) : Present(l.item_identifier) = known
  BY DEF Distinct
<1>6. /\ \A i \in DOMAIN e : e[i] \in ToSet(e) /\ e[i] \in ItemLine
      /\ \A i \in DOMAIN q : q[i] \in ToSet(q) /\ q[i] \in ItemLine
  BY <1>1, ElementOfSeq, LenProperties DEF ToSet
<1> HIDE DEF e, q
<1>7. ASSUME NEW i \in DOMAIN e PROVE LineKey(e[i]) = LineKey(q[b[i]])
  <2>1. Present(e[i].item_identifier) = Present(q[b[i]].item_identifier)
    BY <1>3, <1>5, <1>6
  <2>2. LineKey(e[i]) # <<>>
    BY <1>4
  <2>3. Agree(LineKind, e[i], q[b[i]]) /\ e[i] \in ItemLine /\ q[b[i]] \in ItemLine
    BY <1>2, <1>3, <1>6
  <2> QED BY <2>1, <2>2, <2>3, AgreeingKeys
<1>8. ASSUME NEW i \in DOMAIN e PROVE Rank(e, i) = 1
  BY <1>1, <1>4, RankOfUnique
<1>9. ASSUME NEW j \in DOMAIN q PROVE Rank(q, j) = 1
  BY <1>1, <1>4, RankOfUnique
<1>10. ASSUME NEW i \in DOMAIN e PROVE <<i, b[i]>> \in M
  <2>1. LineKey(e[i]) # <<>> /\ LineKey(e[i]) = LineKey(q[b[i]]) /\ Rank(e, i) = Rank(q, b[i])
    BY <1>3, <1>4, <1>7, <1>8, <1>9
  <2> QED BY <1>3, <2>1 DEF Matched
<1>11. ASSUME NEW m \in M PROVE m[1] \in DOMAIN e /\ m[2] = b[m[1]]
  <2>1. m[1] \in DOMAIN e /\ m[2] \in DOMAIN q /\ LineKey(e[m[1]]) = LineKey(q[m[2]])
    BY DEF Matched
  <2> QED BY <1>3, <1>4, <1>7, <2>1
<1>12. UnmatchedLines(t, p) = {}
  <2>1. \A i \in DOMAIN e : \E m \in M : m[1] = i
    BY <1>10
  <2> HIDE DEF M
  <2>2. UnmatchedLines(t, p) = DOMAIN e \ {m[1] : m \in M}
    BY DEF UnmatchedLines, e, q, M
  <2> QED BY <2>1, <2>2
<1>13. ExtraLines(t, p) = {}
  <2>1. \A j \in DOMAIN q : \E m \in M : m[2] = j
    BY <1>3, <1>10
  <2> HIDE DEF M
  <2>2. ExtraLines(t, p) = DOMAIN q \ {m[2] : m \in M}
    BY DEF ExtraLines, e, q, M
  <2> QED BY <2>1, <2>2
<1>14. OffFields(t, p) = {}
  <2> SUFFICES ASSUME NEW x \in LineFields(t, p)
               PROVE  Present(x[5]) /\ Compare(x[3], x[4], x[5]) = "none"
    BY DEF OffFields
  <2>1. PICK m \in M, f \in DOMAIN LineKind :
           Present(e[m[1]][f]) /\ x = <<m[1], f, LineKind[f], e[m[1]][f], q[m[2]][f]>>
    BY DEF LineFields, e, q
  <2> HIDE DEF M
  <2>2. Agree(LineKind, e[m[1]], q[m[2]])
    BY <1>2, <1>11
  <2>3. Present(q[m[2]][f]) /\ Equal(LineKind[f], e[m[1]][f], q[m[2]][f])
    BY <2>1, <2>2 DEF Agree
  <2>4. Compare(LineKind[f], e[m[1]][f], q[m[2]][f]) = "none"
    BY <2>3, Compared
  <2> QED BY <2>1, <2>3, <2>4
<1> QED BY <1>12, <1>13, <1>14

\* Where keys tell its lines apart, what says the same is a success.
LEMMA SameIsSuccess ==
    ASSUME NEW t \in FieldValues, NEW p \in FieldValues, Same(t, p), Distinct(t, p)
    PROVE  Success(CaseScore(t, p))
<1>1. /\ p.type \in {"none", t.type} /\ ~Bare(p)
      /\ Agree(HeaderKind, t.head, p.head) /\ SameLines(t.lines, p.lines)
  BY DEF Same
<1>2. UnmatchedLines(t, p) = {} /\ ExtraLines(t, p) = {} /\ OffFields(t, p) = {}
  BY <1>1, SameIsPaired
<1>3. ASSUME NEW h \in HeaderFields(t, p)
      PROVE  Present(h[4]) /\ Compare(h[2], h[3], h[4]) = "none"
  <2>1. PICK f \in DOMAIN HeaderKind :
           Present(t.head[f]) /\ h = <<f, HeaderKind[f], t.head[f], p.head[f]>>
    BY DEF HeaderFields
  <2>2. Present(p.head[f]) /\ Equal(HeaderKind[f], t.head[f], p.head[f])
    BY <1>1, <2>1 DEF Agree
  <2>3. Compare(HeaderKind[f], t.head[f], p.head[f]) = "none"
    BY <2>2, Compared
  <2> QED BY <2>1, <2>2, <2>3
<1>4. MissingHeads(t, p) = {} /\ WrongHeads(t, p) = {}
  BY <1>3 DEF MissingHeads, WrongHeads
<1>5. ErrorsOf(t, p) \subseteq {"UNEXPECTED_FIELD"}
  BY <1>1, <1>2, <1>4, PartsOfErrors
<1>6. CaseScore(t, p).errors = ErrorsOf(t, p)
  BY ScoreInParts
<1> QED BY <1>5, <1>6 DEF Success

\* Only another header field makes a success less than an exact match.
LEMMA ExactIsSuccess ==
    ASSUME NEW t, NEW p
    PROVE  ExactMatch(CaseScore(t, p)) <=> Success(CaseScore(t, p)) /\ NothingMore(t, p)
<1>1. NothingMore(t, p) <=> UnexpectedHeads(t, p) = {}
  BY DEF NothingMore, UnexpectedHeads
<1>2. CaseScore(t, p).errors = ErrorsOf(t, p)
  BY ScoreInParts
<1>3. "UNEXPECTED_FIELD" \in ErrorsOf(t, p) <=> UnexpectedHeads(t, p) # {}
  BY PartsOfErrors
<1> QED BY <1>1, <1>2, <1>3 DEF ExactMatch, Success


-----------------------------------------------------------------------------
(* Scores: counts.                                                         *)

\* Three things are finitely many.
LEMMA ThreeAreFinite ==
    ASSUME NEW a, NEW b, NEW c
    PROVE  IsFiniteSet({a, b, c})
<1>1. IsFiniteSet({a})
  BY FS_Singleton
<1>2. IsFiniteSet({a} \union {b})
  BY <1>1, FS_AddElement
<1>3. IsFiniteSet({a} \union {b} \union {c})
  BY <1>2, FS_AddElement
<1>4. {a, b, c} = {a} \union {b} \union {c}
  OBVIOUS
<1> QED BY <1>3, <1>4

\* Of a case, no more is correct than compared, and no more compared than expected.
LEMMA CountsAreInOrder ==
    ASSUME NEW t \in FieldValues, NEW p \in FieldValues, NEW part \in {"header", "line"}
    PROVE  /\ CaseScore(t, p)[part].correct \in Nat /\ CaseScore(t, p)[part].comparable \in Nat
           /\ CaseScore(t, p)[part].expected \in Nat
           /\ CaseScore(t, p)[part].correct <= CaseScore(t, p)[part].comparable
           /\ CaseScore(t, p)[part].comparable <= CaseScore(t, p)[part].expected
<1>1. CASE part = "header"
  <2> DEFINE H == HeaderFields(t, p)
             A == H \ MissingHeads(t, p)
             B == H \ (MissingHeads(t, p) \union WrongHeads(t, p))
             all == {"invoice_number", "vendor_name", "invoice_date", "total_amount"}
             of == [f \in all |-> <<f, HeaderKind[f], t.head[f], p.head[f]>>]
  <2>1. IsFiniteSet(all)
    <3>1. IsFiniteSet({"invoice_number", "vendor_name", "invoice_date"})
      BY ThreeAreFinite
    <3>2. all = {"invoice_number", "vendor_name", "invoice_date"} \union {"total_amount"}
      OBVIOUS
    <3> HIDE DEF all
    <3>3. PICK three : /\ three = {"invoice_number", "vendor_name", "invoice_date"}
                       /\ IsFiniteSet(three)
      BY <3>1
    <3>4. IsFiniteSet(three \union {"total_amount"})
      BY <3>3, FS_AddElement
    <3> QED BY <3>2, <3>3, <3>4
  <2> HIDE DEF all
  <2>2. IsFiniteSet({of[f] : f \in all})
    <3>1. DOMAIN of = all
      OBVIOUS
    <3> HIDE DEF of
    <3> QED BY <2>1, <3>1, ValuesAreFinite
  <2>3. H \subseteq {of[f] : f \in all}
    <3> SUFFICES ASSUME NEW h \in H PROVE \E f \in all : h = of[f]
      OBVIOUS
    <3>1. PICK f \in DOMAIN HeaderKind : h = <<f, HeaderKind[f], t.head[f], p.head[f]>>
      BY DEF HeaderFields
    <3>2. f \in all
      BY DEF HeaderKind, all
    <3> QED BY <3>1, <3>2
  <2> HIDE DEF of
  <2>4. IsFiniteSet(H)
    BY <2>2, <2>3, FS_Subset
  <2>5. A \subseteq H /\ B \subseteq A
    OBVIOUS
  <2>6. /\ CaseScore(t, p)[part].correct = Cardinality(B)
        /\ CaseScore(t, p)[part].comparable = Cardinality(A)
        /\ CaseScore(t, p)[part].expected = Cardinality(H)
    <3>1. CaseScore(t, p).header =
            [expected |-> Cardinality(H), missing |-> Cardinality(MissingHeads(t, p)),
             correct |-> Cardinality(B), comparable |-> Cardinality(A)]
      BY ScoreInParts
    <3>2. CaseScore(t, p)[part] = CaseScore(t, p).header
      BY <1>1
    <3> HIDE DEF H, A, B
    <3> QED BY <3>1, <3>2
  <2> HIDE DEF H, A, B
  <2>7. IsFiniteSet(A) /\ Cardinality(A) <= Cardinality(H)
    BY <2>4, <2>5, FS_Subset
  <2>8. IsFiniteSet(B) /\ Cardinality(B) <= Cardinality(A)
    BY <2>5, <2>7, FS_Subset
  <2> QED BY <2>4, <2>6, <2>7, <2>8, FS_CardinalityType
<1>2. CASE part = "line"
  <2> DEFINE e == t.lines
             q == p.lines
             X == ExpectedFields(t)
             L == LineFields(t, p)
             B == L \ OffFields(t, p)
             all == {"item_identifier", "description", "quantity"}
             of == [x \in L |-> <<x[1], x[2]>>]
  <2>1. e \in Seq(ItemLine) /\ q \in Seq(ItemLine)
    BY DEF FieldValues, ItemLine
  <2>2. IsFiniteSet(all)
    BY ThreeAreFinite
  <2>3. DOMAIN LineKind = all
    BY DEF LineKind
  <2> HIDE DEF all
  <2>4. IsFiniteSet(DOMAIN e)
    <3>1. PICK n \in Nat : DOMAIN e = 1 .. n
      BY <2>1, LenProperties
    <3> QED BY <3>1, FirstPlaces
  <2>5. X \subseteq (DOMAIN e) \X (DOMAIN LineKind)
    BY DEF ExpectedFields
  <2>6. IsFiniteSet(X)
    <3>1. IsFiniteSet((DOMAIN e) \X (DOMAIN LineKind))
      BY <2>2, <2>3, <2>4, FS_Product
    <3> QED BY <2>5, <3>1, FS_Subset
  <2>7. ASSUME NEW x \in L
        PROVE  \E m \in Matched(e, q), f \in DOMAIN LineKind :
                  /\ Present(e[m[1]][f]) /\ m[1] \in DOMAIN e
                  /\ x = <<m[1], f, LineKind[f], e[m[1]][f], q[m[2]][f]>>
    <3>1. PICK m \in Matched(e, q), f \in DOMAIN LineKind :
            Present(e[m[1]][f]) /\ x = <<m[1], f, LineKind[f], e[m[1]][f], q[m[2]][f]>>
      BY DEF LineFields
    <3>2. m[1] \in DOMAIN e
      BY DEF Matched
    <3> QED BY <3>1, <3>2
  <2>8. \A x \in L : <<x[1], x[2]>> \in X
    BY <2>7 DEF ExpectedFields
  <2>9. ASSUME NEW x \in L, NEW y \in L, <<x[1], x[2]>> = <<y[1], y[2]>> PROVE x = y
    <3>1. PICK m \in Matched(e, q), f \in DOMAIN LineKind :
                  x = <<m[1], f, LineKind[f], e[m[1]][f], q[m[2]][f]>>
      BY <2>7
    <3>2. PICK n \in Matched(e, q), g \in DOMAIN LineKind :
                  y = <<n[1], g, LineKind[g], e[n[1]][g], q[n[2]][g]>>
      BY <2>7
    <3>3. m[1] = n[1] /\ f = g
      BY <2>9, <3>1, <3>2
    <3>4. m[2] = n[2]
      BY <2>1, <3>3, PairedOnce
    <3> QED BY <3>1, <3>2, <3>3, <3>4
  <2>10. of \in Injection(L, X)
    <3>1. of \in [L -> X] /\ DOMAIN of = L /\ \A x \in L : of[x] = <<x[1], x[2]>>
      BY <2>8
    <3> HIDE DEF of, L, X
    <3> QED BY <2>9, <3>1 DEF Injection, IsInjective
  <2>11. /\ CaseScore(t, p)[part].correct = Cardinality(B)
         /\ CaseScore(t, p)[part].comparable = Cardinality(L)
         /\ CaseScore(t, p)[part].expected = Cardinality(X)
    <3>1. CaseScore(t, p).line =
            [expected |-> Cardinality(X), comparable |-> Cardinality(L),
             correct |-> Cardinality(B)]
      BY ScoreInParts
    <3>2. CaseScore(t, p)[part] = CaseScore(t, p).line
      BY <1>2
    <3> HIDE DEF L, X, B
    <3> QED BY <3>1, <3>2
  <2>12. B \subseteq L
    OBVIOUS
  <2> HIDE DEF L, X, B, of
  <2>13. IsFiniteSet(L) /\ Cardinality(L) <= Cardinality(X)
    BY <2>6, <2>10, FS_Injection
  <2>14. IsFiniteSet(B) /\ Cardinality(B) <= Cardinality(L)
    BY <2>12, <2>13, FS_Subset
  <2> QED BY <2>6, <2>11, <2>13, <2>14, FS_CardinalityType
<1> QED BY <1>1, <1>2

\* One of the counts, over a set of cases.
CountOver(S, cases, part, count) ==
    MapThenSumSet(LAMBDA i : cases[i].score[part][count], S)

\* The fold of the model adds the counts up.
LEMMA CountsAddUp ==
    ASSUME NEW S, IsFiniteSet(S), NEW w \in [S -> Nat], NEW cases, NEW part, NEW count,
           \A i \in S : w[i] = cases[i].score[part][count]
    PROVE  CountOver(S, cases, part, count) = Sum(S, w)
<1> DEFINE T == CountOver(S, cases, part, count)
           F(g) == g = [s \in SUBSET S |->
                          IF s = {} THEN 0
                          ELSE cases[CHOOSE x \in s : TRUE].score[part][count]
                               + g[s \ {CHOOSE x \in s : TRUE}]]
<1>1. T = (CHOOSE g : F(g))[S]
  BY DEF CountOver, MapThenSumSet, MapThenFoldSet
<1>2. ASSUME NEW g PROVE F(g) <=> IsSum(g, S, w)
  <2>1. ASSUME NEW s \in SUBSET S, s # {}
        PROVE  w[CHOOSE x \in s : TRUE] = cases[CHOOSE x \in s : TRUE].score[part][count]
    BY <2>1
  <2>2. [s \in SUBSET S |-> IF s = {} THEN 0
                            ELSE cases[CHOOSE x \in s : TRUE].score[part][count]
                                 + g[s \ {CHOOSE x \in s : TRUE}]]
        = [s \in SUBSET S |-> IF s = {} THEN 0
                              ELSE w[CHOOSE x \in s : TRUE] + g[s \ {CHOOSE x \in s : TRUE}]]
    BY <2>1
  <2> QED BY <2>2 DEF IsSum
<1> HIDE DEF F, T
<1>3. \E g : F(g)
  BY <1>2, SumIsDefined
<1>4. F(CHOOSE g : F(g))
  BY <1>3
<1>5. (CHOOSE g : F(g))[S] = Sum(S, w)
  BY <1>2, <1>4, SumIsDefined
<1> QED BY <1>1, <1>5 DEF T

\* Of two sums with weights that are no less in one, equal ones have equal weights.
LEMMA EqualSums ==
    ASSUME NEW S, IsFiniteSet(S), NEW v \in [S -> Nat], NEW w \in [S -> Nat],
           \A x \in S : v[x] <= w[x]
    PROVE  /\ Sum(S, v) \in Nat /\ Sum(S, w) \in Nat /\ Sum(S, v) <= Sum(S, w)
           /\ Sum(S, v) = Sum(S, w) => \A x \in S : v[x] = w[x]
<1>1. Sum(S, v) \in Nat /\ Sum(S, w) \in Nat /\ Sum(S, v) <= Sum(S, w)
  BY SumIsNatural, SumGrows
<1>2. ASSUME Sum(S, v) = Sum(S, w), NEW x \in S PROVE v[x] = w[x]
  <2> DEFINE T == S \ {x}
             a == [y \in T |-> v[y]]
             b == [y \in T |-> w[y]]
  <2>1. Sum(S, v) = v[x] + Sum(T, v) /\ Sum(S, w) = w[x] + Sum(T, w)
    BY SumTakesOne
  <2>2. /\ T \in SUBSET S /\ a \in [T -> Nat] /\ b \in [T -> Nat]
        /\ \A y \in T : v[y] = a[y] /\ w[y] = b[y] /\ a[y] <= b[y]
    OBVIOUS
  <2> HIDE DEF T, a, b
  <2>3. IsFiniteSet(T)
    BY <2>2, FS_Subset
  <2>4. Sum(T, v) = Sum(T, a) /\ Sum(T, w) = Sum(T, b)
    BY <2>2, SumOfSame
  <2>5. Sum(T, a) <= Sum(T, b) /\ Sum(T, a) \in Nat /\ Sum(T, b) \in Nat
    BY <2>2, <2>3, SumGrows, SumIsNatural
  <2>6. v[x] <= w[x] /\ v[x] \in Nat /\ w[x] \in Nat
    OBVIOUS
  <2>7. PICK c, d, k, l : c = Sum(T, a) /\ d = Sum(T, b) /\ k = v[x] /\ l = w[x]
    OBVIOUS
  <2>8. c \in Nat /\ d \in Nat /\ k \in Nat /\ l \in Nat /\ c <= d /\ k <= l
    BY <2>5, <2>6, <2>7
  <2>9. k + c = l + d
    BY <1>2, <2>1, <2>4, <2>7
  <2>10. k = l
    BY <2>8, <2>9
  <2> QED BY <2>7, <2>10
<1> QED BY <1>1, <1>2

-----------------------------------------------------------------------------
(* Scores: the theorem.                                                    *)

IsCase(c) ==
    \E t \in Truths, p \in Predictions :
        c = [truth |-> t, prediction |-> p, score |-> CaseScore(t, p)]

ScoreInv ==
    /\ scored \in Seq({scored[i] : i \in DOMAIN scored})
    /\ \A i \in DOMAIN scored : IsCase(scored[i])

\* What was scored is a sequence of cases, each with the score of its two sides.
LEMMA ScoredTyped == ScoreSpec => []ScoreInv
<1>1. ScoreInit => ScoreInv
  BY DEF ScoreInit, ScoreInv
<1>2. ScoreInv /\ [ScoreNext]_scored => ScoreInv'
  <2>1. ASSUME ScoreInv, NEW t \in Truths, NEW p \in Predictions, EvaluateCase(t, p)
        PROVE  ScoreInv'
    <3> DEFINE c == [truth |-> t, prediction |-> p, score |-> CaseScore(t, p)]
    <3>1. scored' = Append(scored, c)
      BY <2>1 DEF EvaluateCase
    <3>2. IsCase(c)
      BY DEF IsCase
    <3> HIDE DEF c
    <3> DEFINE S == {scored[i] : i \in DOMAIN scored} \union {c}
    <3>3. scored \in Seq(S)
      BY <2>1 DEF ScoreInv
    <3>4. PICK n \in Nat : n = Len(scored) /\ DOMAIN scored = 1 .. n
      BY <3>3, LenProperties
    <3>5. /\ scored' \in Seq(S) /\ DOMAIN scored' = 1 .. n + 1
          /\ scored'[n + 1] = c /\ \A i \in 1 .. n : scored'[i] = scored[i]
      BY <3>1, <3>3, <3>4, AppendProperties
    <3>6. \A i \in 1 .. n + 1 : i \in 1 .. n \/ i = n + 1
      OBVIOUS
    <3>7. \A i \in DOMAIN scored' : IsCase(scored'[i])
      BY <2>1, <3>2, <3>4, <3>5, <3>6 DEF ScoreInv
    <3>8. scored' \in Seq({scored'[i] : i \in DOMAIN scored'})
      <4>1. PICK s : s = scored'
        OBVIOUS
      <4>2. s \in [1 .. n + 1 -> {s[i] : i \in DOMAIN s}]
        BY <3>5, <4>1, LenProperties
      <4> QED BY <4>1, <4>2
    <3> QED BY <3>7, <3>8 DEF ScoreInv
  <2>2. ASSUME ScoreInv, UNCHANGED scored PROVE ScoreInv'
    BY <2>2 DEF ScoreInv, IsCase
  <2> QED BY <2>1, <2>2 DEF ScoreNext
<1> QED BY <1>1, <1>2, PTL DEF ScoreSpec

\* "Formatting matches are not extraction errors", "line order is not a match
\* key" and "denominators are counted": for all documents, extractions and lines,
\* a success says what the document says under some pairing of the lines, what
\* says so is a success wherever keys tell its lines apart, only another header
\* field parts a success from an exact match, and over any number of cases
\* nothing is correct that was not compared, or compared that was not expected.
THEOREM ScoresAreExact == ScoreSpec => []ExactIsTheSame
<1>1. ScoreInv => ExactIsTheSame
  <2> SUFFICES ASSUME ScoreInv PROVE ExactIsTheSame
    OBVIOUS
  <2>1. PICK n \in Nat : n = Len(scored) /\ DOMAIN scored = 1 .. n
    BY LenProperties DEF ScoreInv
  <2>2. ASSUME NEW i \in DOMAIN scored
        PROVE  /\ scored[i].truth \in FieldValues /\ scored[i].prediction \in FieldValues
               /\ scored[i].score = CaseScore(scored[i].truth, scored[i].prediction)
    BY ExtractionScoreAssumption DEF ScoreInv, IsCase
  <2>3. ASSUME NEW c \in ToSet(scored)
        PROVE  /\ Success(c.score) => Same(c.truth, c.prediction)
               /\ Same(c.truth, c.prediction) /\ Distinct(c.truth, c.prediction)
                     => Success(c.score)
               /\ ExactMatch(c.score) <=> Success(c.score) /\ NothingMore(c.truth, c.prediction)
    <3>1. PICK i \in DOMAIN scored : c = scored[i]
      BY DEF ToSet
    <3>2. /\ c.truth \in FieldValues /\ c.prediction \in FieldValues
          /\ c.score = CaseScore(c.truth, c.prediction)
      BY <2>2, <3>1
    <3> QED BY <3>2, SuccessIsSame, SameIsSuccess, ExactIsSuccess
  <2>4. ASSUME NEW part \in {"header", "line"}
        PROVE  /\ Total(part, "correct") <= Total(part, "comparable")
               /\ Total(part, "comparable") <= Total(part, "expected")
               /\ Total(part, "correct") = Total(part, "expected") =>
                     \A c \in ToSet(scored) : c.score[part].correct = c.score[part].expected
    <3> DEFINE S == DOMAIN scored
               of(count) == [i \in S |-> scored[i].score[part][count]]
    <3>1. IsFiniteSet(S)
      BY <2>1, FirstPlaces
    <3>2. ASSUME NEW i \in S
          PROVE  /\ scored[i].score[part].correct \in Nat
                 /\ scored[i].score[part].comparable \in Nat
                 /\ scored[i].score[part].expected \in Nat
                 /\ scored[i].score[part].correct <= scored[i].score[part].comparable
                 /\ scored[i].score[part].comparable <= scored[i].score[part].expected
      BY <2>2, CountsAreInOrder
    <3>3. PICK u : u = of("correct")
      OBVIOUS
    <3>4. PICK v : v = of("comparable")
      OBVIOUS
    <3>5. PICK w : w = of("expected")
      OBVIOUS
    <3>6. /\ u \in [S -> Nat] /\ v \in [S -> Nat] /\ w \in [S -> Nat]
          /\ \A i \in S : u[i] <= v[i] /\ v[i] <= w[i] /\ u[i] <= w[i]
      BY <3>2, <3>3, <3>4, <3>5
    <3>7. /\ \A i \in S : u[i] = scored[i].score[part]["correct"]
          /\ \A i \in S : v[i] = scored[i].score[part]["comparable"]
          /\ \A i \in S : w[i] = scored[i].score[part]["expected"]
      BY <3>3, <3>4, <3>5
    <3> HIDE DEF S
    <3>8. /\ CountOver(S, scored, part, "correct") = Sum(S, u)
          /\ CountOver(S, scored, part, "comparable") = Sum(S, v)
          /\ CountOver(S, scored, part, "expected") = Sum(S, w)
      BY <3>1, <3>6, <3>7, CountsAddUp
    <3>9. ASSUME NEW count PROVE Total(part, count) = CountOver(S, scored, part, count)
      BY DEF Total, CountOver, S
    <3>10. /\ Total(part, "correct") = Sum(S, u) /\ Total(part, "comparable") = Sum(S, v)
           /\ Total(part, "expected") = Sum(S, w)
      BY <3>8, <3>9
    <3>11. Sum(S, u) <= Sum(S, v) /\ Sum(S, v) <= Sum(S, w)
      BY <3>1, <3>6, EqualSums
    <3>12. Sum(S, u) = Sum(S, w) => \A i \in S : u[i] = w[i]
      BY <3>1, <3>6, EqualSums
    <3>13. (\A i \in S : u[i] = w[i]) =>
              \A c \in ToSet(scored) : c.score[part].correct = c.score[part].expected
      BY <3>7 DEF ToSet, S
    <3> QED BY <3>10, <3>11, <3>12, <3>13
  <2> QED BY <2>3, <2>4 DEF ExactIsTheSame
<1> QED BY <1>1, ScoredTyped, PTL

=============================================================================
