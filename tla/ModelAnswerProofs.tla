------------------------- MODULE ModelAnswerProofs --------------------------
(***************************************************************************)
(* Theorems about what comes of a model's answers: LlmAssistance, which    *)
(* rates a second reading of a document, PlanContents, which stores and    *)
(* executes a plan, and PolicyLibrary, from which an explanation quotes.   *)
(* Of an answer they assume the types that its schema has, no more.        *)
(*                                                                         *)
(* An answer of the first kind is rated from three things that are         *)
(* compared with each other once, when it arrives: the text, the answer    *)
(* and the reading the request has loaded, which may be replaced by        *)
(* another while the model thinks.                                         *)
(*                                                                         *)
(* An execution of a plan compares the parameters it finds with the hash   *)
(* that the approval left.  The hash is what the approver's session had    *)
(* loaded, and that is what was consented to; neither a replan nor an edit *)
(* touches it.  What the attempts tell of the plans (AttemptsInv) is about *)
(* one commit: the plan, its rows and its attempt, which the next plan     *)
(* leaves as they are.                                                     *)
(*                                                                         *)
(* An ingestion commits its chunks and its fingerprint together, and the   *)
(* unique index on version and position refuses every other one of that    *)
(* version from then on: a source is never empty, so the first position is *)
(* taken.  An explanation holds the evidence it found; what is said of it  *)
(* later is about versions that are on record by then, and a version that  *)
(* is created later has no part in it.                                     *)
(*                                                                         *)
(* PolicyText makes the passages.  Each of its steps, from the lines of a  *)
(* page to blocks, sections, pieces and buckets, keeps the characters that *)
(* are not blank and their order: that is a fact about each fold, by       *)
(* induction over what it has read, and Pieces, which calls itself on what *)
(* it left, is the limit of the functions that cut at most n times.        *)
(***************************************************************************)
EXTENDS LlmAssistance, PlanContents, PolicyLibrary, PolicyText, SequenceTheorems,
        FunctionTheorems, FiniteLemmas

-----------------------------------------------------------------------------
(* Assistance: what the checks of an answer establish.                     *)

IsWritten(a, text) ==
    {v \in {a.number} \union {l.quantity : l \in ToSet(a.lines)} : v # NoValue} \subseteq text

Kept(a, c) ==
    /\ Len(a.lines) = Len(c.lines)
    /\ \A f \in Heads : NoValue \in {a[f], c[f]} \/ a[f] = c[f]
    /\ \A i \in DOMAIN a.lines : \/ NoValue \in {a.lines[i].quantity, c.lines[i].quantity}
                                 \/ a.lines[i].quantity = c.lines[i].quantity

\* A quotation counts only as far as the text has it: what is grounded is written there.
LEMMA GroundedIsWritten ==
    ASSUME NEW a, NEW text, Grounded(a, text)
    PROVE  IsWritten(a.candidate, text)
<1> SUFFICES ASSUME NEW v \in {a.candidate.number}
                              \union {l.quantity : l \in ToSet(a.candidate.lines)},
                    v # NoValue
             PROVE  v \in text
  BY DEF IsWritten
<1>1. <<v, a.claims>> \in Important(a)
  BY DEF Important, ToSet
<1>2. Supported(v, a.claims, text)
  BY <1>1 DEF Grounded, Unfilled
<1> QED  BY <1>2 DEF Supported

\* Without a disagreement no field that both sides fill is told apart.
LEMMA AgreedIsKept ==
    ASSUME NEW a, NEW c, ~Disagree(c, a),
           a.lines \in Seq(ToSet(a.lines)), c.lines \in Seq(ToSet(c.lines))
    PROVE  Kept(a, c)
<1>1. Len(a.lines) = Len(c.lines) /\ DOMAIN a.lines = DOMAIN c.lines
  BY DEF Disagree
<1>2. ASSUME NEW p \in Pairs(c, a), p[1] PROVE NoValue \in {p[2], p[3]} \/ p[2] = p[3]
  BY <1>2 DEF Disagree, Unfilled
<1>3. ASSUME NEW f \in Heads PROVE NoValue \in {a[f], c[f]} \/ a[f] = c[f]
  <2>1. <<TRUE, c[f], a[f]>> \in Pairs(c, a)
    BY DEF Pairs
  <2> QED  BY <1>2, <2>1
<1>4. ASSUME NEW i \in DOMAIN a.lines
      PROVE  \/ NoValue \in {a.lines[i].quantity, c.lines[i].quantity}
             \/ a.lines[i].quantity = c.lines[i].quantity
  <2>1. <<TRUE, c.lines[i].quantity, a.lines[i].quantity>> \in Pairs(c, a)
    BY <1>1 DEF Pairs
  <2> QED  BY <1>2, <2>1
<1> QED  BY <1>1, <1>3, <1>4 DEF Kept

\* A complete answer fills the fields the rules had filled.
LEMMA CompleteIsFilled ==
    ASSUME NEW a, NEW c, ~PartialOverlap(c, a), NEW f \in Heads
    PROVE  (a[f] = NoValue) = (c[f] = NoValue)
<1>1. <<TRUE, c[f], a[f]>> \in Pairs(c, a)
  BY DEF Pairs
<1> QED  BY <1>1 DEF PartialOverlap, Unfilled

\* The row that an answer gets says no more than the checks have shown.
Judged(r, c, text) ==
    r.answer # NoValue =>
        /\ r.priority # "HIGH" => IsWritten(r.answer.candidate, text) /\ Kept(r.answer.candidate, c)
        /\ r.quality = "HIGH" =>
              /\ r.status = "INVOKED" /\ r.priority = "LOW"
              /\ \A l \in ToSet(r.answer.candidate.lines) : l.quantity \in Positive
              /\ \A f \in Heads : (r.answer.candidate[f] = NoValue) = (c[f] = NoValue)

RowOf(a, c, text) ==
    [status |-> Invocation(a, c, text), quality |-> Quality(a, c, text),
     priority |-> PriorityOf(a, c, text), answer |-> a]

LEMMA AnswerIsJudged ==
    ASSUME NEW a \in Answers, NEW x \in Readings, NEW text
    PROVE  Judged(RowOf(a, x.candidate, text), x.candidate, text)
<1> DEFINE c == x.candidate
           r == RowOf(a, c, text)
<1>1. r.status = Invocation(a, c, text) /\ r.quality = Quality(a, c, text)
      /\ r.priority = PriorityOf(a, c, text) /\ r.answer = a
  BY DEF RowOf
<1>2. r.priority # "HIGH" => Grounded(a, text) /\ ~Disagree(c, a.candidate)
  BY <1>1 DEF PriorityOf
<1>3. r.quality = "HIGH" => /\ Grounded(a, text) /\ BusinessValid(a)
                            /\ ~Disagree(c, a.candidate) /\ ~PartialOverlap(c, a.candidate)
  BY <1>1 DEF Quality
<1>4. r.priority # "HIGH" => IsWritten(a.candidate, text) /\ Kept(a.candidate, c)
  BY <1>2, GroundedIsWritten, AgreedIsKept, LlmAssistanceAssumption
<1>5. ASSUME r.quality = "HIGH"
      PROVE  /\ r.status = "INVOKED" /\ r.priority = "LOW"
             /\ \A l \in ToSet(a.candidate.lines) : l.quantity \in Positive
             /\ \A f \in Heads : (a.candidate[f] = NoValue) = (c[f] = NoValue)
  <2>1. r.status = "INVOKED"
    BY <1>1, <1>3, <1>5 DEF Invocation, BusinessValid
  <2>2. r.priority = "LOW"
    BY <1>1, <1>3, <1>5 DEF PriorityOf
  <2>3. \A l \in ToSet(a.candidate.lines) : l.quantity \in Positive
    BY <1>3, <1>5 DEF BusinessValid, HardErrors
  <2>4. \A f \in Heads : (a.candidate[f] = NoValue) = (c[f] = NoValue)
    BY <1>3, <1>5, CompleteIsFilled
  <2> QED  BY <2>1, <2>2, <2>3, <2>4
<1>6. r.answer = a
  BY <1>1
<1> HIDE DEF r, c
<1>7. Judged(r, c, text)
  BY <1>4, <1>5, <1>6 DEF Judged
<1> QED  BY <1>7 DEF r, c

-----------------------------------------------------------------------------
(* Assistance: the inductive invariant.                                    *)

CallOK ==
    /\ call = [phase |-> call.phase, calls |-> call.calls, failed |-> call.failed]
    /\ call.calls \in Nat
    /\ call.phase \in {"idle", "calling", "done"}
    /\ call.phase = "idle" => call.calls = 0 /\ call.failed = {}

AssistInv ==
    /\ m4 \in Readings /\ loaded \in Readings
    /\ CallOK /\ CallsAreBounded
    /\ row # NoAssist => Judged(row, loaded.candidate, corpus)

LEMMA AssistInvInit == AssistInit => AssistInv
BY LlmAssistanceAssumption DEF AssistInit, AssistInv, CallOK, CallsAreBounded, NoCall

\* A request that ends with an error has a row without an answer.
LEMMA AssistInvErrored ==
    ASSUME AssistInv, NEW n \in Nat, NEW code, n <= MaxRetries + 1, Errored(n, code),
           UNCHANGED <<m4, loaded, corpus>>
    PROVE  AssistInv'
<1>1. /\ call' = [phase |-> "done", calls |-> n, failed |-> call.failed \union {code}]
      /\ row' = [status |-> "PROVIDER_ERROR", quality |-> "REVIEW_REQUIRED",
                 priority |-> "HIGH", answer |-> NoValue]
  BY DEF Errored, Persisted, AssistInv, CallOK
<1>2. row' \in AssistRow
  BY <1>1 DEF AssistRow
<1> QED  BY <1>1, <1>2 DEF AssistInv, CallOK, CallsAreBounded, Judged

LEMMA AssistInvStep == AssistInv /\ [AssistNext]_assistVars => AssistInv'
<1> SUFFICES ASSUME AssistInv, [AssistNext]_assistVars PROVE AssistInv'
  OBVIOUS
<1> USE LlmAssistanceAssumption
<1>1. CASE Skip
  <2>1. /\ call' = [phase |-> "done", calls |-> 0, failed |-> {}]
        /\ row' = [status |-> "SKIPPED_M4_SUFFICIENT", quality |-> "HIGH",
                   priority |-> "NONE", answer |-> NoValue]
        /\ UNCHANGED <<m4, loaded, corpus>>
    BY <1>1 DEF Skip, Persisted, AssistInv, CallOK
  <2>2. row' \in AssistRow
    BY <2>1 DEF AssistRow
  <2> QED  BY <2>1, <2>2 DEF AssistInv, CallOK, CallsAreBounded, Judged
<1>2. CASE AskModel
  <2>1. /\ call' = [phase |-> "calling", calls |-> 0, failed |-> {}]
        /\ loaded' = m4 /\ m4' = m4 /\ row' = row /\ row = NoAssist
    BY <1>2 DEF AskModel, AssistInv, CallOK, CallsAreBounded
  <2> QED  BY <2>1 DEF AssistInv, CallOK, CallsAreBounded
<1>3. CASE NoClient
  <2>1. PICK code : Errored(0, code)
    BY <1>3 DEF NoClient
  <2>2. UNCHANGED <<m4, loaded, corpus>>
    BY <1>3 DEF NoClient
  <2> QED  BY <2>1, <2>2, AssistInvErrored
<1>4. ASSUME NEW code \in Transient \union Final, CallFails(code) PROVE AssistInv'
  <2> DEFINE n == call.calls + 1
  <2>1. /\ n \in Nat /\ n <= MaxRetries + 1 /\ row = NoAssist
        /\ call.failed \intersect Final = {} /\ call.phase = "calling"
        /\ UNCHANGED <<m4, loaded, corpus>>
    BY <1>4 DEF CallFails, AssistInv, CallOK, CallsAreBounded
  <2>2. CASE code \in Final \/ LastCall(n)
    <3>1. Errored(n, code)
      BY <1>4, <2>2 DEF CallFails
    <3> QED  BY <2>1, <3>1, AssistInvErrored
  <2>3. CASE ~(code \in Final \/ LastCall(n))
    <3>1. call' = [phase |-> "calling", calls |-> n, failed |-> call.failed \union {code}]
          /\ row' = row
      BY <1>4, <2>1, <2>3 DEF CallFails, AssistInv, CallOK
    <3>2. n <= MaxRetries /\ (call.failed \union {code}) \intersect Final = {}
      BY <2>1, <2>3 DEF LastCall
    <3> HIDE DEF n
    <3> QED  BY <2>1, <3>1, <3>2 DEF AssistInv, CallOK, CallsAreBounded
  <2> QED  BY <2>2, <2>3
<1>5. ASSUME NEW a \in Answers, CallAnswers(a) PROVE AssistInv'
  <2>1. /\ call' = [phase |-> "done", calls |-> call.calls + 1, failed |-> call.failed]
        /\ call.phase = "calling"
        /\ row' = RowOf(a, loaded.candidate, corpus)
        /\ UNCHANGED <<m4, loaded, corpus>>
    BY <1>5 DEF CallAnswers, Persisted, RowOf, AssistInv, CallOK
  <2>2. row' \in AssistRow
    BY <2>1 DEF AssistRow, RowOf, Invocation, Quality, PriorityOf
  <2>3. Judged(row', loaded.candidate, corpus)
    BY <2>1, AnswerIsJudged DEF AssistInv
  <2>4. call.calls + 1 \in Nat /\ call.calls + 1 <= MaxRetries + 1
    BY <2>1 DEF AssistInv, CallOK, CallsAreBounded
  <2> QED  BY <2>1, <2>2, <2>3, <2>4 DEF AssistInv, CallOK, CallsAreBounded, Judged
<1>6. ASSUME NEW x \in Readings, ReadAgain(x) PROVE AssistInv'
  BY <1>6 DEF ReadAgain, AssistInv, CallOK, CallsAreBounded, Judged
<1>7. CASE UNCHANGED assistVars
  BY <1>7 DEF assistVars, AssistInv, CallOK, CallsAreBounded, Judged
<1> QED  BY <1>1, <1>2, <1>3, <1>4, <1>5, <1>6, <1>7 DEF AssistNext

-----------------------------------------------------------------------------
(* Assistance: what follows from it.                                       *)

\* GeminiProvider.generate_structured calls the model at most llm_max_retries + 1 times
\* for one request, does not call it again after an answer of the wrong shape, and the
\* request ends with a row.
THEOREM RetriesAreBounded == AssistSpec => []CallsAreBounded
<1>1. AssistInv => CallsAreBounded
  BY DEF AssistInv
<1> QED  BY <1>1, AssistInvInit, AssistInvStep, PTL DEF AssistSpec

\* Whatever the model answers and quotes, a row of LlmUnderstandingService whose review
\* is not urgent has its numbers and quantities written in the document and contradicts
\* nothing the rules had read; one rated HIGH is also valid and complete.
THEOREM RatingsAreChecked == AssistSpec => []HighIsChecked
<1>1. AssistInv => HighIsChecked
  BY DEF AssistInv, HighIsChecked, Judged, IsWritten, Kept
<1> QED  BY <1>1, AssistInvInit, AssistInvStep, PTL DEF AssistSpec

-----------------------------------------------------------------------------
(* Plans: the inductive invariant.                                         *)

\* The plans are a sequence.
PlanTable == plans \in Seq({plans[p] : p \in DOMAIN plans})

IsSlot(table, p, i) == p \in DOMAIN table /\ i \in DOMAIN table[p]

\* A row has the columns that tell what was approved.
HasColumns(r) == {"type", "hash"} \subseteq DOMAIN r

\* A hash was consented to.
RowsInv ==
    \A p, i : IsSlot(plans, p, i) =>
        /\ HasColumns(plans[p][i])
        /\ plans[p][i].hash # Unset => <<p, i, plans[p][i].hash>> \in consents

SessionsInv ==
    /\ session = [c \in Planners |-> session[c]]
    /\ \A c \in Planners : session[c].op = "approve" => IsSlot(plans, session[c].plan, session[c].row)

\* The record of a handler is of an action, was approved, and is valid.
IsApproved(w) ==
    /\ IsSlot(plans, w.of.plan, w.of.row)
    /\ <<w.of.plan, w.of.row, w.of.parameters>> \in consents
    /\ plans[w.of.plan][w.of.row].type = w.type
    /\ Fits(w.type, w.of.parameters) /\ w.of.parameters.refers # "unknown"

RecordsInv == \A w \in workflow : IsApproved(w)

ContentInv == PlanTable /\ RowsInv /\ SessionsInv /\ RecordsInv

-----------------------------------------------------------------------------
(* Plans: the table.                                                       *)

\* The plans are numbered from one.
LEMMA PlansAreNumbered ==
    ASSUME PlanTable
    PROVE  Len(plans) \in Nat /\ DOMAIN plans = 1..Len(plans)
BY DEF PlanTable

\* A sequence is one of its own elements.
LEMMA OfItsOwn ==
    ASSUME NEW S, NEW s \in Seq(S)
    PROVE  s \in Seq({s[n] : n \in DOMAIN s})
<1>1. Len(s) \in Nat /\ DOMAIN s = 1..Len(s) /\ s \in [1..Len(s) -> {s[n] : n \in DOMAIN s}]
  OBVIOUS
<1> QED  BY <1>1, SeqDef

\* Storing a plan leaves the others as they are.
LEMMA PlanAdded ==
    ASSUME PlanTable, NEW x, plans' = Append(plans, x)
    PROVE  /\ PlanTable'
           /\ DOMAIN plans' = DOMAIN plans \union {Len(plans) + 1}
           /\ \A p \in DOMAIN plans : plans'[p] = plans[p]
           /\ plans'[Len(plans) + 1] = x
<1> DEFINE S == {plans[p] : p \in DOMAIN plans} \union {x}
<1>1. plans \in Seq(S)
  BY PlansAreNumbered DEF PlanTable
<1>2. /\ plans' \in Seq(S) /\ Len(plans') = Len(plans) + 1
      /\ \A p \in 1..Len(plans) : plans'[p] = plans[p]
      /\ plans'[Len(plans) + 1] = x
  BY <1>1, AppendProperties
<1>3. DOMAIN plans' = 1..(Len(plans) + 1)
  BY <1>2
<1>4. PlanTable'
  BY <1>2, OfItsOwn DEF PlanTable
<1>5. DOMAIN plans' = DOMAIN plans \union {Len(plans) + 1}
  BY <1>3, PlansAreNumbered
<1> QED  BY <1>2, <1>4, <1>5, PlansAreNumbered

RowIs(p, i, r) == plans' = [plans EXCEPT ![p] = [plans[p] EXCEPT ![i] = r]]

\* Writing a row leaves the other rows as they are.
LEMMA RowWritten ==
    ASSUME PlanTable, NEW p, NEW i, IsSlot(plans, p, i), NEW r, RowIs(p, i, r)
    PROVE  /\ PlanTable'
           /\ \A q, j : IsSlot(plans', q, j) <=> IsSlot(plans, q, j)
           /\ plans'[p][i] = r
           /\ \A q, j : IsSlot(plans, q, j) /\ (q # p \/ j # i) => plans'[q][j] = plans[q][j]
<1> DEFINE x == [plans[p] EXCEPT ![i] = r]
           S == {plans[q] : q \in DOMAIN plans} \union {x}
<1>1. plans \in Seq(S) /\ p \in 1..Len(plans) /\ x \in S
  BY PlansAreNumbered DEF PlanTable, IsSlot
<1>2. plans' = [plans EXCEPT ![p] = x]
  BY DEF RowIs
<1>3. /\ DOMAIN x = DOMAIN plans[p] /\ x[i] = r
      /\ \A j \in DOMAIN plans[p] : j # i => x[j] = plans[p][j]
  BY DEF IsSlot
<1> HIDE DEF x, S
<1>4. plans' \in Seq(S)
  BY <1>1, <1>2, ExceptSeq
<1>5. PlanTable'
  BY <1>4, OfItsOwn DEF PlanTable
<1>6. /\ DOMAIN plans' = DOMAIN plans /\ plans'[p] = x
      /\ \A q \in DOMAIN plans : q # p => plans'[q] = plans[q]
  BY <1>2 DEF IsSlot
<1>7. ASSUME NEW q, NEW j
      PROVE  /\ IsSlot(plans', q, j) <=> IsSlot(plans, q, j)
             /\ IsSlot(plans, q, j) /\ (q # p \/ j # i) => plans'[q][j] = plans[q][j]
  <2>1. CASE q = p
    BY <1>3, <1>6, <2>1 DEF IsSlot
  <2>2. CASE q # p
    BY <1>6, <2>2 DEF IsSlot
  <2> QED  BY <2>1, <2>2
<1> QED  BY <1>3, <1>5, <1>6, <1>7

-----------------------------------------------------------------------------
(* Plans: the invariant holds at first, and each action keeps it.          *)

LEMMA PlanInvInit == ContentInit => ContentInv
<1> SUFFICES ASSUME ContentInit PROVE ContentInv
  OBVIOUS
<1>1. plans = <<>> /\ DOMAIN plans = {}
  BY DEF ContentInit
<1>2. PlanTable
  BY <1>1, EmptySeq DEF PlanTable
<1>3. RowsInv
  BY <1>1 DEF RowsInv, IsSlot
<1>4. SessionsInv
  BY DEF ContentInit, SessionsInv, Vacant
<1>5. RecordsInv
  BY DEF ContentInit, RecordsInv
<1> QED  BY <1>2, <1>3, <1>4, <1>5 DEF ContentInv

\* A session ends, or holds what is not an approval.
LEMMA SessionsMove ==
    ASSUME SessionsInv, NEW c \in Planners, NEW s,
           session' = [session EXCEPT ![c] = s],
           s.op = "approve" => IsSlot(plans', s.plan, s.row),
           \A p, i : IsSlot(plans, p, i) => IsSlot(plans', p, i)
    PROVE  SessionsInv'
<1>1. session' = [d \in Planners |-> session'[d]]
  BY DEF SessionsInv
<1>2. ASSUME NEW d \in Planners, session'[d].op = "approve"
      PROVE  IsSlot(plans', session'[d].plan, session'[d].row)
  <2>1. CASE d = c
    <3>1. session'[d] = s
      BY <2>1 DEF SessionsInv
    <3> QED  BY <1>2, <3>1 DEF IsSlot
  <2>2. CASE d # c
    <3>1. session'[d] = session[d]
      BY <2>2 DEF SessionsInv
    <3>2. IsSlot(plans, session[d].plan, session[d].row)
      BY <1>2, <3>1 DEF SessionsInv
    <3> QED  BY <3>1, <3>2 DEF IsSlot
  <2> QED  BY <2>1, <2>2
<1> QED  BY <1>1, <1>2 DEF SessionsInv

\* A session asks, is refused or loses: no plan and no consent changes.
LEMMA PlanInvWaits ==
    ASSUME ContentInv, NEW c \in Planners, NEW s,
           session' = [session EXCEPT ![c] = s],
           s.op = "approve" => IsSlot(plans, s.plan, s.row),
           UNCHANGED <<plans, consents, workflow>>
    PROVE  ContentInv'
<1> USE DEF ContentInv
<1>1. PlanTable' /\ RowsInv' /\ RecordsInv'
  BY DEF PlanTable, RowsInv, RecordsInv, IsApproved, IsSlot
<1>2. SessionsInv'
  BY SessionsMove DEF IsSlot
<1> QED  BY <1>1, <1>2

\* A stored plan has no hash.
LEMMA PlanInvPlanStored ==
    ASSUME ContentInv, NEW c \in Planners, NEW reply, PlanStored(c, reply)
    PROVE  ContentInv'
<1> USE DEF ContentInv
<1> DEFINE rows == Ordered(reply.actions)
           x == [n \in DOMAIN rows |-> NewRow(rows[n])]
<1>1. /\ plans' = Append(plans, x) /\ session' = [session EXCEPT ![c] = Vacant]
      /\ UNCHANGED <<consents, workflow>>
  BY DEF PlanStored, Vacated
<1> HIDE DEF rows
<1>2. /\ PlanTable'
      /\ DOMAIN plans' = DOMAIN plans \union {Len(plans) + 1}
      /\ \A p \in DOMAIN plans : plans'[p] = plans[p]
      /\ plans'[Len(plans) + 1] = x
  BY <1>1, PlanAdded
<1>3. \A p, i : IsSlot(plans, p, i) => IsSlot(plans', p, i)
  BY <1>2 DEF IsSlot
<1>4. RowsInv'
  <2> SUFFICES ASSUME NEW p, NEW i, IsSlot(plans', p, i)
               PROVE  /\ HasColumns(plans'[p][i])
                      /\ plans'[p][i].hash # Unset => <<p, i, plans'[p][i].hash>> \in consents
    BY <1>1 DEF RowsInv, IsSlot
  <2>1. CASE p \in DOMAIN plans
    BY <1>2, <2>1 DEF RowsInv, IsSlot
  <2>2. CASE p = Len(plans) + 1
    <3>1. plans'[p][i] = NewRow(rows[i])
      BY <1>2, <2>2 DEF IsSlot
    <3> QED  BY <3>1 DEF NewRow, HasColumns
  <2> QED  BY <1>2, <2>1, <2>2 DEF IsSlot
<1>5. SessionsInv'
  BY <1>1, <1>3, SessionsMove DEF Vacant
<1>6. RecordsInv'
  BY <1>1, <1>2 DEF RecordsInv, IsApproved, IsSlot
<1> QED  BY <1>2, <1>4, <1>5, <1>6

\* A record stays what it is while rows keep their types and consents stand.
LEMMA RecordStays ==
    ASSUME NEW w, IsApproved(w), consents \subseteq consents',
           \A q, j : IsSlot(plans', q, j) <=> IsSlot(plans, q, j),
           \A q, j : IsSlot(plans, q, j) => plans'[q][j].type = plans[q][j].type
    PROVE  IsApproved(w)'
<1> DEFINE p == w.of.plan
           i == w.of.row
<1>1. IsSlot(plans, p, i) /\ plans[p][i].type = w.type
  BY DEF IsApproved
<1> HIDE DEF p, i
<1>2. IsSlot(plans', p, i) /\ plans'[p][i].type = w.type
  BY <1>1
<1> QED  BY <1>2 DEF IsApproved, IsSlot, p, i

\* What is approved is consented to.
LEMMA PlanInvApprove ==
    ASSUME ContentInv, NEW c \in Planners, Approve(c)
    PROVE  ContentInv'
<1> USE DEF ContentInv
<1> DEFINE s == session[c]
           r == [plans[s.plan][s.row] EXCEPT !.status = "APPROVED", !.hash = s.read]
<1>1. /\ s.op = "approve" /\ IsSlot(plans, s.plan, s.row)
      /\ RowIs(s.plan, s.row, r)
      /\ consents' = consents \union {<<s.plan, s.row, s.read>>}
      /\ session' = [session EXCEPT ![c] = Vacant]
      /\ UNCHANGED workflow
  <2>1. s.op = "approve" /\ IsSlot(plans, s.plan, s.row)
    BY DEF Approve, SessionsInv
  <2>2. RowIs(s.plan, s.row, r)
    BY <2>1 DEF Approve, IsSlot, RowIs
  <2> QED  BY <2>1, <2>2 DEF Approve, Vacated
<1>2. r.hash = s.read /\ r.type = plans[s.plan][s.row].type /\ HasColumns(r)
  BY <1>1 DEF RowsInv, HasColumns
<1> HIDE DEF r
<1>3. /\ PlanTable'
      /\ \A q, j : IsSlot(plans', q, j) <=> IsSlot(plans, q, j)
      /\ plans'[s.plan][s.row] = r
      /\ \A q, j : IsSlot(plans, q, j) /\ (q # s.plan \/ j # s.row) => plans'[q][j] = plans[q][j]
  BY <1>1, RowWritten
<1>4. RowsInv'
  BY <1>1, <1>2, <1>3 DEF RowsInv
<1>5. SessionsInv'
  BY <1>1, <1>3, SessionsMove DEF Vacant
<1>6. \A q, j : IsSlot(plans, q, j) => plans'[q][j].type = plans[q][j].type
  BY <1>2, <1>3
<1>7. RecordsInv'
  BY <1>1, <1>3, <1>6, RecordStays DEF RecordsInv
<1> QED  BY <1>3, <1>4, <1>5, <1>7

\* The record of a handler has the type and the parameters of its action.
LEMMA RecordIsOfAction ==
    ASSUME NEW type, NEW of, Fits(type, of.parameters)
    PROVE  RecordOf(type, of).type = type /\ RecordOf(type, of).of = of
BY DEF Fits, RecordOf, RouteToReview, RequestVendorClarification, RequestMissingDocument,
       EscalateToManager

\* An execution writes what was consented to, or nothing.
LEMMA PlanInvExecute ==
    ASSUME ContentInv, NEW p, NEW i, IsSlot(plans, p, i), Execute(p, i)
    PROVE  ContentInv'
<1> USE DEF ContentInv
<1> DEFINE old == plans[p][i]
           of == [plan |-> p, row |-> i, parameters |-> old.parameters]
<1>1. PICK status \in {"COMPLETED", "FAILED"} :
          RowIs(p, i, [old EXCEPT !.status = status])
  BY DEF Execute, IsSlot, RowIs
<1>2. UNCHANGED <<consents, session>>
  BY DEF Execute
<1> DEFINE r == [old EXCEPT !.status = status]
<1>3. /\ r.hash = old.hash /\ r.type = old.type /\ HasColumns(r)
  BY DEF RowsInv, HasColumns
<1> HIDE DEF r
<1>4. /\ PlanTable'
      /\ \A q, j : IsSlot(plans', q, j) <=> IsSlot(plans, q, j)
      /\ plans'[p][i] = r
      /\ \A q, j : IsSlot(plans, q, j) /\ (q # p \/ j # i) => plans'[q][j] = plans[q][j]
  BY <1>1, RowWritten DEF r
<1>5. RowsInv'
  BY <1>2, <1>3, <1>4 DEF RowsInv
<1>6. SessionsInv'
  BY <1>2, <1>4 DEF SessionsInv
<1>7. ASSUME NEW w \in workflow' PROVE IsApproved(w)
  <2>1. CASE w \in workflow
    BY <2>1 DEF RecordsInv
  <2>2. CASE w \notin workflow
    <3>1. /\ Fits(old.type, old.parameters) /\ old.parameters.refers # "unknown"
          /\ w = RecordOf(old.type, of)
      BY <2>2 DEF Execute, Handled, Acceptable
    <3>2. w.type = old.type /\ w.of = of
      BY <3>1, RecordIsOfAction
    <3>3. <<p, i, old.parameters>> \in consents
      BY DEF Execute, MayRun, RowsInv
    <3>4. IsSlot(plans, p, i)
      BY DEF Execute
    <3>5. w.of.plan = p /\ w.of.row = i /\ w.of.parameters = old.parameters
      BY <3>2
    <3> QED  BY <3>1, <3>2, <3>3, <3>4, <3>5 DEF IsApproved
  <2> QED  BY <2>1, <2>2
<1>8. \A q, j : IsSlot(plans, q, j) => plans'[q][j].type = plans[q][j].type
  BY <1>3, <1>4
<1>9. RecordsInv'
  BY <1>2, <1>4, <1>7, <1>8, RecordStays DEF RecordsInv
<1> QED  BY <1>4, <1>5, <1>6, <1>9

\* An edit leaves the hash, and the records, as they are.
LEMMA PlanInvEdit ==
    ASSUME ContentInv, NEW p, NEW i, IsSlot(plans, p, i), NEW v, Edit(p, i, v)
    PROVE  ContentInv'
<1> USE DEF ContentInv
<1> DEFINE r == [plans[p][i] EXCEPT !.parameters = v]
<1>1. /\ RowIs(p, i, r)
      /\ UNCHANGED <<consents, session, workflow>>
  BY DEF Edit, IsSlot, RowIs
<1>2. r.hash = plans[p][i].hash /\ r.type = plans[p][i].type /\ HasColumns(r)
  BY DEF RowsInv, HasColumns
<1> HIDE DEF r
<1>3. /\ PlanTable'
      /\ \A q, j : IsSlot(plans', q, j) <=> IsSlot(plans, q, j)
      /\ plans'[p][i] = r
      /\ \A q, j : IsSlot(plans, q, j) /\ (q # p \/ j # i) => plans'[q][j] = plans[q][j]
  BY <1>1, RowWritten
<1>4. RowsInv'
  BY <1>1, <1>2, <1>3 DEF RowsInv
<1>5. SessionsInv'
  BY <1>1, <1>3 DEF SessionsInv
<1>6. \A q, j : IsSlot(plans, q, j) => plans'[q][j].type = plans[q][j].type
  BY <1>2, <1>3
<1>7. RecordsInv'
  BY <1>1, <1>3, <1>6, RecordStays DEF RecordsInv
<1> QED  BY <1>3, <1>4, <1>5, <1>7

LEMMA PlanInvStep == ContentInv /\ [ContentNext]_contentVars => ContentInv'
<1> SUFFICES ASSUME ContentInv, [ContentNext]_contentVars PROVE ContentInv'
  OBVIOUS
<1>1. ASSUME NEW c \in Planners, NEW forced \in BOOLEAN, AskPlanner(c, forced)
      PROVE  ContentInv'
  <2> DEFINE s == [op |-> "plan", forced |-> forced, seen |-> current]
  <2>1. session' = [session EXCEPT ![c] = s] /\ s.op # "approve"
        /\ UNCHANGED <<plans, consents, workflow>>
    BY <1>1 DEF AskPlanner
  <2> QED  BY <2>1, PlanInvWaits
<1>2. ASSUME NEW c \in Planners, NEW reply, PlanRefused(c, reply) \/ PlanLost(c)
      PROVE  ContentInv'
  <2>1. session' = [session EXCEPT ![c] = Vacant] /\ Vacant.op # "approve"
        /\ UNCHANGED <<plans, consents, workflow>>
    BY <1>2 DEF PlanRefused, PlanLost, Vacated, Vacant
  <2> QED  BY <2>1, PlanInvWaits
<1>3. ASSUME NEW c \in Planners, NEW p, NEW i, IsSlot(plans, p, i), BeginApproval(c, p, i)
      PROVE  ContentInv'
  <2> DEFINE s == [op |-> "approve", plan |-> p, row |-> i, read |-> plans[p][i].parameters]
  <2>1. session' = [session EXCEPT ![c] = s] /\ IsSlot(plans, s.plan, s.row)
        /\ UNCHANGED <<plans, consents, workflow>>
    BY <1>3 DEF BeginApproval
  <2> QED  BY <2>1, PlanInvWaits
<1>4. \A s \in Slots : IsSlot(plans, s[1], s[2])
  BY DEF Slots, IsSlot
<1>5. CASE UNCHANGED contentVars
  BY <1>5 DEF contentVars, ContentInv, PlanTable, RowsInv, SessionsInv, RecordsInv, IsApproved,
              IsSlot
<1> QED  BY <1>1, <1>2, <1>3, <1>4, <1>5, PlanInvPlanStored, PlanInvApprove, PlanInvExecute, PlanInvEdit
         DEF ContentNext

-----------------------------------------------------------------------------
(* Plans: what follows from it.                                            *)

\* However approvals, replans and edits in the database interleave, what a handler
\* of app/resolution/handlers writes carries the type of its action and parameters
\* that a person approved for it.
THEOREM RecordsAreAsApproved == ContentSpec => []ExecutedAsApproved
<1>1. ContentInv => ExecutedAsApproved
  BY DEF ContentInv, RecordsInv, IsApproved, ExecutedAsApproved
<1> QED  BY <1>1, PlanInvInit, PlanInvStep, PTL DEF ContentSpec

-----------------------------------------------------------------------------
(* Plans: the attempts.                                                    *)

\* What the attempts say of the plans, for every attempt, and what a session has read.
AttemptsInv ==
    /\ edits \in Nat
    /\ \A c \in Planners : session[c].op = "approve" => session[c].read \in Parameters
    /\ \A k \in DOMAIN planned :
          /\ planned[k].status = "SUCCEEDED" => planned[k].plan \in DOMAIN plans
          /\ planned[k].status = "FAILED" => planned[k].plan = 0
    /\ AttemptsTellThePlans

\* The planner's order: each action once, by action_order.
LEMMA OrderedActions ==
    ASSUME NEW actions, actions \in Seq(ToSet(actions)), \A a \in ToSet(actions) : a.order \in Int
    PROVE  /\ Len(actions) \in Nat /\ DOMAIN Ordered(actions) = 1 .. Len(actions)
           /\ \A n \in DOMAIN Ordered(actions) : Ordered(actions)[n] \in ToSet(actions)
           /\ \A m, n \in DOMAIN Ordered(actions) :
                 m <= n => Ordered(actions)[m].order <= Ordered(actions)[n].order
<1> DEFINE before(i, j) == \/ actions[i].order < actions[j].order
                           \/ actions[i].order = actions[j].order /\ i <= j
           inOrder(s) == \A m, n \in DOMAIN s : m < n => before(s[m], s[n])
           D == DOMAIN actions
           ranks == CHOOSE s \in SetToSeqs(D) : inOrder(s)
           R == {p \in D \X D : before(p[1], p[2])}
<1>1. PICK k \in Nat : k = Len(actions) /\ D = 1 .. k
  BY LenProperties
<1>2. \A i \in D : actions[i] \in ToSet(actions) /\ actions[i].order \in Int
  BY DEF ToSet
<1>3. IsFiniteSet(D) /\ Cardinality(D) = k
  BY <1>1, FirstPlaces
<1>4. InOrder(D, R)
  <2>1. \A i \in D : i \in Nat
    BY <1>1
  <2> HIDE DEF D
  <2>2. ASSUME NEW x \in D, NEW y \in D, x # y PROVE <<x, y>> \in R \/ <<y, x>> \in R
    BY <1>2, <2>1, <2>2
  <2>3. ASSUME NEW x \in D, NEW y \in D, NEW z \in D, <<x, y>> \in R, <<y, z>> \in R
        PROVE  <<x, z>> \in R
    BY <1>2, <2>1, <2>3
  <2> QED BY <2>2, <2>3 DEF InOrder
<1>5. \E s \in SetToSeqs(D) : inOrder(s)
  <2> HIDE DEF R, D
  <2>1. PICK s : Sorts(s, D, R)
    BY <1>3, <1>4, SortedExists
  <2>2. s \in [1 .. k -> D] /\ DOMAIN s = 1 .. k
    BY <1>3, <2>1 DEF Sorts
  <2>3. ASSUME NEW i \in 1 .. k, NEW j \in 1 .. k, i # j PROVE s[i] # s[j]
    <3>1. i < j \/ j < i
      BY <2>3
    <3> QED BY <2>1, <2>2, <3>1 DEF Sorts
  <2>4. s \in SetToSeqs(D)
    BY <1>3, <2>2, <2>3 DEF SetToSeqs
  <2>5. inOrder(s)
    BY <2>1 DEF Sorts, R
  <2> QED BY <2>4, <2>5
<1>6. ranks \in SetToSeqs(D) /\ inOrder(ranks)
  <2> HIDE DEF D, inOrder
  <2> QED BY <1>5
<1>7. Ordered(actions) = [n \in D |-> actions[ranks[n]]]
  BY DEF Ordered
<1>8. PICK s \in SetToSeqs(D) : s = ranks
  BY <1>6
<1>9. inOrder(s) /\ Ordered(actions) = [n \in D |-> actions[s[n]]]
  BY <1>6, <1>7, <1>8
<1> HIDE DEF ranks
<1>10. DOMAIN s = D /\ \A n \in D : s[n] \in D
  <2> HIDE DEF D
  <2>1. DOMAIN s = 1 .. Cardinality(D) /\ \A n \in DOMAIN s : s[n] \in D
    BY <1>3, EachHasAPlace
  <2> QED BY <1>1, <1>3, <2>1
<1>11. ASSUME NEW m \in D, NEW n \in D, m <= n
       PROVE  Ordered(actions)[m].order <= Ordered(actions)[n].order
  <2>1. CASE m = n
    BY <1>2, <1>9, <1>10, <2>1
  <2>2. CASE m # n
    <3>1. m < n
      BY <1>1, <1>11, <2>2
    <3>2. before(s[m], s[n])
      BY <1>9, <1>10, <3>1
    <3> QED BY <1>2, <1>9, <1>10, <3>2
  <2> QED BY <2>1, <2>2
<1> QED BY <1>1, <1>2, <1>9, <1>10, <1>11

\* What the attempts in a, after e edits, tell of the plans in t.
PlansTold(t, a, e) ==
    \A p \in DOMAIN t :
        /\ Cardinality({k \in DOMAIN a : a[k].plan = p}) = 1
        /\ \A i \in DOMAIN t[p] :
              /\ t[p][i].approval /\ (e = 0 => Acceptable(t[p][i]))
              /\ \A j \in 1 .. i : t[p][j].rank <= t[p][i].rank

AttemptTold(t, b) ==
    /\ b.plan \in 0 .. Len(t)
    /\ b.status = "FAILED" => b.plan = 0
    /\ b.status # "FAILED" => b.plan \in DOMAIN t /\ b.count = Len(t[b.plan])

\* A table of plans in which one row is replaced.
LEMMA RowReplaced ==
    ASSUME NEW t \in Seq(Seq(ContentRow)), NEW p \in DOMAIN t, NEW i \in DOMAIN t[p],
           NEW r \in ContentRow, NEW u, u = [t EXCEPT ![p] = [t[p] EXCEPT ![i] = r]]
    PROVE  /\ u \in Seq(Seq(ContentRow)) /\ Len(u) = Len(t) /\ DOMAIN u = DOMAIN t
           /\ \A q \in DOMAIN t : Len(u[q]) = Len(t[q]) /\ DOMAIN u[q] = DOMAIN t[q]
           /\ u[p][i] = r
           /\ \A q \in DOMAIN t : \A j \in DOMAIN t[q] : q # p \/ j # i => u[q][j] = t[q][j]
<1>1. t[p] \in Seq(ContentRow)
  BY ElementOfSeq, LenProperties
<1>2. PICK x : x = [t[p] EXCEPT ![i] = r]
  OBVIOUS
<1>3. /\ x \in Seq(ContentRow) /\ Len(x) = Len(t[p]) /\ DOMAIN x = DOMAIN t[p]
      /\ x[i] = r /\ \A j \in DOMAIN t[p] : j # i => x[j] = t[p][j]
  BY <1>1, <1>2, ExceptSeq, LenProperties
<1>4. u = [t EXCEPT ![p] = x]
  BY <1>2
<1>5. /\ u \in Seq(Seq(ContentRow)) /\ Len(u) = Len(t) /\ DOMAIN u = DOMAIN t
      /\ u[p] = x /\ \A q \in DOMAIN t : q # p => u[q] = t[q]
  BY <1>3, <1>4, ExceptSeq, LenProperties
<1> QED BY <1>3, <1>5

AttemptsTold(t, a) == \A k \in DOMAIN a : AttemptTold(t, a[k])

\* The row i of plan p becomes r, an acceptable one as long as nobody edits.
RowBecomes(t, p, i, r, u, e, d) ==
    /\ t \in Seq(Seq(ContentRow)) /\ p \in DOMAIN t /\ i \in DOMAIN t[p] /\ r \in ContentRow
    /\ u = [t EXCEPT ![p] = [t[p] EXCEPT ![i] = r]]
    /\ r.rank = t[p][i].rank /\ r.approval = t[p][i].approval
    /\ d = 0 => e = 0 /\ Acceptable(r)

\* A row whose columns but its status, hash and parameters stay tells the same.
LEMMA StillTold ==
    ASSUME NEW t, NEW p, NEW i, NEW r, NEW u, NEW e, NEW d, RowBecomes(t, p, i, r, u, e, d),
           NEW a, PlansTold(t, a, e), AttemptsTold(t, a)
    PROVE  PlansTold(u, a, d) /\ AttemptsTold(u, a)
<1>0. /\ t \in Seq(Seq(ContentRow)) /\ p \in DOMAIN t /\ i \in DOMAIN t[p] /\ r \in ContentRow
      /\ u = [t EXCEPT ![p] = [t[p] EXCEPT ![i] = r]]
      /\ r.rank = t[p][i].rank /\ r.approval = t[p][i].approval
      /\ d = 0 => e = 0 /\ Acceptable(r)
  BY DEF RowBecomes
<1>1. /\ Len(u) = Len(t) /\ DOMAIN u = DOMAIN t
      /\ \A q \in DOMAIN t : Len(u[q]) = Len(t[q]) /\ DOMAIN u[q] = DOMAIN t[q]
      /\ u[p][i] = r
      /\ \A q \in DOMAIN t : \A j \in DOMAIN t[q] : q # p \/ j # i => u[q][j] = t[q][j]
  BY <1>0, RowReplaced
<1>2. ASSUME NEW k \in DOMAIN a PROVE AttemptTold(u, a[k])
  BY <1>1 DEF AttemptTold, AttemptsTold
<1>3. \A q \in DOMAIN t : \A j \in DOMAIN t[q] :
         u[q][j].rank = t[q][j].rank /\ u[q][j].approval = t[q][j].approval
  BY <1>0, <1>1
<1>4. ASSUME d = 0, NEW q \in DOMAIN t, NEW j \in DOMAIN t[q] PROVE Acceptable(u[q][j])
  <2>1. CASE q = p /\ j = i
    BY <1>0, <1>1, <1>4, <2>1
  <2>2. CASE q # p \/ j # i
    <3>1. u[q][j] = t[q][j]
      BY <1>1, <2>2
    <3> QED BY <1>0, <1>4, <3>1 DEF PlansTold
  <2> QED BY <2>1, <2>2
<1>5. ASSUME NEW q \in DOMAIN t
      PROVE  /\ Cardinality({k \in DOMAIN a : a[k].plan = q}) = 1
             /\ \A j \in DOMAIN t[q] :
                  /\ u[q][j].approval
                  /\ \A m \in 1 .. j : u[q][m].rank <= u[q][j].rank
  <2>1. t[q] \in Seq(ContentRow)
    BY <1>0, ElementOfSeq, LenProperties
  <2>2. \A j \in DOMAIN t[q] : \A m \in 1 .. j : m \in DOMAIN t[q]
    BY <2>1, LenProperties
  <2>3. \A j \in DOMAIN t[q] : t[q][j].approval /\ \A m \in 1 .. j : t[q][m].rank <= t[q][j].rank
    BY DEF PlansTold
  <2>4. Cardinality({k \in DOMAIN a : a[k].plan = q}) = 1
    BY DEF PlansTold
  <2> QED BY <1>3, <2>2, <2>3, <2>4
<1>6. \A q \in DOMAIN t : \A j \in DOMAIN t[q] : d = 0 => Acceptable(u[q][j])
  BY <1>4
<1>7. PlansTold(u, a, d)
  <2> SUFFICES ASSUME NEW q \in DOMAIN t
               PROVE  /\ Cardinality({k \in DOMAIN a : a[k].plan = q}) = 1
                      /\ \A j \in DOMAIN t[q] :
                            /\ u[q][j].approval /\ (d = 0 => Acceptable(u[q][j]))
                            /\ \A m \in 1 .. j : u[q][m].rank <= u[q][j].rank
    BY <1>1 DEF PlansTold
  <2> QED BY <1>5, <1>6
<1> QED BY <1>2, <1>7 DEF AttemptsTold

TypedSession(s) == s.op = "approve" => s.read \in Parameters

AttemptsHold ==
    AttemptsInv <=>
        /\ edits \in Nat /\ ContentTypeOK /\ \A c \in Planners : TypedSession(session[c])
        /\ PlansTold(plans, planned, edits)
        /\ \A k \in DOMAIN planned : AttemptTold(plans, planned[k])

\* The invariant, put in terms of the tables.
LEMMA AttemptsInParts == ContentTypeOK => AttemptsHold
<1> SUFFICES ASSUME ContentTypeOK PROVE AttemptsHold
  OBVIOUS
<1>1. \A k \in DOMAIN planned : planned[k] \in PlanningAttempt
  BY ElementOfSeq, LenProperties DEF ContentTypeOK
<1>2. \A k \in DOMAIN planned :
         planned[k].status \in {"SUCCEEDED", "FAILED"} /\ planned[k].plan \in Nat
  BY <1>1 DEF PlanningAttempt
<1>3. Len(plans) \in Nat /\ DOMAIN plans = 1 .. Len(plans)
  BY LenProperties DEF ContentTypeOK
<1>4. PlansTold(plans, planned, edits) <=>
        \A p \in DOMAIN plans :
          /\ Cardinality({k \in DOMAIN planned : planned[k].plan = p}) = 1
          /\ \A i \in DOMAIN plans[p] :
                /\ plans[p][i].approval
                /\ edits = 0 => Acceptable(plans[p][i])
                /\ \A j \in 1 .. i : plans[p][j].rank <= plans[p][i].rank
  BY DEF PlansTold
<1>5. ASSUME NEW k \in DOMAIN planned
      PROVE  AttemptTold(plans, planned[k]) <=>
               /\ planned[k].status = "SUCCEEDED" => planned[k].plan \in DOMAIN plans
               /\ planned[k].status = "FAILED" => planned[k].plan = 0
               /\ IF planned[k].status = "FAILED" THEN planned[k].plan = 0
                  ELSE planned[k].count = Len(plans[planned[k].plan])
  BY <1>2, <1>3, <1>5 DEF AttemptTold
<1> QED BY <1>4, <1>5 DEF AttemptsHold, AttemptsInv, AttemptsTellThePlans, TypedSession

\* At first there is nothing to tell.
LEMMA AttemptsInit == ContentInit => AttemptsInv
<1> SUFFICES ASSUME ContentInit PROVE AttemptsInv
  OBVIOUS
<1>1. plans = <<>> /\ planned = <<>> /\ DOMAIN plans = {} /\ DOMAIN planned = {} /\ Len(plans) = 0
  BY DEF ContentInit
<1>2. ContentTypeOK
  BY <1>1, EmptySeq DEF ContentInit, ContentTypeOK
<1>3. \A c \in Planners : TypedSession(session[c])
  BY DEF ContentInit, Vacant, TypedSession
<1>4. PlansTold(plans, planned, edits) /\ \A k \in DOMAIN planned : AttemptTold(plans, planned[k])
  BY <1>1 DEF PlansTold
<1>5. edits \in Nat
  BY DEF ContentInit
<1> QED BY <1>2, <1>3, <1>4, <1>5, AttemptsInParts DEF AttemptsHold

\* What the invariant says after a step, in parts.
NowTold ==
    /\ edits' \in Nat /\ ContentTypeOK' /\ \A c \in Planners : TypedSession(session'[c])
    /\ PlansTold(plans', planned', edits')
    /\ \A k \in DOMAIN planned' : AttemptTold(plans', planned'[k])

\* What is told of the next state is the invariant there.
LEMMA NowToldHolds == ContentTypeOK' /\ NowTold => AttemptsInv'
<1>1. ContentTypeOK' => AttemptsHold'
  BY AttemptsInParts, PTL
<1> QED BY <1>1 DEF NowTold, AttemptsHold

\* A plan whose actions are all in order and acceptable.
IsPlan(x) ==
    /\ x \in Seq(ContentRow)
    /\ \A i \in DOMAIN x : /\ x[i].approval /\ Acceptable(x[i])
                           /\ \A j \in 1 .. i : x[j].rank <= x[i].rank

\* A new attempt is that of the new plan, or of none.
LEMMA AttemptAdded ==
    ASSUME NEW t \in Seq(Seq(ContentRow)), NEW a \in Seq(PlanningAttempt), NEW e,
           PlansTold(t, a, e), \A k \in DOMAIN a : AttemptTold(t, a[k]),
           NEW b \in PlanningAttempt, NEW u,
           \/ b.status = "FAILED" /\ b.plan = 0 /\ u = t
           \/ /\ b.status = "SUCCEEDED" /\ b.plan = Len(t) + 1
              /\ \E x : u = Append(t, x) /\ IsPlan(x) /\ b.count = Len(x)
    PROVE  /\ PlansTold(u, Append(a, b), e)
           /\ \A k \in DOMAIN Append(a, b) : AttemptTold(u, Append(a, b)[k])
<1>1. PICK n \in Nat : n = Len(t) /\ DOMAIN t = 1 .. n
  BY LenProperties
<1>2. PICK m \in Nat : m = Len(a) /\ DOMAIN a = 1 .. m
  BY LenProperties
<1>3. PICK c : c = Append(a, b)
  OBVIOUS
<1>4. DOMAIN c = 1 .. m + 1 /\ c[m + 1] = b /\ \A k \in 1 .. m : c[k] = a[k]
  BY <1>2, <1>3, AppendProperties
<1>5. \A k \in 1 .. m : a[k].plan \in 0 .. n /\ k \in 1 .. m + 1
  BY <1>1, <1>2 DEF AttemptTold
<1>6. \A k \in 1 .. m + 1 : k \in 1 .. m \/ k = m + 1
  OBVIOUS
<1>7. m + 1 \in 1 .. m + 1 /\ m + 1 \notin 1 .. m
  OBVIOUS
<1>8. CASE b.status = "FAILED" /\ b.plan = 0 /\ u = t
  <2>1. ASSUME NEW p \in 1 .. n
        PROVE  {k \in DOMAIN c : c[k].plan = p} = {k \in DOMAIN a : a[k].plan = p}
    <3>1. p # 0
      OBVIOUS
    <3> QED BY <1>2, <1>4, <1>5, <1>6, <1>8, <3>1
  <2>2. PlansTold(u, c, e)
    BY <1>1, <1>8, <2>1 DEF PlansTold
  <2>3. AttemptTold(u, b)
    BY <1>1, <1>8 DEF AttemptTold
  <2>4. \A k \in DOMAIN c : AttemptTold(u, c[k])
    BY <1>2, <1>4, <1>6, <1>8, <2>3
  <2> QED BY <1>3, <2>2, <2>4
<1>9. CASE /\ b.status = "SUCCEEDED" /\ b.plan = Len(t) + 1
           /\ \E x : u = Append(t, x) /\ IsPlan(x) /\ b.count = Len(x)
  <2>1. PICK x : u = Append(t, x) /\ IsPlan(x) /\ b.count = Len(x)
    BY <1>9
  <2>2. x \in Seq(ContentRow)
    BY <2>1 DEF IsPlan
  <2>3. /\ Len(u) = n + 1 /\ DOMAIN u = 1 .. n + 1 /\ u[n + 1] = x
        /\ \A p \in 1 .. n : u[p] = t[p]
    BY <1>1, <2>1, <2>2, AppendProperties
  <2>4. \A p \in 1 .. n + 1 : p \in 1 .. n \/ p = n + 1
    OBVIOUS
  <2>5. ASSUME NEW p \in 1 .. n
        PROVE  {k \in DOMAIN c : c[k].plan = p} = {k \in DOMAIN a : a[k].plan = p}
    <3>1. b.plan # p
      BY <1>1, <1>9
    <3> QED BY <1>2, <1>4, <1>5, <1>6, <3>1
  <2>6. {k \in DOMAIN c : c[k].plan = n + 1} = {m + 1}
    <3>1. \A k \in 1 .. m : c[k].plan # n + 1
      BY <1>4, <1>5
    <3>2. c[m + 1].plan = n + 1
      BY <1>1, <1>4, <1>9
    <3> QED BY <1>4, <1>6, <1>7, <3>1, <3>2
  <2>7. Cardinality({k \in DOMAIN c : c[k].plan = n + 1}) = 1
    BY <2>6, FS_Singleton
  <2>8. PlansTold(u, c, e)
    <3> SUFFICES ASSUME NEW p \in 1 .. n + 1
                 PROVE  /\ Cardinality({k \in DOMAIN c : c[k].plan = p}) = 1
                        /\ \A i \in DOMAIN u[p] :
                              /\ u[p][i].approval /\ (e = 0 => Acceptable(u[p][i]))
                              /\ \A j \in 1 .. i : u[p][j].rank <= u[p][i].rank
      BY <2>3 DEF PlansTold
    <3>1. CASE p \in 1 .. n
      <4>1. Cardinality({k \in DOMAIN c : c[k].plan = p}) = 1
        BY <1>1, <2>5, <3>1 DEF PlansTold
      <4>2. u[p] = t[p] /\ p \in DOMAIN t
        BY <1>1, <2>3, <3>1
      <4> QED BY <4>1, <4>2 DEF PlansTold
    <3>2. CASE p = n + 1
      BY <2>1, <2>3, <2>7, <3>2 DEF IsPlan
    <3> QED BY <2>4, <3>1, <3>2
  <2>9. AttemptTold(u, b)
    BY <1>1, <1>9, <2>1, <2>3 DEF AttemptTold
  <2>10. ASSUME NEW k \in 1 .. m PROVE AttemptTold(u, a[k])
    <3>1. AttemptTold(t, a[k])
      BY <1>2
    <3>2. \A p \in 0 .. n : p \in 0 .. n + 1
      OBVIOUS
    <3>3. \A p \in 1 .. n : p \in 1 .. n + 1
      OBVIOUS
    <3> QED BY <1>1, <2>3, <3>1, <3>2, <3>3 DEF AttemptTold
  <2>11. \A k \in DOMAIN c : AttemptTold(u, c[k])
    BY <1>4, <1>6, <2>9, <2>10
  <2> QED BY <1>3, <2>8, <2>11
<1> QED BY <1>8, <1>9

\* A session that is replaced by a typed one leaves all typed.
LEMMA SessionsTyped ==
    ASSUME SessionsInv, \A d \in Planners : TypedSession(session[d]), NEW c \in Planners, NEW s,
           session' = [session EXCEPT ![c] = s], TypedSession(s)
    PROVE  \A d \in Planners : TypedSession(session'[d])
<1> SUFFICES ASSUME NEW d \in Planners PROVE TypedSession(session'[d])
  OBVIOUS
<1>1. session'[d] = IF d = c THEN s ELSE session[d]
  BY DEF SessionsInv
<1> QED BY <1>1

\* The parts of the invariant before a step.
Told ==
    /\ edits \in Nat /\ ContentTypeOK /\ \A c \in Planners : TypedSession(session[c])
    /\ PlansTold(plans, planned, edits)
    /\ \A k \in DOMAIN planned : AttemptTold(plans, planned[k])
    /\ SessionsInv

\* The invariant and the types give all that a step needs.
LEMMA ToldHolds == AttemptsInv /\ ContentInv => Told
  BY AttemptsInParts DEF AttemptsInv, AttemptsTellThePlans, AttemptsHold, Told, ContentInv

\* A session asks, is refused or loses.
LEMMA ToldWaits ==
    ASSUME Told, NEW c \in Planners, NEW s, TypedSession(s), session' = [session EXCEPT ![c] = s],
           UNCHANGED <<plans, current, planned, consents, workflow, edits>>
    PROVE  NowTold
<1>1. \A d \in Planners : TypedSession(session'[d])
  BY SessionsTyped DEF Told
<1>2. ContentTypeOK'
  BY DEF Told, ContentTypeOK
<1> QED BY <1>1, <1>2 DEF Told, NowTold

\* A plan is stored with all its actions, in order.
LEMMA ToldPlanStored ==
    ASSUME Told, NEW c \in Planners, NEW reply \in Replies, PlanStored(c, reply)
    PROVE  NowTold
<1> DEFINE actions == reply.actions
           rows == Ordered(actions)
           x == [n \in DOMAIN rows |-> NewRow(rows[n])]
           b == [status |-> "SUCCEEDED", plan |-> Len(plans) + 1, count |-> Len(rows)]
<1>1. /\ actions \in Seq(ToSet(actions))
      /\ \A a \in ToSet(actions) :
            a.type \in STRING /\ a.parameters \in Parameters /\ a.order \in Int
  BY PlanContentsAssumption
<1>2. /\ Valid(reply) /\ plans' = Append(plans, x) /\ current' = Len(plans) + 1
      /\ planned' = Append(planned, b) /\ session' = [session EXCEPT ![c] = Vacant]
      /\ UNCHANGED <<consents, edits, workflow>>
  BY DEF PlanStored, Attempted, Vacated
<1>3. PICK n \in Nat : n = Len(actions)
  BY <1>1, LenProperties
<1>4. /\ DOMAIN rows = 1 .. n /\ \A i \in 1 .. n : rows[i] \in ToSet(actions)
      /\ \A i, j \in 1 .. n : i <= j => rows[i].order <= rows[j].order
  BY <1>1, <1>3, OrderedActions
<1>5. \A a \in ToSet(actions) : Acceptable(a)
  BY <1>2 DEF Valid
<1>6. plans \in Seq(Seq(ContentRow)) /\ planned \in Seq(PlanningAttempt) /\ Len(plans) \in Nat
  BY LenProperties DEF Told, ContentTypeOK
<1> HIDE DEF rows, actions
<1>7. ASSUME NEW a \in ToSet(actions)
      PROVE  NewRow(a) \in ContentRow /\ NewRow(a).approval /\ Acceptable(NewRow(a))
             /\ NewRow(a).rank = a.order
  <2>1. a.type \in STRING /\ a.parameters \in Parameters /\ a.order \in Int
    BY <1>1
  <2>2. NewRow(a) \in ContentRow
    BY <2>1 DEF NewRow, ContentRow
  <2>3. NewRow(a).type = a.type /\ NewRow(a).parameters = a.parameters
    BY DEF NewRow
  <2>4. Acceptable(NewRow(a))
    BY <1>5, <2>3 DEF Acceptable
  <2>5. NewRow(a).approval /\ NewRow(a).rank = a.order
    BY DEF NewRow
  <2> QED BY <2>2, <2>4, <2>5
<1>8. DOMAIN x = 1 .. n /\ \A i \in 1 .. n : x[i] = NewRow(rows[i])
  BY <1>4
<1>9. x \in Seq(ContentRow) /\ Len(x) = n
  <2>1. x \in [1 .. n -> ContentRow]
    BY <1>4, <1>7, <1>8
  <2> HIDE DEF x
  <2> QED BY <2>1
<1>10. Len(rows) = n
  <2>1. rows = [i \in 1 .. n |-> rows[i]]
    <3>1. rows = [i \in DOMAIN rows |-> rows[i]]
      BY DEF rows, Ordered
    <3> QED BY <1>4, <3>1
  <2>2. rows \in [1 .. n -> ToSet(actions)]
    BY <1>4, <2>1
  <2> QED BY <2>2
<1>11. IsPlan(x)
  <2>1. \A i \in 1 .. n : \A j \in 1 .. i : j \in 1 .. n /\ j <= i
    OBVIOUS
  <2>2. \A i \in 1 .. n : x[i].approval /\ Acceptable(x[i]) /\ x[i].rank = rows[i].order
    BY <1>4, <1>7, <1>8
  <2> HIDE DEF x
  <2> QED BY <1>4, <1>8, <1>9, <2>1, <2>2 DEF IsPlan
<1> HIDE DEF x
<1>12. /\ b \in PlanningAttempt /\ b.status = "SUCCEEDED"
       /\ b.plan = Len(plans) + 1 /\ b.count = Len(x)
  BY <1>6, <1>9, <1>10 DEF PlanningAttempt
<1> HIDE DEF b
<1>13. PlansTold(plans', planned', edits')
         /\ \A k \in DOMAIN planned' : AttemptTold(plans', planned'[k])
  <2>1. PICK u : u = Append(plans, x)
    OBVIOUS
  <2>2. PlansTold(u, Append(planned, b), edits)
          /\ \A k \in DOMAIN Append(planned, b) : AttemptTold(u, Append(planned, b)[k])
    BY <1>6, <1>11, <1>12, <2>1, AttemptAdded DEF Told
  <2> QED BY <1>2, <2>1, <2>2
<1>14. ContentTypeOK'
  <2>1. plans' \in Seq(Seq(ContentRow)) /\ Len(plans') = Len(plans) + 1
    BY <1>2, <1>6, <1>9, AppendProperties
  <2>2. planned' \in Seq(PlanningAttempt)
    BY <1>2, <1>6, <1>12, AppendProperties
  <2>3. current' \in 0 .. Len(plans')
    BY <1>2, <1>6, <2>1
  <2> QED BY <1>2, <2>1, <2>2, <2>3 DEF ContentTypeOK, Told
<1>15. \A d \in Planners : TypedSession(session'[d])
  <2>1. TypedSession(Vacant)
    BY DEF Vacant, TypedSession
  <2> QED BY <1>2, <2>1, SessionsTyped DEF Told
<1> QED BY <1>2, <1>13, <1>14, <1>15 DEF NowTold, Told

\* A refusal leaves an attempt without a plan.
LEMMA ToldPlanRefused ==
    ASSUME Told, NEW c \in Planners, NEW reply, PlanRefused(c, reply)
    PROVE  NowTold
<1> DEFINE b == [status |-> "FAILED", plan |-> 0, count |-> 0]
<1>1. /\ planned' = Append(planned, b) /\ session' = [session EXCEPT ![c] = Vacant]
      /\ UNCHANGED <<plans, current, consents, edits, workflow>>
  BY DEF PlanRefused, Attempted, Vacated
<1>2. plans \in Seq(Seq(ContentRow)) /\ planned \in Seq(PlanningAttempt)
  BY DEF Told, ContentTypeOK
<1>3. b \in PlanningAttempt /\ b.status = "FAILED" /\ b.plan = 0
  BY DEF PlanningAttempt
<1> HIDE DEF b
<1>4. PlansTold(plans', planned', edits')
         /\ \A k \in DOMAIN planned' : AttemptTold(plans', planned'[k])
  <2>1. PlansTold(plans, Append(planned, b), edits)
          /\ \A k \in DOMAIN Append(planned, b) : AttemptTold(plans, Append(planned, b)[k])
    BY <1>2, <1>3, AttemptAdded DEF Told
  <2> QED BY <1>1, <2>1
<1>5. ContentTypeOK'
  <2>1. planned' \in Seq(PlanningAttempt)
    BY <1>1, <1>2, <1>3, AppendProperties
  <2> QED BY <1>1, <2>1 DEF ContentTypeOK, Told
<1>6. \A d \in Planners : TypedSession(session'[d])
  <2>1. TypedSession(Vacant)
    BY DEF Vacant, TypedSession
  <2> QED BY <1>1, <2>1, SessionsTyped DEF Told
<1> QED BY <1>1, <1>4, <1>5, <1>6 DEF NowTold, Told

\* A row of a table is one, wherever it stands.
LEMMA RowTyped ==
    ASSUME ContentTypeOK, NEW p \in DOMAIN plans, NEW i \in DOMAIN plans[p]
    PROVE  plans[p][i] \in ContentRow /\ p \in Nat /\ i \in Nat
<1>1. plans[p] \in Seq(ContentRow) /\ p \in Nat
  BY ElementOfSeq, LenProperties DEF ContentTypeOK
<1>2. plans[p][i] \in ContentRow /\ i \in Nat
  BY <1>1, ElementOfSeq, LenProperties
<1> QED BY <1>1, <1>2

\* One row is replaced, and what the plans tell stays.
LEMMA ToldRow ==
    ASSUME Told, NEW p \in DOMAIN plans, NEW i \in DOMAIN plans[p], NEW r \in ContentRow,
           plans' = [plans EXCEPT ![p] = [plans[p] EXCEPT ![i] = r]],
           r.rank = plans[p][i].rank, r.approval = plans[p][i].approval,
           edits' \in Nat, edits' = 0 => edits = 0 /\ Acceptable(r), UNCHANGED planned
    PROVE  /\ plans' \in Seq(Seq(ContentRow)) /\ Len(plans') = Len(plans)
           /\ PlansTold(plans', planned', edits')
           /\ \A k \in DOMAIN planned' : AttemptTold(plans', planned'[k])
<1>1. PICK u : u = plans'
  OBVIOUS
<1>2. PICK d : d = edits'
  OBVIOUS
<1>3. plans \in Seq(Seq(ContentRow)) /\ u = [plans EXCEPT ![p] = [plans[p] EXCEPT ![i] = r]]
  BY <1>1 DEF Told, ContentTypeOK
<1>4. u \in Seq(Seq(ContentRow)) /\ Len(u) = Len(plans)
  BY <1>3, RowReplaced
<1>5. PlansTold(u, planned, d) /\ \A k \in DOMAIN planned : AttemptTold(u, planned[k])
  <2>1. RowBecomes(plans, p, i, r, u, edits, d)
    BY <1>2, <1>3 DEF RowBecomes
  <2>2. PlansTold(plans, planned, edits) /\ AttemptsTold(plans, planned)
    BY DEF Told, AttemptsTold
  <2> QED BY <2>1, <2>2, StillTold DEF AttemptsTold
<1> QED BY <1>1, <1>2, <1>4, <1>5

\* An approval leaves what the attempts tell.
LEMMA ToldApprove ==
    ASSUME Told, NEW c \in Planners, Approve(c)
    PROVE  NowTold
<1>1. PICK s : s = session[c]
  OBVIOUS
<1>2. s.op = "approve" /\ IsSlot(plans, s.plan, s.row) /\ s.read \in Parameters
  BY <1>1 DEF Approve, Told, SessionsInv, TypedSession
<1>3. PICK p \in DOMAIN plans : p = s.plan
  BY <1>2 DEF IsSlot
<1>4. PICK i \in DOMAIN plans[p] : i = s.row
  BY <1>2, <1>3 DEF IsSlot
<1>5. plans[p][i] \in ContentRow /\ p \in Nat /\ i \in Nat
  BY RowTyped DEF Told
<1>6. PICK r : r = [plans[p][i] EXCEPT !.status = "APPROVED", !.hash = s.read]
  OBVIOUS
<1>7. /\ r \in ContentRow /\ r.rank = plans[p][i].rank /\ r.approval = plans[p][i].approval
      /\ r.type = plans[p][i].type /\ r.parameters = plans[p][i].parameters
  BY <1>2, <1>5, <1>6 DEF ContentRow
<1>8. /\ consents' = consents \union {<<p, i, s.read>>}
      /\ session' = [session EXCEPT ![c] = Vacant]
      /\ UNCHANGED <<current, planned, edits, workflow>>
  BY <1>1, <1>3, <1>4 DEF Approve, Vacated
<1>9. plans' = [plans EXCEPT ![p] = [plans[p] EXCEPT ![i] = r]]
  BY <1>1, <1>3, <1>4, <1>6 DEF Approve
<1>10. edits' \in Nat /\ (edits' = 0 => edits = 0 /\ Acceptable(r))
  <2>1. edits = 0 => Acceptable(plans[p][i])
    BY DEF Told, PlansTold
  <2> QED BY <1>7, <1>8, <2>1 DEF Told, Acceptable
<1>11. /\ plans' \in Seq(Seq(ContentRow)) /\ Len(plans') = Len(plans)
       /\ PlansTold(plans', planned', edits')
       /\ \A k \in DOMAIN planned' : AttemptTold(plans', planned'[k])
  BY <1>7, <1>8, <1>9, <1>10, ToldRow
<1>12. \A d \in Planners : TypedSession(session'[d])
  <2>1. TypedSession(Vacant)
    BY DEF Vacant, TypedSession
  <2> QED BY <1>8, <2>1, SessionsTyped DEF Told
<1>13. ContentTypeOK'
  <2>1. consents' \subseteq Nat \X Nat \X Parameters
    <3>1. <<p, i, s.read>> \in Nat \X Nat \X Parameters
      BY <1>2, <1>5
    <3> QED BY <1>8, <3>1 DEF Told, ContentTypeOK
  <2> QED BY <1>8, <1>11, <2>1 DEF Told, ContentTypeOK
<1> QED BY <1>10, <1>11, <1>12, <1>13 DEF NowTold

\* An execution changes a status and leaves what the attempts tell.
LEMMA ToldExecute ==
    ASSUME Told, NEW p \in DOMAIN plans, NEW i \in DOMAIN plans[p], Execute(p, i)
    PROVE  NowTold
<1>1. plans[p][i] \in ContentRow /\ p \in Nat /\ i \in Nat
  BY RowTyped DEF Told
<1>2. PICK status \in {"COMPLETED", "FAILED"} : plans' = [plans EXCEPT ![p][i].status = status]
  BY DEF Execute
<1>3. PICK r : r = [plans[p][i] EXCEPT !.status = status]
  OBVIOUS
<1>4. /\ r \in ContentRow /\ r.rank = plans[p][i].rank /\ r.approval = plans[p][i].approval
      /\ r.type = plans[p][i].type /\ r.parameters = plans[p][i].parameters
  BY <1>1, <1>3 DEF ContentRow
<1>5. plans' = [plans EXCEPT ![p] = [plans[p] EXCEPT ![i] = r]]
  BY <1>2, <1>3
<1>6. UNCHANGED <<current, planned, consents, session, edits>>
  BY DEF Execute
<1>7. edits' \in Nat /\ (edits' = 0 => edits = 0 /\ Acceptable(r))
  <2>1. edits = 0 => Acceptable(plans[p][i])
    BY DEF Told, PlansTold
  <2> QED BY <1>4, <1>6, <2>1 DEF Told, Acceptable
<1>8. /\ plans' \in Seq(Seq(ContentRow)) /\ Len(plans') = Len(plans)
      /\ PlansTold(plans', planned', edits')
      /\ \A k \in DOMAIN planned' : AttemptTold(plans', planned'[k])
  BY <1>4, <1>5, <1>6, <1>7, ToldRow
<1> DEFINE tables == ExceptionReviewRoute \union VendorClarificationRequest
                       \union MissingDocumentRequest \union ManagerEscalation
<1>9. workflow' \subseteq tables
  <2>1. workflow \subseteq tables
    BY DEF Told, ContentTypeOK
  <2>2. CASE UNCHANGED workflow
    BY <2>1, <2>2
  <2>3. CASE workflow' # workflow
    <3> DEFINE of == [plan |-> p, row |-> i, parameters |-> plans[p][i].parameters]
    <3>1. /\ Acceptable(plans[p][i])
          /\ workflow' = workflow \union {RecordOf(plans[p][i].type, of)}
      BY <2>3 DEF Execute, Handled
    <3>2. of \in Recorded
      BY <1>1 DEF Recorded, ContentRow
    <3>3. plans[p][i].type \in {"ROUTE_TO_REVIEW", "REQUEST_VENDOR_CLARIFICATION",
                                "REQUEST_MISSING_DOCUMENT", "ESCALATE_TO_MANAGER"}
      BY <3>1 DEF Acceptable, Fits
    <3> HIDE DEF of
    <3>4. RouteToReview(of) \in ExceptionReviewRoute
      BY <3>2 DEF RouteToReview, ExceptionReviewRoute
    <3>5. RequestVendorClarification(of) \in VendorClarificationRequest
      BY <3>2 DEF RequestVendorClarification, VendorClarificationRequest
    <3>6. RequestMissingDocument(of) \in MissingDocumentRequest
      BY <3>2 DEF RequestMissingDocument, MissingDocumentRequest
    <3>7. EscalateToManager(of) \in ManagerEscalation
      BY <3>2 DEF EscalateToManager, ManagerEscalation
    <3>8. RecordOf(plans[p][i].type, of) \in tables
      BY <3>3, <3>4, <3>5, <3>6, <3>7 DEF RecordOf
    <3> QED BY <2>1, <3>1, <3>8
  <2> QED BY <2>2, <2>3
<1>10. ContentTypeOK'
  BY <1>6, <1>8, <1>9 DEF Told, ContentTypeOK
<1> QED BY <1>6, <1>7, <1>8, <1>10 DEF NowTold, Told

\* An edit is told by the edits.
LEMMA ToldEdit ==
    ASSUME Told, NEW p \in DOMAIN plans, NEW i \in DOMAIN plans[p], NEW v \in Parameters,
           Edit(p, i, v)
    PROVE  NowTold
<1>1. plans[p][i] \in ContentRow
  BY RowTyped DEF Told
<1>2. PICK r : r = [plans[p][i] EXCEPT !.parameters = v]
  OBVIOUS
<1>3. r \in ContentRow /\ r.rank = plans[p][i].rank /\ r.approval = plans[p][i].approval
  BY <1>1, <1>2 DEF ContentRow
<1>4. plans' = [plans EXCEPT ![p] = [plans[p] EXCEPT ![i] = r]]
  BY <1>2 DEF Edit
<1>5. /\ edits' = edits + 1 /\ edits \in Nat
      /\ UNCHANGED <<current, planned, consents, session, workflow>>
  BY DEF Edit, Told
<1>6. edits' \in Nat /\ edits' # 0
  BY <1>5
<1>7. /\ plans' \in Seq(Seq(ContentRow)) /\ Len(plans') = Len(plans)
      /\ PlansTold(plans', planned', edits')
      /\ \A k \in DOMAIN planned' : AttemptTold(plans', planned'[k])
  BY <1>3, <1>4, <1>5, <1>6, ToldRow
<1>8. ContentTypeOK'
  BY <1>5, <1>7 DEF Told, ContentTypeOK
<1> QED BY <1>5, <1>6, <1>7, <1>8 DEF NowTold, Told

\* Every step keeps it.
LEMMA AttemptsStep == AttemptsInv /\ ContentInv /\ [ContentNext]_contentVars => AttemptsInv'
<1> SUFFICES ASSUME AttemptsInv, ContentInv, [ContentNext]_contentVars PROVE NowTold
  BY NowToldHolds DEF NowTold
<1>1. Told
  BY ToldHolds
<1>2. ASSUME NEW c \in Planners, NEW forced \in BOOLEAN, AskPlanner(c, forced) PROVE NowTold
  <2>1. TypedSession([op |-> "plan", forced |-> forced, seen |-> current])
    BY DEF TypedSession
  <2> QED BY <1>1, <1>2, <2>1, ToldWaits DEF AskPlanner
<1>3. ASSUME NEW c \in Planners, NEW reply \in Replies, PlanStored(c, reply) PROVE NowTold
  BY <1>1, <1>3, ToldPlanStored
<1>4. ASSUME NEW c \in Planners, NEW reply \in Replies, PlanRefused(c, reply) PROVE NowTold
  BY <1>1, <1>4, ToldPlanRefused
<1>5. ASSUME NEW c \in Planners, PlanLost(c) PROVE NowTold
  <2>1. TypedSession(Vacant)
    BY DEF Vacant, TypedSession
  <2> QED BY <1>1, <1>5, <2>1, ToldWaits DEF PlanLost, Vacated
<1>6. ASSUME NEW c \in Planners, Approve(c) PROVE NowTold
  BY <1>1, <1>6, ToldApprove
<1>7. \A s \in Slots : s[1] \in DOMAIN plans /\ s[2] \in DOMAIN plans[s[1]]
  BY DEF Slots
<1>8. ASSUME NEW c \in Planners, NEW s \in Slots, BeginApproval(c, s[1], s[2]) PROVE NowTold
  <2>1. plans[s[1]][s[2]] \in ContentRow
    BY <1>1, <1>7, RowTyped DEF Told
  <2>2. plans[s[1]][s[2]].parameters \in Parameters
    BY <2>1 DEF ContentRow
  <2>3. TypedSession([op |-> "approve", plan |-> s[1], row |-> s[2],
                      read |-> plans[s[1]][s[2]].parameters])
    BY <2>2 DEF TypedSession
  <2> QED BY <1>1, <1>8, <2>3, ToldWaits DEF BeginApproval
<1>9. ASSUME NEW s \in Slots, Execute(s[1], s[2]) PROVE NowTold
  BY <1>1, <1>7, <1>9, ToldExecute
<1>10. ASSUME NEW s \in Slots, NEW v \in Parameters, Edit(s[1], s[2], v) PROVE NowTold
  BY <1>1, <1>7, <1>10, ToldEdit
<1>11. CASE UNCHANGED contentVars
  BY <1>1, <1>11 DEF contentVars, Told, NowTold, ContentTypeOK
<1> QED BY <1>2, <1>3, <1>4, <1>5, <1>6, <1>8, <1>9, <1>10, <1>11 DEF ContentNext

\* "Entire plan + actions or nothing": for every number of planners, attempts,
\* answers and edits, a stored plan is of one attempt that succeeded and has the
\* actions it counted, in the planner's order and none exempt from approval, and
\* before any edit each has parameters of the schema of its type; what a failed
\* attempt leaves is its own record and nothing else.
THEOREM AttemptsAreTold == ContentSpec => []AttemptsTellThePlans
<1>1. AttemptsInv => AttemptsTellThePlans
  BY DEF AttemptsInv
<1> QED BY <1>1, PlanInvInit, PlanInvStep, AttemptsInit, AttemptsStep, PTL DEF ContentSpec

-----------------------------------------------------------------------------
(* The policy library: the inductive invariant.                            *)

IsVersion(id) == \E v \in versions : v.id = id

\* Versions are numbered as they come.
VersionsInv ==
    /\ IsFiniteSet(versions)
    /\ versions \subseteq PolicyVersion
    /\ \A v \in versions : v.id \in 1..Cardinality(versions)
    /\ \A v, w \in versions : v.id = w.id => v = w

\* A chunk has a position of its own in a version that is there.
ChunksInv ==
    /\ \A c \in chunks : c \in PolicyChunk /\ IsVersion(c.version)
    /\ \A c, d \in chunks : c.version = d.version /\ c.index = d.index => c = d

\* Evidence is near enough, of versions on record, with vectors of one model, and rests
\* on no two active versions of one policy.
IsEvidence(evidence) ==
    /\ evidence # {} /\ evidence \subseteq PolicyChunk
    /\ \A c \in evidence : IsVersion(c.version)
    /\ ~Conflicting(evidence)
    /\ \E m \in Models : \A c \in evidence : c.vector = m
    /\ \A c \in evidence : Distance[c.content] <= MaxDistance

Ingesting == [pc : {"ingest"}, version : 1..MaxVersions, source : DOMAIN Sources]
Embedding == [pc : {"embed"}, version : 1..MaxVersions, model : Models, left : SUBSET Nat]
Explaining == [pc : {"explain"}, evidence : SUBSET PolicyChunk]

ReadersInv ==
    /\ reader \in [Readers -> {Absent} \union Ingesting \union Embedding \union Explaining]
    /\ \A r \in Readers, id \in 1..MaxVersions :
          reader[r].pc = "ingest" /\ reader[r].version = id => IsVersion(id)
    /\ \A r \in Readers, e \in SUBSET PolicyChunk :
          reader[r].pc = "explain" /\ reader[r].evidence = e => IsEvidence(e)

\* What was ingested is there, once.
IsWhole(a) ==
    /\ a.source \in DOMAIN Sources
    /\ \E v \in versions : v.id = a.version /\ v.hash = a.source
    /\ \A c \in Parsed(a.version, a.source) :
          \E d \in chunks : d.version = c.version /\ d.index = c.index /\ d.content = c.content

IngestedInv ==
    /\ \A a \in ingested : IsWhole(a) /\ a = [version |-> a.version, source |-> a.source]
    /\ \A a, b \in ingested : a.version = b.version => a = b

ResultsInv ==
    \A g \in results :
        /\ g.status \in Statuses
        /\ g.cited \subseteq ChunkId /\ g.retrieved \subseteq PolicyChunk
        /\ g.status = "SUPPORTED" =>
              g.cited # {} /\ g.cited \subseteq ChunkIds(g.retrieved) /\ IsEvidence(g.retrieved)

PolicyInv ==
    /\ VersionsInv /\ ChunksInv /\ ReadersInv /\ IngestedInv /\ ResultsInv
    /\ reads \in 0..MaxReads

-----------------------------------------------------------------------------
(* What stays when versions come and change their fingerprint.             *)

Alike(v, w) == v.id = w.id /\ v.policy = w.policy /\ v.status = w.status

VersionsKept ==
    /\ \A v \in versions : \E w \in versions' : Alike(v, w)
    /\ \A w \in versions' : IsVersion(w.id) => \E v \in versions : Alike(v, w)

LEMMA VersionStays ==
    ASSUME VersionsKept, NEW id, IsVersion(id)
    PROVE  IsVersion(id)'
BY DEF VersionsKept, IsVersion, Alike

LEMMA EvidenceStays ==
    ASSUME VersionsInv', VersionsKept, NEW e, IsEvidence(e)
    PROVE  IsEvidence(e)'
<1>1. \A c \in e : IsVersion(c.version)'
  BY VersionStays DEF IsEvidence
<1>2. ASSUME Conflicting(e)' PROVE FALSE
  <2>1. PICK x \in versions', y \in versions' :
            /\ x # y /\ x.policy = y.policy
            /\ x.status = "ACTIVE" /\ y.status = "ACTIVE"
            /\ {x.id, y.id} \subseteq {c.version : c \in e}
    BY <1>2 DEF Conflicting
  <2>2. IsVersion(x.id) /\ IsVersion(y.id)
    BY <2>1 DEF IsEvidence
  <2>3. PICK v \in versions : Alike(v, x)
    BY <2>2 DEF VersionsKept
  <2>4. PICK w \in versions : Alike(w, y)
    BY <2>2 DEF VersionsKept
  <2>5. v # w
    BY <2>1, <2>3, <2>4 DEF VersionsInv, Alike
  <2>6. Conflicting(e)
    BY <2>1, <2>3, <2>4, <2>5 DEF Conflicting, Alike
  <2> QED  BY <2>6 DEF IsEvidence
<1> QED  BY <1>1, <1>2 DEF IsEvidence

LEMMA ResultsStay ==
    ASSUME VersionsInv', VersionsKept, ResultsInv, results' = results
    PROVE  ResultsInv'
BY EvidenceStays DEF ResultsInv

\* A result that is put on record.
LEMMA ResultIsSound ==
    ASSUME VersionsInv', VersionsKept, ResultsInv, NEW status \in Statuses,
           NEW cited \in SUBSET ChunkId, NEW retrieved \in SUBSET PolicyChunk,
           status = "SUPPORTED" =>
              cited # {} /\ cited \subseteq ChunkIds(retrieved) /\ IsEvidence(retrieved),
           Persist(status, cited, retrieved)
    PROVE  ResultsInv'
<1> DEFINE g == [status |-> status, cited |-> cited, retrieved |-> retrieved]
<1>1. results' = results \union {g}
  BY DEF Persist
<1>2. ASSUME NEW h \in results', h.status = "SUPPORTED"
      PROVE  h.cited # {} /\ h.cited \subseteq ChunkIds(h.retrieved) /\ IsEvidence(h.retrieved)'
  <2>1. CASE h \in results
    BY <1>2, <2>1, EvidenceStays DEF ResultsInv
  <2>2. CASE h = g
    BY <1>2, <2>2, EvidenceStays
  <2> QED  BY <1>1, <2>1, <2>2
<1> QED  BY <1>1, <1>2 DEF ResultsInv

\* A request that goes on with what it is about.
LEMMA ReaderMoves ==
    ASSUME VersionsInv', VersionsKept, ReadersInv, NEW r \in Readers,
           NEW state \in {Absent} \union Ingesting \union Embedding \union Explaining,
           state.pc = "ingest" => IsVersion(state.version)',
           state.pc = "explain" => IsEvidence(state.evidence)',
           Does(r, state)
    PROVE  ReadersInv'
<1>1. /\ reader' \in [Readers -> {Absent} \union Ingesting \union Embedding \union Explaining]
      /\ reader'[r] = state
      /\ \A q \in Readers : q # r => reader'[q] = reader[q]
  BY DEF Does, ReadersInv
<1>2. ASSUME NEW q \in Readers, NEW id \in 1..MaxVersions,
             reader'[q].pc = "ingest", reader'[q].version = id
      PROVE  IsVersion(id)'
  <2>1. CASE q = r
    BY <1>1, <1>2, <2>1
  <2>2. CASE q # r
    BY <1>1, <1>2, <2>2, VersionStays DEF ReadersInv
  <2> QED  BY <2>1, <2>2
<1>3. ASSUME NEW q \in Readers, NEW e \in SUBSET PolicyChunk,
             reader'[q].pc = "explain", reader'[q].evidence = e
      PROVE  IsEvidence(e)'
  <2>1. CASE q = r
    BY <1>1, <1>3, <2>1
  <2>2. CASE q # r
    BY <1>1, <1>3, <2>2, EvidenceStays DEF ReadersInv
  <2> QED  BY <2>1, <2>2
<1> QED  BY <1>1, <1>2, <1>3 DEF ReadersInv

-----------------------------------------------------------------------------
(* The invariant holds at first, and each action keeps it.                 *)

LEMMA InvInit == PolicyInit => PolicyInv
<1> SUFFICES ASSUME PolicyInit PROVE PolicyInv
  OBVIOUS
<1> USE DEF PolicyInit
<1>1. VersionsInv
  BY FS_EmptySet DEF VersionsInv
<1>2. ReadersInv
  BY DEF ReadersInv, Absent
<1>3. ChunksInv /\ IngestedInv /\ ResultsInv
  BY DEF ChunksInv, IngestedInv, ResultsInv
<1>4. reads \in 0..MaxReads
  BY PolicyAssumption
<1> QED  BY <1>1, <1>2, <1>3, <1>4 DEF PolicyInv

\* Versions that are as they were are kept.
LEMMA SameVersions ==
    ASSUME VersionsInv, versions' = versions
    PROVE  VersionsInv' /\ VersionsKept
BY DEF VersionsInv, VersionsKept, Alike, IsVersion

\* A new version has a number that no version has.
LEMMA InvCreateVersion ==
    ASSUME PolicyInv, NEW policy \in Policies, NEW label \in Labels, NEW status \in VersionStatuses,
           NEW hash \in DOMAIN Sources \union {NoSource}, CreateVersion(policy, label, status, hash)
    PROVE  PolicyInv'
<1> USE DEF PolicyInv
<1> DEFINE n == Cardinality(versions) + 1
           new == [id |-> n, policy |-> policy, label |-> label, status |-> status, hash |-> hash]
<1>1. /\ Cardinality(versions) < MaxVersions /\ versions' = versions \union {new}
      /\ UNCHANGED <<chunks, reader, ingested, results, reads>>
  BY DEF CreateVersion
<1>2. Cardinality(versions) \in Nat /\ IsFiniteSet(versions)
  BY FS_CardinalityType DEF VersionsInv
<1>3. \A v \in versions : v.id \in 1..Cardinality(versions) /\ v.id # n
  BY <1>2 DEF VersionsInv
<1>4. new \notin versions /\ new.id = n
  BY <1>3
<1>5. IsFiniteSet(versions') /\ Cardinality(versions') = n
  BY <1>1, <1>2, <1>4, FS_AddElement
<1>6. new \in PolicyVersion
  BY <1>1, <1>2, PolicyAssumption DEF PolicyVersion
<1>7. \A v \in versions' : v.id \in 1..n
  BY <1>1, <1>2, <1>3, <1>4
<1>8. VersionsInv'
  BY <1>1, <1>3, <1>4, <1>5, <1>6, <1>7 DEF VersionsInv
<1>9. VersionsKept
  BY <1>1, <1>3, <1>4 DEF VersionsKept, Alike, IsVersion
<1>10. ChunksInv'
  BY <1>1, <1>9, VersionStays DEF ChunksInv
<1>11. ReadersInv'
  BY <1>1, <1>8, <1>9, VersionStays, EvidenceStays DEF ReadersInv
<1>12. IngestedInv'
  BY <1>1 DEF IngestedInv, IsWhole
<1>13. ResultsInv'
  BY <1>1, <1>8, <1>9, ResultsStay
<1> QED  BY <1>1, <1>8, <1>10, <1>11, <1>12, <1>13

\* A chunk is added at a free position: nothing that was ingested changes.
LEMMA InvAddChunk ==
    ASSUME PolicyInv, NEW v \in versions, NEW index \in 0..1, NEW content \in Passages,
           AddChunk(v.id, index, content)
    PROVE  PolicyInv'
<1> USE DEF PolicyInv
<1> DEFINE new == [version |-> v.id, index |-> index, content |-> content, vector |-> NoModel]
<1>1. /\ chunks' = chunks \union {new}
      /\ \A c \in chunks : ~(c.version = v.id /\ c.index = index)
      /\ UNCHANGED <<versions, reader, ingested, results, reads>>
  BY DEF AddChunk, IndexTaken, ChunksOf
<1>2. VersionsInv' /\ VersionsKept
  BY <1>1, SameVersions
<1>3. new \in PolicyChunk /\ IsVersion(v.id)
  BY DEF PolicyChunk, VersionsInv, PolicyVersion, IsVersion
<1>4. ChunksInv'
  BY <1>1, <1>3 DEF ChunksInv, IsVersion
<1>5. ReadersInv'
  BY <1>1, <1>2, VersionStays, EvidenceStays DEF ReadersInv
<1>6. IngestedInv'
  BY <1>1 DEF IngestedInv, IsWhole
<1>7. ResultsInv'
  BY <1>1, <1>2, ResultsStay
<1> QED  BY <1>1, <1>2, <1>4, <1>5, <1>6, <1>7

\* A request that begins, or ends without a trace.
LEMMA InvRequest ==
    ASSUME PolicyInv, NEW r \in Readers,
           NEW state \in {Absent} \union Ingesting \union Embedding \union Explaining,
           state.pc = "ingest" => IsVersion(state.version),
           state.pc = "explain" => IsEvidence(state.evidence),
           Does(r, state), reads' \in 0..MaxReads,
           UNCHANGED <<versions, chunks, ingested, results>>
    PROVE  PolicyInv'
<1> USE DEF PolicyInv
<1>1. VersionsInv' /\ VersionsKept
  BY SameVersions
<1>2. ReadersInv'
  <2>1. state.pc = "ingest" => IsVersion(state.version)'
    BY <1>1, VersionStays
  <2>2. state.pc = "explain" => IsEvidence(state.evidence)'
    BY <1>1, EvidenceStays
  <2> QED  BY <1>1, <2>1, <2>2, ReaderMoves
<1>3. ChunksInv' /\ IngestedInv'
  BY DEF ChunksInv, IngestedInv, IsWhole, IsVersion
<1>4. ResultsInv'
  BY <1>1, ResultsStay
<1> QED  BY <1>1, <1>2, <1>3, <1>4

LEMMA CountsReads ==
    ASSUME PolicyInv, NEW r \in Readers, Starts(r)
    PROVE  reads' \in 0..MaxReads
BY PolicyAssumption DEF PolicyInv, Starts

LEMMA InvBeginIngest ==
    ASSUME PolicyInv, NEW r \in Readers, NEW v \in versions, NEW s \in DOMAIN Sources,
           BeginIngest(r, v.id, s)
    PROVE  PolicyInv'
<1> DEFINE state == [pc |-> "ingest", version |-> v.id, source |-> s]
<1>1. state \in Ingesting /\ IsVersion(state.version) /\ state.pc = "ingest"
  BY DEF Ingesting, PolicyInv, VersionsInv, PolicyVersion, IsVersion
<1>2. Does(r, state) /\ reads' \in 0..MaxReads /\ UNCHANGED <<versions, chunks, ingested, results>>
  BY CountsReads DEF BeginIngest
<1> QED  BY <1>1, <1>2, InvRequest

LEMMA InvBeginEmbed ==
    ASSUME PolicyInv, NEW r \in Readers, NEW v \in versions, NEW m \in Models,
           BeginEmbed(r, v.id, m)
    PROVE  PolicyInv'
<1> DEFINE state == [pc |-> "embed", version |-> v.id, model |-> m, left |-> Stale(v.id, m)]
<1>1. Stale(v.id, m) \subseteq Nat
  BY DEF Stale, ChunksOf, PolicyInv, ChunksInv, PolicyChunk
<1>2. state \in Embedding /\ state.pc = "embed"
  BY <1>1 DEF Embedding, PolicyInv, VersionsInv, PolicyVersion
<1>3. Does(r, state) /\ reads' \in 0..MaxReads /\ UNCHANGED <<versions, chunks, ingested, results>>
  BY CountsReads DEF BeginEmbed
<1> QED  BY <1>2, <1>3, InvRequest

\* A new fingerprint leaves the numbers as they are.
LEMMA Fingerprinted ==
    ASSUME VersionsInv, NEW id \in 1..MaxVersions, NEW s \in DOMAIN Sources,
           versions' = {IF w.id = id THEN [w EXCEPT !.hash = s] ELSE w : w \in versions}
    PROVE  VersionsInv' /\ VersionsKept
<1> DEFINE f == [w \in versions |-> IF w.id = id THEN [w EXCEPT !.hash = s] ELSE w]
<1>1. \A w \in versions : f[w] \in PolicyVersion /\ Alike(w, f[w])
  BY DEF VersionsInv, PolicyVersion, Alike
<1>2. versions' = {f[w] : w \in versions} /\ f \in [versions -> versions']
  OBVIOUS
<1> HIDE DEF f
<1>3. \A v, w \in versions : f[v] = f[w] => v = w
  BY <1>1 DEF VersionsInv, Alike
<1>4. ExistsBijection(versions, versions')
  <2>1. f \in Bijection(versions, versions')
    BY <1>2, <1>3, Fun_IsBij
  <2> QED  BY <2>1 DEF ExistsBijection
<1>5. IsFiniteSet(versions') /\ Cardinality(versions') = Cardinality(versions)
  BY <1>4, FS_Bijection DEF VersionsInv
<1>6. VersionsInv'
  <2>1. versions' \subseteq PolicyVersion
    BY <1>1, <1>2
  <2>2. \A v \in versions' : v.id \in 1..Cardinality(versions')
    BY <1>1, <1>2, <1>5 DEF VersionsInv, Alike
  <2>3. \A v, w \in versions' : v.id = w.id => v = w
    BY <1>1, <1>2 DEF VersionsInv, Alike
  <2> QED  BY <1>5, <2>1, <2>2, <2>3 DEF VersionsInv
<1>7. VersionsKept
  BY <1>1, <1>2 DEF VersionsKept, VersionsInv, Alike, IsVersion
<1> QED  BY <1>6, <1>7

\* The positions of a source, from zero.
LEMMA ParsedChunks ==
    ASSUME NEW id \in 1..MaxVersions, NEW s \in DOMAIN Sources
    PROVE  /\ Parsed(id, s) \subseteq PolicyChunk
           /\ \A c \in Parsed(id, s) : c.version = id /\ c.index \in 0 .. Len(Sources[s]) - 1
           /\ \A c, d \in Parsed(id, s) : c.index = d.index => c = d
           /\ 0 \in 0 .. Len(Sources[s]) - 1
           /\ \E c \in Parsed(id, s) : c.index = 0
<1>1. /\ Sources[s] \in Seq(Passages) /\ Len(Sources[s]) \in Nat /\ Len(Sources[s]) # 0
      /\ DOMAIN Sources[s] = 1..Len(Sources[s])
  BY PolicyAssumption
<1>2. ASSUME NEW i \in DOMAIN Sources[s]
      PROVE  /\ i - 1 \in Nat /\ i - 1 \in 0 .. Len(Sources[s]) - 1
             /\ Sources[s][i] \in Passages
  BY <1>1
<1>3. Parsed(id, s) \subseteq PolicyChunk
  BY <1>2 DEF Parsed, PolicyChunk
<1>4. \A c \in Parsed(id, s) : c.version = id /\ c.index \in 0 .. Len(Sources[s]) - 1
  BY <1>2 DEF Parsed
<1>5. \A c, d \in Parsed(id, s) : c.index = d.index => c = d
  BY <1>1 DEF Parsed
<1>6. 1 \in DOMAIN Sources[s]
  BY <1>1
<1>7. \E c \in Parsed(id, s) : c.index = 0
  <2>1. [version |-> id, index |-> 1 - 1, content |-> Sources[s][1], vector |-> NoModel] \in Parsed(id, s)
    BY <1>6 DEF Parsed
  <2> QED  BY <2>1
<1> QED  BY <1>1, <1>3, <1>4, <1>5, <1>7

\* What was ingested before keeps everyone else from the first position.
LEMMA InvCommitIngest ==
    ASSUME PolicyInv, NEW r \in Readers, CommitIngest(r)
    PROVE  PolicyInv'
<1> USE DEF PolicyInv
<1>1. reader[r].pc = "ingest" /\ Does(r, Absent) /\ UNCHANGED <<results, reads>>
  BY DEF CommitIngest
<1>2. PICK id \in 1..MaxVersions, s \in DOMAIN Sources :
          reader[r].version = id /\ reader[r].source = s /\ IsVersion(id)
  <2>1. reader[r] \in Ingesting
    BY <1>1 DEF ReadersInv, Absent, Embedding, Explaining
  <2> QED  BY <1>1, <2>1 DEF ReadersInv, Ingesting
<1> DEFINE more == {c \in Parsed(id, s) : ~IndexTaken(id, {c.index})}
           new == [version |-> id, source |-> s]
<1>3. Absent.pc # "ingest" /\ Absent.pc # "explain"
  BY DEF Absent
<1>4. CASE UNCHANGED <<versions, chunks, ingested>>
  BY <1>1, <1>3, <1>4, InvRequest
<1>5. CASE /\ ~Blocks(r)
           /\ versions' = {IF w.id = id THEN [w EXCEPT !.hash = s] ELSE w : w \in versions}
           /\ chunks' = chunks \union more
           /\ ingested' = ingested \union {new}
  <2>1. VersionsInv' /\ VersionsKept
    BY <1>2, <1>5, Fingerprinted
  <2>2. \A c \in chunks : c.version = id => c.index \notin 0 .. Len(Sources[s]) - 1
    BY <1>2, <1>5 DEF Blocks, IndexTaken, ChunksOf
  <2>3. more = Parsed(id, s)
    BY <1>2, <2>2, ParsedChunks DEF IndexTaken, ChunksOf
  <2> HIDE DEF more
  <2>4. ChunksInv'
    <3>1. \A c \in chunks' : c \in PolicyChunk /\ IsVersion(c.version)'
      BY <1>2, <1>5, <2>1, <2>3, ParsedChunks, VersionStays DEF ChunksInv
    <3>2. \A c, d \in chunks' : c.version = d.version /\ c.index = d.index => c = d
      BY <1>2, <1>5, <2>2, <2>3, ParsedChunks DEF ChunksInv
    <3> QED  BY <3>1, <3>2 DEF ChunksInv
  <2>5. ReadersInv'
    BY <1>1, <1>3, <2>1, ReaderMoves
  <2>6. \A a \in ingested : a.version # id
    <3> SUFFICES ASSUME NEW a \in ingested, a.version = id PROVE FALSE
      OBVIOUS
    <3>1. IsWhole(a)
      BY DEF IngestedInv
    <3>2. PICK c \in Parsed(id, a.source) : c.index = 0 /\ c.version = id
      BY <1>2, <3>1, ParsedChunks DEF IsWhole
    <3>3. PICK d \in chunks : d.version = id /\ d.index = 0
      BY <3>1, <3>2 DEF IsWhole
    <3> QED  BY <1>2, <2>2, <3>3, ParsedChunks
  <2>7. ASSUME NEW a \in ingested PROVE IsWhole(a)'
    <3>1. IsWhole(a) /\ a.version # id
      BY <2>6 DEF IngestedInv
    <3>2. \E v \in versions' : v.id = a.version /\ v.hash = a.source
      <4>1. PICK v \in versions : v.id = a.version /\ v.hash = a.source
        BY <3>1 DEF IsWhole
      <4>2. v \in versions'
        BY <1>5, <3>1, <4>1
      <4> QED  BY <4>1, <4>2
    <3> QED  BY <1>5, <3>1, <3>2 DEF IsWhole
  <2>8. IsWhole(new)'
    <3>1. PICK v \in versions : v.id = id
      BY <1>2 DEF IsVersion
    <3>2. [v EXCEPT !.hash = s] \in versions' /\ v \in PolicyVersion
      BY <1>5, <3>1 DEF VersionsInv
    <3>3. \E w \in versions' : w.id = id /\ w.hash = s
      BY <3>1, <3>2 DEF PolicyVersion
    <3>4. \A c \in Parsed(id, s) : c \in chunks'
      BY <1>5, <2>3
    <3> QED  BY <1>2, <3>3, <3>4 DEF IsWhole
  <2>9. IngestedInv'
    <3>1. \A a \in ingested' : IsWhole(a)' /\ a = [version |-> a.version, source |-> a.source]
      BY <1>5, <2>7, <2>8 DEF IngestedInv
    <3>2. \A a, b \in ingested' : a.version = b.version => a = b
      BY <1>5, <2>6 DEF IngestedInv
    <3> QED  BY <3>1, <3>2 DEF IngestedInv
  <2>10. ResultsInv'
    BY <1>1, <2>1, ResultsStay
  <2> QED  BY <1>1, <2>1, <2>4, <2>5, <2>9, <2>10
<1> QED  BY <1>2, <1>4, <1>5 DEF CommitIngest

\* Vectors come and go; chunks keep their positions and contents.
LEMMA InvEmbedNext ==
    ASSUME PolicyInv, NEW r \in Readers, EmbedNext(r)
    PROVE  PolicyInv'
<1> USE DEF PolicyInv
<1>1. PICK id \in 1..MaxVersions, m \in Models, rest \in SUBSET Nat :
          reader[r] = [pc |-> "embed", version |-> id, model |-> m, left |-> rest]
  <2>1. reader[r].pc = "embed"
    BY DEF EmbedNext
  <2>2. reader[r] \in Embedding
    BY <2>1 DEF ReadersInv, Absent, Ingesting, Explaining
  <2> QED  BY <2>2 DEF Embedding
<1>2. UNCHANGED <<versions, ingested, results, reads>>
  BY DEF EmbedNext
<1>3. CASE Does(r, Absent) /\ UNCHANGED chunks
  <2>1. Absent.pc # "ingest" /\ Absent.pc # "explain"
    BY DEF Absent
  <2> QED  BY <1>2, <1>3, <2>1, InvRequest
<1>4. ASSUME NEW batch, NEW state \in {Absent, [reader[r] EXCEPT !.left = reader[r].left \ batch]},
             chunks' = {IF c.version = reader[r].version /\ c.index \in batch
                        THEN [c EXCEPT !.vector = reader[r].model] ELSE c : c \in chunks},
             Does(r, state)
      PROVE  PolicyInv'
  <2> DEFINE f == [c \in chunks |-> IF c.version = id /\ c.index \in batch
                                    THEN [c EXCEPT !.vector = m] ELSE c]
  <2>1. \A c \in chunks : /\ f[c] \in PolicyChunk
                          /\ f[c].version = c.version /\ f[c].index = c.index
                          /\ f[c].content = c.content
    BY DEF ChunksInv, PolicyChunk
  <2>2. chunks' = {f[c] : c \in chunks}
    BY <1>1, <1>4
  <2> HIDE DEF f
  <2>3. ChunksInv'
    <3>1. \A c \in chunks' : c \in PolicyChunk /\ IsVersion(c.version)'
      BY <1>2, <2>1, <2>2 DEF ChunksInv, IsVersion
    <3>2. \A c, d \in chunks' : c.version = d.version /\ c.index = d.index => c = d
      BY <2>1, <2>2 DEF ChunksInv
    <3> QED  BY <3>1, <3>2 DEF ChunksInv
  <2>4. VersionsInv' /\ VersionsKept
    BY <1>2, SameVersions
  <2>5. ReadersInv'
    <3>1. state \in {Absent} \union Embedding /\ state.pc # "ingest" /\ state.pc # "explain"
      BY <1>1, <1>4 DEF Embedding, Absent
    <3> QED  BY <1>4, <2>4, <3>1, ReaderMoves
  <2>6. ASSUME NEW a, IsWhole(a) PROVE IsWhole(a)'
    <3>1. ASSUME NEW c \in Parsed(a.version, a.source)
          PROVE  \E d \in chunks' : d.version = c.version /\ d.index = c.index /\ d.content = c.content
      <4>1. PICK d \in chunks : d.version = c.version /\ d.index = c.index /\ d.content = c.content
        BY <2>6 DEF IsWhole
      <4> QED  BY <2>1, <2>2, <4>1
    <3> QED  BY <1>2, <2>6, <3>1 DEF IsWhole
  <2>7. IngestedInv'
    BY <1>2, <2>6 DEF IngestedInv
  <2>8. ResultsInv'
    BY <1>2, <2>4, ResultsStay
  <2> QED  BY <1>2, <2>3, <2>4, <2>5, <2>7, <2>8
<1> DEFINE left == reader[r].left
           batch == {i \in left : Cardinality({j \in left : j < i}) < EmbedBatch}
<1>5. \/ Does(r, Absent) /\ UNCHANGED chunks
      \/ /\ chunks' = {IF c.version = reader[r].version /\ c.index \in batch
                       THEN [c EXCEPT !.vector = reader[r].model] ELSE c : c \in chunks}
         /\ Does(r, IF left = batch THEN Absent ELSE [reader[r] EXCEPT !.left = left \ batch])
  BY DEF EmbedNext
<1> HIDE DEF batch
<1> QED  BY <1>3, <1>4, <1>5

\* The ids of chunks.
LEMMA IdsOfChunks ==
    ASSUME NEW cs \in SUBSET PolicyChunk
    PROVE  ChunkIds(cs) \in SUBSET ChunkId
BY DEF ChunkIds, Id, ChunkId, PolicyChunk

\* What is found has vectors of one model and is of versions that are there.
LEMMA InvBeginExplain ==
    ASSUME PolicyInv, NEW r \in Readers, NEW m \in Models, NEW scope, BeginExplain(r, m, scope)
    PROVE  PolicyInv'
<1> USE DEF PolicyInv
<1> DEFINE e == Relevant(Hits(m, scope))
<1>1. \A c \in e : c \in chunks /\ c.vector = m
  BY DEF Relevant, Hits, Current
<1>6. \A c \in e : Distance[c.content] <= MaxDistance
  BY DEF Relevant
<1>2. e \subseteq PolicyChunk /\ \A c \in e : IsVersion(c.version)
  BY <1>1 DEF ChunksInv
<1>3. UNCHANGED <<versions, chunks, ingested>> /\ reads' \in 0..MaxReads
  BY CountsReads DEF BeginExplain
<1>4. CASE /\ e # {} /\ ~Conflicting(e)
           /\ Does(r, [pc |-> "explain", evidence |-> e])
           /\ UNCHANGED results
  <2>1. IsEvidence(e)
    BY <1>1, <1>2, <1>4, <1>6 DEF IsEvidence
  <2> HIDE DEF e
  <2>2. [pc |-> "explain", evidence |-> e] \in Explaining
    BY <1>2 DEF Explaining
  <2> QED  BY <1>3, <1>4, <2>1, <2>2, InvRequest
<1>5. CASE /\ \/ Persist("INSUFFICIENT_EVIDENCE", {}, {})
              \/ Persist("CONFLICTING_POLICY", ChunkIds(e), e)
           /\ UNCHANGED reader
  <2>1. VersionsInv' /\ VersionsKept
    BY <1>3, SameVersions
  <2>2. ReadersInv'
    BY <1>3, <1>5, <2>1, VersionStays, EvidenceStays DEF ReadersInv
  <2>3. ChunksInv' /\ IngestedInv'
    BY <1>3 DEF ChunksInv, IngestedInv, IsWhole, IsVersion
  <2> HIDE DEF e
  <2>4. ResultsInv'
    <3>1. ChunkIds(e) \in SUBSET ChunkId
      BY <1>2, IdsOfChunks
    <3>2. \E status \in {"INSUFFICIENT_EVIDENCE", "CONFLICTING_POLICY"},
             x \in SUBSET ChunkId, y \in SUBSET PolicyChunk : Persist(status, x, y)
      BY <1>2, <1>5, <3>1
    <3> QED  BY <2>1, <3>2, ResultIsSound DEF Statuses
  <2> QED  BY <1>3, <2>1, <2>2, <2>3, <2>4
<1> QED  BY <1>4, <1>5 DEF BeginExplain

\* What is said to be supported cites the evidence the request holds.
LEMMA InvExplain ==
    ASSUME PolicyInv, NEW r \in Readers, Explain(r)
    PROVE  PolicyInv'
<1> USE DEF PolicyInv
<1>1. PICK e \in SUBSET PolicyChunk : reader[r] = [pc |-> "explain", evidence |-> e]
  <2>1. reader[r].pc = "explain"
    BY DEF Explain
  <2>2. reader[r] \in Explaining
    BY <2>1 DEF ReadersInv, Absent, Ingesting, Embedding
  <2> QED  BY <2>2 DEF Explaining
<1>2. IsEvidence(e)
  BY <1>1 DEF ReadersInv
<1>3. Does(r, Absent) /\ UNCHANGED <<versions, chunks, ingested, reads>>
  BY DEF Explain
<1>4. VersionsInv' /\ VersionsKept
  BY <1>3, SameVersions
<1>5. ReadersInv'
  <2>1. Absent.pc # "ingest" /\ Absent.pc # "explain"
    BY DEF Absent
  <2> QED  BY <1>3, <1>4, <2>1, ReaderMoves
<1>6. ChunksInv' /\ IngestedInv'
  BY <1>3 DEF ChunksInv, IngestedInv, IsWhole, IsVersion
<1>7. ResultsInv'
  <2>1. CASE Persist("PROVIDER_ERROR", {}, e)
    BY <1>4, <2>1, ResultIsSound DEF Statuses
  <2>3. ChunkIds(e) \in SUBSET ChunkId
    BY IdsOfChunks
  <2>2. ASSUME NEW said \in Statuses, NEW cited,
               Persist(Verdict(said, cited, e).status, Verdict(said, cited, e).cited, e)
        PROVE  ResultsInv'
    <3> DEFINE v == Verdict(said, cited, e)
    <3>1. /\ v.status \in Statuses /\ v.cited \subseteq ChunkIds(e)
          /\ v.status = "SUPPORTED" => v.cited # {}
      BY DEF Verdict, Statuses
    <3>2. Persist(v.status, v.cited, e)
      BY <2>2
    <3> HIDE DEF v
    <3> QED  BY <1>2, <1>4, <2>3, <3>1, <3>2, ResultIsSound
  <2> QED  BY <1>1, <2>1, <2>2 DEF Explain
<1> QED  BY <1>3, <1>4, <1>5, <1>6, <1>7

LEMMA InvStep == PolicyInv /\ [PolicyNext]_policyVars => PolicyInv'
<1> SUFFICES ASSUME PolicyInv, [PolicyNext]_policyVars PROVE PolicyInv'
  OBVIOUS
<1>1. ASSUME NEW p \in Policies, NEW l \in Labels, NEW s \in VersionStatuses,
             NEW h \in DOMAIN Sources \union {NoSource}, CreateVersion(p, l, s, h)
      PROVE  PolicyInv'
  BY <1>1, InvCreateVersion
<1>2. ASSUME NEW v \in versions, NEW c \in Passages, NEW i \in 0..1, AddChunk(v.id, i, c)
      PROVE  PolicyInv'
  BY <1>2, InvAddChunk
<1>3. ASSUME NEW r \in Readers, NEW v \in versions, NEW s \in DOMAIN Sources,
             BeginIngest(r, v.id, s)
      PROVE  PolicyInv'
  BY <1>3, InvBeginIngest
<1>4. ASSUME NEW r \in Readers, NEW v \in versions, NEW m \in Models, BeginEmbed(r, v.id, m)
      PROVE  PolicyInv'
  BY <1>4, InvBeginEmbed
<1>5. ASSUME NEW r \in Readers, NEW m \in Models, NEW scope, BeginExplain(r, m, scope)
      PROVE  PolicyInv'
  BY <1>5, InvBeginExplain
<1>6. ASSUME NEW r \in Readers, CommitIngest(r) \/ EmbedNext(r) \/ Explain(r)
      PROVE  PolicyInv'
  BY <1>6, InvCommitIngest, InvEmbedNext, InvExplain
<1>7. CASE UNCHANGED policyVars
  BY <1>7 DEF policyVars, PolicyInv, VersionsInv, ChunksInv, ReadersInv, IngestedInv, IsWhole,
              ResultsInv, IsVersion, IsEvidence, Conflicting
<1> QED  BY <1>1, <1>2, <1>3, <1>4, <1>5, <1>6, <1>7 DEF PolicyNext

-----------------------------------------------------------------------------
(* What follows from it.                                                   *)

LEMMA PolicyInvariant == PolicySpec => []PolicyInv
BY InvInit, InvStep, PTL DEF PolicySpec

LEMMA InvImpliesTypes == PolicyInv => PolicyTypeOK
<1> SUFFICES ASSUME PolicyInv PROVE PolicyTypeOK
  OBVIOUS
<1>1. \A r \in Readers : reader[r] = Absent \/ reader[r].pc \in {"ingest", "embed", "explain"}
  BY DEF PolicyInv, ReadersInv, Ingesting, Embedding, Explaining
<1>2. \A g \in results : /\ g.status \in Statuses
                         /\ g.cited \subseteq ChunkId /\ g.retrieved \subseteq PolicyChunk
  BY DEF PolicyInv, ResultsInv
<1> QED  BY <1>1, <1>2 DEF PolicyInv, VersionsInv, ChunksInv, PolicyTypeOK

\* What a request was shown, and what is on record as shown, is in the library.
OnRecord(e) == \A c \in e : \E d \in chunks : SamePassage(c, d)

PassagesInv ==
    /\ \A r \in Readers, e \in SUBSET PolicyChunk :
          reader[r].pc = "explain" /\ reader[r].evidence = e => OnRecord(e)
    /\ \A g \in results : OnRecord(g.retrieved)

\* No step takes a passage away, and what is found are passages.
LEMMA PassagesStep ==
    ASSUME PolicyInv, PassagesInv, [PolicyNext]_policyVars
    PROVE  PassagesInv'
<1>0. \A c : SamePassage(c, c)
  BY DEF SamePassage
<1>1. ASSUME chunks \subseteq chunks' \/ \E r \in Readers : EmbedNext(r)
      PROVE  \A c \in chunks : \E d \in chunks' : SamePassage(c, d)
  <2>1. ASSUME NEW r \in Readers, EmbedNext(r), NEW c \in chunks
        PROVE  \E d \in chunks' : SamePassage(c, d)
    <3>1. CASE UNCHANGED chunks
      BY <1>0, <2>1, <3>1
    <3>2. ASSUME NEW batch,
                 chunks' = {IF x.version = reader[r].version /\ x.index \in batch
                            THEN [x EXCEPT !.vector = reader[r].model] ELSE x : x \in chunks}
          PROVE  \E d \in chunks' : SamePassage(c, d)
      <4>1. c \in PolicyChunk
        BY DEF PolicyInv, ChunksInv
      <4>2. PICK d : d = IF c.version = reader[r].version /\ c.index \in batch
                         THEN [c EXCEPT !.vector = reader[r].model] ELSE c
        OBVIOUS
      <4>3. d.version = c.version /\ d.index = c.index /\ d.content = c.content
        BY <4>1, <4>2 DEF PolicyChunk
      <4>4. d \in chunks'
        BY <3>2, <4>2
      <4> QED  BY <4>3, <4>4 DEF SamePassage, Id
    <3> DEFINE left == reader[r].left
               batch == {i \in left : Cardinality({j \in left : j < i}) < EmbedBatch}
    <3>3. \/ UNCHANGED chunks
          \/ chunks' = {IF x.version = reader[r].version /\ x.index \in batch
                        THEN [x EXCEPT !.vector = reader[r].model] ELSE x : x \in chunks}
      BY <2>1 DEF EmbedNext
    <3> HIDE DEF batch
    <3> QED  BY <3>1, <3>2, <3>3
  <2> QED  BY <1>0, <1>1, <2>1
<1>2. chunks \subseteq chunks' \/ \E r \in Readers : EmbedNext(r)
  BY DEF PolicyNext, policyVars, CreateVersion, AddChunk, BeginIngest, BeginEmbed, BeginExplain,
         CommitIngest, Explain
<1>3. ASSUME NEW e, OnRecord(e) PROVE OnRecord(e)'
  <2>1. ASSUME NEW c \in e PROVE \E d \in chunks' : SamePassage(c, d)
    <3>1. PICK d \in chunks : SamePassage(c, d)
      BY <1>3 DEF OnRecord
    <3>2. PICK x \in chunks' : SamePassage(d, x)
      BY <1>1, <1>2
    <3> QED  BY <3>1, <3>2 DEF SamePassage
  <2> QED  BY <2>1 DEF OnRecord
<1>4. \A e \in SUBSET chunks : OnRecord(e)
  BY <1>0 DEF OnRecord
<1>5. ASSUME NEW r \in Readers, NEW e \in SUBSET PolicyChunk,
             reader'[r].pc = "explain", reader'[r].evidence = e
      PROVE  OnRecord(e)
  <2>1. CASE reader'[r] = reader[r]
    BY <1>5, <2>1 DEF PassagesInv
  <2>2. ASSUME NEW q \in Readers, NEW state, Does(q, state), state.pc # "explain"
        PROVE  OnRecord(e)
    <3>1. reader'[r] = IF r = q THEN state ELSE reader[r]
      BY <2>2 DEF Does, PolicyInv, ReadersInv
    <3> QED  BY <1>5, <2>1, <2>2, <3>1
  <2>3. ASSUME NEW q \in Readers, NEW x \in SUBSET chunks,
               Does(q, [pc |-> "explain", evidence |-> x])
        PROVE  OnRecord(e)
    <3>1. reader'[r] = IF r = q THEN [pc |-> "explain", evidence |-> x] ELSE reader[r]
      BY <2>3 DEF Does, PolicyInv, ReadersInv
    <3> QED  BY <1>4, <1>5, <2>1, <3>1
  <2>4. ASSUME UNCHANGED reader PROVE OnRecord(e)
    BY <2>1, <2>4
  <2>5. Absent.pc # "explain"
    BY DEF Absent
  <2>6. ASSUME NEW q \in Readers, NEW v, NEW x, BeginIngest(q, v, x) \/ BeginEmbed(q, v, x)
        PROVE  OnRecord(e)
    <3>1. CASE BeginIngest(q, v, x)
      BY <2>2, <3>1 DEF BeginIngest
    <3>2. CASE BeginEmbed(q, v, x)
      BY <2>2, <3>2 DEF BeginEmbed
    <3> QED  BY <2>6, <3>1, <3>2
  <2>7. ASSUME NEW q \in Readers, CommitIngest(q) \/ Explain(q) PROVE OnRecord(e)
    BY <2>2, <2>5, <2>7 DEF CommitIngest, Explain
  <2>8. ASSUME NEW q \in Readers, EmbedNext(q) PROVE OnRecord(e)
    <3>1. PICK left : Does(q, Absent) \/ Does(q, [reader[q] EXCEPT !.left = left])
      BY <2>8 DEF EmbedNext
    <3>2. reader[q].pc = "embed" /\ reader[q] \in Embedding
      BY <2>8 DEF EmbedNext, PolicyInv, ReadersInv, Absent, Ingesting, Explaining
    <3>3. [reader[q] EXCEPT !.left = left].pc # "explain"
      BY <3>2 DEF Embedding
    <3> QED  BY <2>2, <2>5, <3>1, <3>3
  <2>9. ASSUME NEW q \in Readers, NEW m, NEW scope, BeginExplain(q, m, scope) PROVE OnRecord(e)
    <3>1. Relevant(Hits(m, scope)) \in SUBSET chunks
      BY DEF Relevant, Hits
    <3> QED  BY <2>3, <2>4, <2>9, <3>1 DEF BeginExplain
  <2>10. ASSUME NEW a, NEW b, NEW c, NEW d, CreateVersion(a, b, c, d) PROVE OnRecord(e)
    BY <2>4, <2>10 DEF CreateVersion
  <2>11. ASSUME NEW a, NEW b, NEW c, AddChunk(a, b, c) PROVE OnRecord(e)
    BY <2>4, <2>11 DEF AddChunk
  <2>12. CASE UNCHANGED policyVars
    BY <2>4, <2>12 DEF policyVars
  <2> QED  BY <2>6, <2>7, <2>8, <2>9, <2>10, <2>11, <2>12 DEF PolicyNext
<1>6. ASSUME NEW g \in results' PROVE OnRecord(g.retrieved)
  <2>1. CASE g \in results
    BY <2>1 DEF PassagesInv
  <2>2. ASSUME NEW status, NEW cited, NEW e, OnRecord(e), Persist(status, cited, e)
        PROVE  OnRecord(g.retrieved)
    BY <2>1, <2>2 DEF Persist
  <2>3. ASSUME NEW q \in Readers, NEW m, NEW scope, BeginExplain(q, m, scope)
        PROVE  OnRecord(g.retrieved)
    <3>1. OnRecord({}) /\ OnRecord(Relevant(Hits(m, scope)))
      BY <1>4 DEF Relevant, Hits
    <3> QED  BY <2>1, <2>2, <2>3, <3>1 DEF BeginExplain
  <2>4. ASSUME NEW q \in Readers, Explain(q) PROVE OnRecord(g.retrieved)
    <3>1. reader[q].pc = "explain" /\ reader[q] \in Explaining
      BY <2>4 DEF Explain, PolicyInv, ReadersInv, Absent, Ingesting, Embedding
    <3>2. reader[q].evidence \in SUBSET PolicyChunk
      BY <3>1 DEF Explaining
    <3>3. OnRecord(reader[q].evidence)
      BY <3>1, <3>2 DEF PassagesInv
    <3> QED  BY <2>2, <2>4, <3>3 DEF Explain
  <2>5. CASE UNCHANGED results
    BY <2>1, <2>5
  <2> QED
    BY <2>3, <2>4, <2>5 DEF PolicyNext, policyVars, CreateVersion, AddChunk, BeginIngest,
                            BeginEmbed, CommitIngest, EmbedNext
<1> QED  BY <1>3, <1>5, <1>6 DEF PassagesInv

LEMMA PassagesStart == PolicyInit => PassagesInv
  BY DEF PolicyInit, PassagesInv, Absent

LEMMA InvImpliesGrounded == PolicyInv /\ PassagesInv => SupportedIsGrounded
<1> SUFFICES ASSUME PolicyInv, PassagesInv, NEW g \in results, g.status = "SUPPORTED"
             PROVE  /\ g.cited # {} /\ g.cited \subseteq ChunkIds(g.retrieved)
                    /\ \A c \in g.retrieved : Distance[c.content] <= MaxDistance
                    /\ OnRecord(g.retrieved)
                    /\ ~Conflicting(g.retrieved)
                    /\ Cardinality({c.vector : c \in g.retrieved}) = 1
  BY DEF SupportedIsGrounded, Conflicting, OnRecord
<1>1. g.cited # {} /\ g.cited \subseteq ChunkIds(g.retrieved) /\ IsEvidence(g.retrieved)
  BY DEF PolicyInv, ResultsInv
<1>2. PICK m \in Models : {c.vector : c \in g.retrieved} = {m}
  BY <1>1 DEF IsEvidence
<1> QED  BY <1>1, <1>2, FS_Singleton DEF IsEvidence, PassagesInv

\* What policy_ingestion_service reports as ingested is in the library, whole and
\* alone in its version, whoever adds chunks or ingests at the same time.
THEOREM IngestionIsWhole == PolicySpec => []IngestedIsWhole
<1>1. PolicyInv => IngestedIsWhole
  BY InvImpliesTypes DEF PolicyInv, IngestedInv, IsWhole, IngestedIsWhole
<1> QED  BY <1>1, PolicyInvariant, PTL

\* What policy_grounding_service records as supported cites what it retrieved, near
\* enough and with vectors of one model, and rests on no two active versions of one
\* policy; and the library still has every passage of it, whatever is embedded anew
\* while the model answers or afterwards.
THEOREM SupportIsGrounded == PolicySpec => []SupportedIsGrounded
<1>1. PolicyInit => PolicyInv /\ PassagesInv
  BY InvInit, PassagesStart
<1>2. PolicyInv /\ PassagesInv /\ [PolicyNext]_policyVars => PolicyInv' /\ PassagesInv'
  BY InvStep, PassagesStep
<1> QED  BY <1>1, <1>2, InvImpliesGrounded, PTL DEF PolicySpec

-----------------------------------------------------------------------------
(* Ink: the characters of a text that are not blank.                       *)

\* What a character and a text leave when they are stripped of blanks.
InkOfChar == [c \in Characters |-> IF c \in Spaces THEN <<>> ELSE <<c>>]
InkOfText == [t \in Text |-> InkOf(t)]

\* The ink of a text is that of its characters.
LEMMA InkIsMapped ==
    /\ Maps(InkOfChar, Characters, Characters)
    /\ \A t \in Text : InkOf(t) = Mapped(InkOfChar, t)
<1>1. Maps(InkOfChar, Characters, Characters)
  <2>1. <<>> \in Seq(Characters) /\ \A c \in Characters : <<c>> \in Seq(Characters)
    OBVIOUS
  <2> QED BY <2>1 DEF Maps, InkOfChar
<1>2. ASSUME NEW t \in Text PROVE InkOf(t) = Mapped(InkOfChar, t)
  <2>1. \A i \in DOMAIN t : t[i] \in Characters
    BY LenProperties DEF Text
  <2>2. [i \in DOMAIN t |-> IF t[i] \in Spaces THEN <<>> ELSE <<t[i]>>]
          = [i \in DOMAIN t |-> InkOfChar[t[i]]]
    BY <2>1 DEF InkOfChar
  <2> QED BY <2>2 DEF InkOf, Mapped
<1> QED BY <1>1, <1>2

\* The ink of two texts is that of both.
LEMMA InkSteps ==
    /\ InkOf(<<>>) = <<>> /\ <<>> \in Text
    /\ \A t \in Text : InkOf(t) \in Text
    /\ \A t, u \in Text : t \o u \in Text /\ InkOf(t \o u) = InkOf(t) \o InkOf(u)
    /\ \A t \in Text : ToSet(InkOf(t)) = ToSet(t) \ Spaces
    /\ Maps(InkOfText, Text, Characters)
<1>0. <<>> \in Text
  BY EmptySeq DEF Text
<1>1. InkOf(<<>>) = <<>> /\ \A t \in Text : InkOf(t) \in Text
  <2>1. /\ Mapped(InkOfChar, <<>>) = <<>>
        /\ \A s \in Seq(Characters) : Mapped(InkOfChar, s) \in Seq(Characters)
    BY InkIsMapped, MappedSteps
  <2> QED BY <1>0, <2>1, InkIsMapped DEF Text
<1>2. ASSUME NEW t \in Text, NEW u \in Text
      PROVE  t \o u \in Text /\ InkOf(t \o u) = InkOf(t) \o InkOf(u)
  <2>1. t \o u \in Text
    BY ConcatProperties DEF Text
  <2>2. \A v, w \in Seq(Characters) :
            Mapped(InkOfChar, v \o w) = Mapped(InkOfChar, v) \o Mapped(InkOfChar, w)
    BY InkIsMapped, MappedConcat
  <2> QED BY <2>1, <2>2, InkIsMapped DEF Text
<1>3. ASSUME NEW t \in Text PROVE ToSet(InkOf(t)) = ToSet(t) \ Spaces
  <2>1. \A s \in Seq(Characters) :
            ToSet(Mapped(InkOfChar, s)) = UNION {ToSet(InkOfChar[x]) : x \in ToSet(s)}
    BY InkIsMapped, MappedRange
  <2>2. ToSet(t) \in SUBSET Characters
    BY ToSetSteps DEF Text
  <2>3. \A c \in Characters : ToSet(InkOfChar[c]) = {c} \ Spaces
    <3> SUFFICES ASSUME NEW c \in Characters PROVE ToSet(InkOfChar[c]) = {c} \ Spaces
      OBVIOUS
    <3>1. ToSet(<<>>) = {} /\ ToSet(<<c>>) = {c}
      <4>1. PICK e \in Seq(Characters) : e = <<>>
        BY EmptySeq
      <4>2. ToSet(<<>>) = {}
        BY ToSetSteps
      <4>3. ToSet(Append(e, c)) = ToSet(e) \union {c}
        BY ToSetSteps
      <4>4. Append(e, c) = <<c>>
        BY <4>1
      <4> QED BY <4>1, <4>2, <4>3, <4>4
    <3> QED BY <3>1 DEF InkOfChar
  <2>4. ToSet(InkOf(t)) = UNION {ToSet(InkOfChar[x]) : x \in ToSet(t)}
    BY <2>1, InkIsMapped DEF Text
  <2>5. \A x \in ToSet(t) : ToSet(InkOfChar[x]) = {x} \ Spaces
    BY <2>2, <2>3
  <2>6. UNION {ToSet(InkOfChar[x]) : x \in ToSet(t)} = ToSet(t) \ Spaces
    BY <2>5
  <2> QED BY <2>4, <2>6
<1>4. Maps(InkOfText, Text, Characters)
  BY <1>1 DEF Maps, InkOfText, Text
<1> QED BY <1>0, <1>1, <1>2, <1>3, <1>4

\* A text without ink: all of it is blank.
LEMMA NoInk ==
    ASSUME NEW t \in Text
    PROVE  /\ InkOf(t) = <<>> <=> InkAt(t) = {}
           /\ InkOf(t) = <<>> <=> ToSet(InkOf(t)) = {}
<1>1. InkAt(t) = {} <=> ToSet(t) \ Spaces = {}
  BY DEF InkAt, ToSet
<1>2. ASSUME NEW s \in Text, ToSet(s) = {} PROVE s = <<>>
  <2>1. DOMAIN s = {}
    BY <1>2 DEF ToSet
  <2> QED BY <2>1, LenProperties, EmptySeq DEF Text
<1>3. ToSet(<<>>) = {}
  BY DEF ToSet
<1>4. InkOf(t) \in Text /\ ToSet(InkOf(t)) = ToSet(t) \ Spaces
  BY InkSteps
<1> QED BY <1>1, <1>2, <1>3, <1>4

\* A part with all the ink has the same ink.
LEMMA InkOfPart ==
    ASSUME NEW t \in Text, NEW a \in 1 .. Len(t) + 1, NEW b \in a - 1 .. Len(t),
           InkAt(t) \subseteq a .. b
    PROVE  SubSeq(t, a, b) \in Text /\ InkOf(SubSeq(t, a, b)) = InkOf(t)
<1>1. PICK n \in Nat : n = Len(t) /\ DOMAIN t = 1 .. n /\ \A i \in 1 .. n : t[i] \in Characters
  BY LenProperties DEF Text
<1>2. ASSUME NEW p \in 1 .. n + 1, NEW q \in p - 1 .. n
      PROVE  SubSeq(t, p, q) \in Text
  <2>1. p \in Int /\ q \in Int /\ \A i \in p .. q : t[i] \in Characters
    BY <1>1
  <2> QED BY <2>1, SubSeqProperties DEF Text
<1>3. ASSUME NEW p \in 1 .. n + 1, NEW q \in p - 1 .. n, InkAt(t) \cap (p .. q) = {}
      PROVE  InkOf(SubSeq(t, p, q)) = <<>>
  <2>1. p \in Int /\ q \in Int /\ \A i \in p .. q : t[i] \in Characters /\ i \in DOMAIN t
    BY <1>1
  <2>2. /\ SubSeq(t, p, q) \in Seq(Characters)
        /\ Len(SubSeq(t, p, q)) = IF p <= q THEN q - p + 1 ELSE 0
        /\ \A i \in 1 .. q - p + 1 : SubSeq(t, p, q)[i] = t[p + i - 1]
    BY <2>1, SubSeqProperties
  <2>3. PICK u : u = SubSeq(t, p, q)
    OBVIOUS
  <2>4. /\ u \in Text /\ \A i \in 1 .. q - p + 1 : u[i] = t[p + i - 1]
        /\ Len(u) = IF p <= q THEN q - p + 1 ELSE 0
    BY <2>2, <2>3 DEF Text
  <2>5. DOMAIN u = 1 .. Len(u)
    BY <2>4, LenProperties DEF Text
  <2>6. ASSUME NEW i \in DOMAIN u PROVE u[i] \in Spaces
    <3>1. i \in 1 .. q - p + 1
      BY <2>4, <2>5
    <3>2. p + i - 1 \in p .. q
      BY <3>1
    <3>3. t[p + i - 1] \in Spaces
      BY <1>3, <2>1, <3>2 DEF InkAt
    <3> QED BY <2>4, <3>1, <3>3
  <2>7. InkAt(u) = {}
    BY <2>6 DEF InkAt
  <2> QED BY <2>3, <2>4, <2>7, NoInk
<1>4. a \in 1 .. n + 1 /\ b \in a - 1 .. n /\ a - 1 \in 0 .. n /\ b + 1 \in 1 .. n + 1
  BY <1>1
<1>5. PICK x, y, z : x = SubSeq(t, 1, a - 1) /\ y = SubSeq(t, a, b) /\ z = SubSeq(t, b + 1, n)
  OBVIOUS
<1>6. x \in Text /\ y \in Text /\ z \in Text
  BY <1>2, <1>4, <1>5
<1>7. InkOf(x) = <<>>
  BY <1>3, <1>4, <1>5
<1>8. InkOf(z) = <<>>
  BY <1>3, <1>4, <1>5
<1>9. t = x \o (y \o z)
  <2>1. SubSeq(t, 1, n) = t
    BY <1>1, SubSeqFull DEF Text
  <2>2. y \o z = SubSeq(t, a, n)
    <3>1. a \in 1 .. Len(t) + 1 /\ b \in a - 1 .. Len(t) /\ n \in b .. Len(t)
      BY <1>1, <1>4
    <3> QED BY <1>5, <3>1, ConcatAdjacentSubSeq DEF Text
  <2>3. x \o SubSeq(t, a, n) = SubSeq(t, 1, n)
    <3>1. 1 \in 1 .. Len(t) + 1 /\ a - 1 \in 1 - 1 .. Len(t) /\ n \in a - 1 .. Len(t)
      BY <1>1, <1>4
    <3>2. SubSeq(t, 1, a - 1) \o SubSeq(t, (a - 1) + 1, n) = SubSeq(t, 1, n)
      BY <3>1, ConcatAdjacentSubSeq DEF Text
    <3>3. (a - 1) + 1 = a
      BY <1>4
    <3> QED BY <1>5, <3>2, <3>3
  <2> QED BY <2>1, <2>2, <2>3
<1>10. InkOf(t) = InkOf(x) \o (InkOf(y) \o InkOf(z))
  <2>1. y \o z \in Text /\ InkOf(y \o z) = InkOf(y) \o InkOf(z)
    BY <1>6, InkSteps
  <2>2. InkOf(x \o (y \o z)) = InkOf(x) \o InkOf(y \o z)
    BY <1>6, <2>1, InkSteps
  <2> QED BY <1>9, <2>1, <2>2
<1>11. InkOf(y) \in Seq(Characters)
  BY <1>6, InkSteps DEF Text
<1>12. InkOf(y) \o <<>> = InkOf(y) /\ <<>> \o InkOf(y) = InkOf(y)
  BY <1>11, ConcatEmptySeq
<1> QED BY <1>5, <1>6, <1>7, <1>8, <1>10, <1>12

\* strip() and its halves keep the ink, and make a text without ink empty.
LEMMA StripKeepsInk ==
    ASSUME NEW t \in Text
    PROVE  /\ \A u \in {Strip(t), StripLeft(t), StripRight(t)} :
                  /\ u \in Text /\ InkOf(u) = InkOf(t) /\ Len(u) <= Len(t)
                  /\ u = <<>> <=> InkOf(t) = <<>>
           /\ \A u \in {Strip(t), StripLeft(t)} : u # <<>> => u[1] \notin Spaces
<1>1. PICK n \in Nat : n = Len(t) /\ DOMAIN t = 1 .. n
  BY LenProperties DEF Text
<1>2. CASE InkAt(t) = {}
  <2>1. Strip(t) = <<>> /\ StripLeft(t) = <<>> /\ StripRight(t) = <<>>
    BY <1>2 DEF Strip, StripLeft, StripRight
  <2>2. InkOf(t) = <<>> /\ InkOf(<<>>) = <<>> /\ <<>> \in Text /\ Len(<<>>) <= Len(t)
    BY <1>1, <1>2, NoInk, InkSteps
  <2> QED BY <2>1, <2>2
<1>3. CASE InkAt(t) # {}
  <2>1. InkAt(t) \subseteq 1 .. n /\ InkAt(t) \in SUBSET Int
    BY <1>1 DEF InkAt
  <2>2. IsFiniteSet(InkAt(t))
    <3>1. IsFiniteSet(1 .. n)
      BY FS_Interval
    <3> QED BY <2>1, <3>1, FS_Subset
  <2>3. PICK a : a = Min(InkAt(t))
    OBVIOUS
  <2>4. PICK b : b = Max(InkAt(t))
    OBVIOUS
  <2>5. a \in InkAt(t) /\ \A j \in InkAt(t) : a <= j
    BY <1>3, <2>1, <2>2, <2>3, FirstNumber
  <2>6. b \in InkAt(t) /\ \A j \in InkAt(t) : b >= j
    BY <1>3, <2>1, <2>2, <2>4, LastNumber
  <2>7. a \in 1 .. n /\ b \in 1 .. n /\ a <= b /\ t[a] \notin Spaces
    BY <2>1, <2>5, <2>6 DEF InkAt
  <2>8. InkOf(t) # <<>> /\ InkOf(<<>>) = <<>>
    BY <1>3, NoInk, InkSteps
  <2>9. ASSUME NEW p \in {1, a}, NEW q \in {b, n}
        PROVE  /\ SubSeq(t, p, q) \in Text /\ InkOf(SubSeq(t, p, q)) = InkOf(t)
               /\ Len(SubSeq(t, p, q)) <= n /\ SubSeq(t, p, q) # <<>>
               /\ SubSeq(t, p, q)[1] = t[p]
    <3>1. p \in 1 .. n /\ q \in 1 .. n /\ p <= q
      BY <2>7
    <3>2. ASSUME NEW i \in InkAt(t) PROVE i \in p .. q
      BY <2>1, <2>5, <2>6, <2>7
    <3>3. p \in 1 .. Len(t) + 1 /\ q \in p - 1 .. Len(t)
      BY <1>1, <3>1
    <3>4. SubSeq(t, p, q) \in Text /\ InkOf(SubSeq(t, p, q)) = InkOf(t)
      BY <3>2, <3>3, InkOfPart
    <3>5. p \in Int /\ q \in Int /\ \A i \in p .. q : t[i] \in Characters
      BY <1>1, <3>1, LenProperties DEF Text
    <3>6. /\ Len(SubSeq(t, p, q)) = IF p <= q THEN q - p + 1 ELSE 0
          /\ \A i \in 1 .. q - p + 1 : SubSeq(t, p, q)[i] = t[p + i - 1]
      BY <3>5, SubSeqProperties
    <3>7. 1 \in 1 .. q - p + 1 /\ p + 1 - 1 = p /\ q - p + 1 <= n
      BY <3>1
    <3> QED BY <2>8, <3>1, <3>4, <3>6, <3>7
  <2>10. /\ Strip(t) = SubSeq(t, a, b) /\ StripLeft(t) = SubSeq(t, a, n)
         /\ StripRight(t) = SubSeq(t, 1, b)
    BY <1>1, <1>3, <2>3, <2>4 DEF Strip, StripLeft, StripRight
  <2> QED BY <1>1, <2>7, <2>8, <2>9, <2>10
<1> QED BY <1>2, <1>3

\* A piece of the limit or less, and not empty; a text that starts with ink.
Piece == {t \in Text : t # <<>> /\ Len(t) <= MaxChars}
Inked == {t \in Text : t # <<>> /\ t[1] \notin Spaces}

\* Where a text is cut: behind its first character, within the window.
LEMMA CutWithin ==
    ASSUME NEW t \in Text, Len(t) > MaxChars
    PROVE  /\ CutAt(t) \in 0 .. MaxChars
           /\ CutAt(t) = 0 => t[1] = Blank
<1>1. MaxChars \in Nat /\ MaxChars # 0 /\ Len(t) \in Nat
  BY PolicyTextAssumption, LenProperties DEF Text
<1> DEFINE blanks == {i \in 1 .. MaxChars : t[i] = Blank}
           last == IF blanks = {} THEN -1 ELSE Max(blanks) - 1
<1>2. CutAt(t) = IF last < MaxChars \div 4 THEN MaxChars ELSE last
  BY DEF CutAt
<1>3. MaxChars \div 4 \in Nat
  BY <1>1
<1>4. CASE blanks = {}
  BY <1>1, <1>2, <1>3, <1>4
<1>5. CASE blanks # {}
  <2>1. blanks \in SUBSET Int /\ blanks \subseteq 1 .. MaxChars
    OBVIOUS
  <2>2. IsFiniteSet(blanks)
    <3>1. IsFiniteSet(1 .. MaxChars)
      BY <1>1, FS_Interval
    <3> QED BY <2>1, <3>1, FS_Subset
  <2>3. PICK m : m = Max(blanks)
    OBVIOUS
  <2>4. m \in blanks
    <3> HIDE DEF blanks
    <3> QED BY <1>5, <2>1, <2>2, <2>3, LastNumber
  <2>5. m \in 1 .. MaxChars /\ t[m] = Blank /\ last = m - 1
    BY <1>5, <2>3, <2>4
  <2> HIDE DEF last, blanks
  <2> QED BY <1>1, <1>2, <1>3, <2>5
<1> QED BY <1>4, <1>5

\* What is left of a long text is shorter; its start is a piece of it.
Start(t) == StripRight(SubSeq(t, 1, CutAt(t)))
Left(t) == StripLeft(SubSeq(t, CutAt(t) + 1, Len(t)))

\* A text that is cut keeps its ink, and what is left of it is shorter.
LEMMA CutKeepsInk ==
    ASSUME NEW t \in Text, Len(t) > MaxChars
    PROVE  /\ Start(t) \in Text /\ Left(t) \in Text /\ Len(Left(t)) < Len(t)
           /\ Len(Start(t)) <= MaxChars
           /\ InkOf(t) = InkOf(Start(t)) \o InkOf(Left(t))
           /\ Left(t) # <<>> => Left(t) \in Inked
           /\ t \in Inked => Start(t) # <<>>
<1>1. PICK n \in Nat : n = Len(t) /\ DOMAIN t = 1 .. n /\ \A i \in 1 .. n : t[i] \in Characters
  BY LenProperties DEF Text
<1>2. MaxChars \in Nat /\ MaxChars # 0 /\ n > MaxChars
  BY <1>1, PolicyTextAssumption
<1>3. PICK c \in 0 .. MaxChars : c = CutAt(t) /\ (c = 0 => t[1] = Blank)
  BY CutWithin
<1>4. PICK x, y : x = SubSeq(t, 1, c) /\ y = SubSeq(t, c + 1, n)
  OBVIOUS
<1>5. /\ x \in Text /\ Len(x) = c /\ \A i \in 1 .. c : x[i] = t[i]
  <2>1. 1 \in Int /\ c \in Int /\ \A i \in 1 .. c : t[i] \in Characters
    BY <1>1, <1>2
  <2>2. /\ SubSeq(t, 1, c) \in Seq(Characters)
        /\ Len(SubSeq(t, 1, c)) = IF 1 <= c THEN c - 1 + 1 ELSE 0
        /\ \A i \in 1 .. c - 1 + 1 : SubSeq(t, 1, c)[i] = t[1 + i - 1]
    BY <2>1, SubSeqProperties
  <2>3. c - 1 + 1 = c /\ \A i \in 1 .. c : 1 + i - 1 = i
    OBVIOUS
  <2> QED BY <1>4, <2>2, <2>3 DEF Text
<1>6. y \in Text /\ Len(y) = n - c /\ y # <<>> /\ y[1] = t[c + 1]
  <2>1. c + 1 \in Int /\ n \in Int /\ \A i \in c + 1 .. n : t[i] \in Characters
    BY <1>1, <1>2
  <2>2. /\ SubSeq(t, c + 1, n) \in Seq(Characters)
        /\ Len(SubSeq(t, c + 1, n)) = IF c + 1 <= n THEN n - (c + 1) + 1 ELSE 0
        /\ \A i \in 1 .. n - (c + 1) + 1 : SubSeq(t, c + 1, n)[i] = t[(c + 1) + i - 1]
    BY <2>1, SubSeqProperties
  <2>3. c + 1 <= n /\ n - (c + 1) + 1 = n - c /\ 1 \in 1 .. n - c /\ (c + 1) + 1 - 1 = c + 1
    BY <1>2
  <2>4. Len(SubSeq(t, c + 1, n)) = n - c /\ SubSeq(t, c + 1, n)[1] = t[c + 1]
    BY <2>2, <2>3
  <2>5. y \in Seq(Characters) /\ Len(y) = n - c /\ y[1] = t[c + 1]
    BY <1>4, <2>2, <2>4
  <2>6. y # <<>>
    BY <1>2, <2>5, EmptySeq
  <2> QED BY <2>5, <2>6 DEF Text
<1>7. x \o y = t
  <2>1. 1 \in 1 .. Len(t) + 1 /\ c \in 1 - 1 .. Len(t) /\ n \in c .. Len(t)
    BY <1>1, <1>2
  <2>2. SubSeq(t, 1, c) \o SubSeq(t, c + 1, n) = SubSeq(t, 1, n)
    BY <2>1, ConcatAdjacentSubSeq DEF Text
  <2>3. SubSeq(t, 1, n) = t
    BY <1>1, SubSeqFull DEF Text
  <2> QED BY <1>4, <2>2, <2>3
<1>8. InkOf(t) = InkOf(x) \o InkOf(y)
  BY <1>5, <1>6, <1>7, InkSteps
<1>9. Start(t) = StripRight(x) /\ Left(t) = StripLeft(y)
  BY <1>1, <1>3, <1>4 DEF Start, Left
<1>10. /\ StripRight(x) \in Text /\ InkOf(StripRight(x)) = InkOf(x)
       /\ Len(StripRight(x)) <= c /\ (StripRight(x) = <<>> <=> InkOf(x) = <<>>)
  BY <1>5, StripKeepsInk
<1>11. /\ StripLeft(y) \in Text /\ InkOf(StripLeft(y)) = InkOf(y) /\ Len(StripLeft(y)) <= n - c
       /\ StripLeft(y) # <<>> => StripLeft(y)[1] \notin Spaces
  BY <1>6, StripKeepsInk
<1>12. Len(StripLeft(y)) < n
  <2>1. CASE c # 0
    BY <1>11, <2>1, LenProperties DEF Text
  <2>2. CASE c = 0
    <3>1. y[1] \in Spaces /\ y = t
      <4>1. x = <<>>
        BY <1>5, <2>2, EmptySeq DEF Text
      <4> QED BY <1>3, <1>6, <1>7, <2>2, <4>1, ConcatEmptySeq DEF Spaces, Text
    <3>2. Len(StripLeft(y)) # n
      <4> SUFFICES ASSUME Len(StripLeft(y)) = n PROVE FALSE
        OBVIOUS
      <4>1. StripLeft(y) # <<>>
        BY <1>2, EmptySeq
      <4>2. InkAt(y) # {}
        BY <4>1 DEF StripLeft
      <4>3. PICK m : m = Min(InkAt(y))
        OBVIOUS
      <4>4. StripLeft(y) = SubSeq(y, m, n)
        BY <1>1, <3>1, <4>2, <4>3 DEF StripLeft
      <4>5. m \in InkAt(y)
        <5>1. InkAt(y) \in SUBSET Int /\ InkAt(y) \subseteq 1 .. n
          BY <1>1, <3>1 DEF InkAt
        <5>2. IsFiniteSet(InkAt(y))
          <6>1. IsFiniteSet(1 .. n)
            BY FS_Interval
          <6> QED BY <5>1, <6>1, FS_Subset
        <5> QED BY <4>2, <4>3, <5>1, <5>2, FirstNumber
      <4>6. m \in 1 .. n /\ m # 1
        BY <1>1, <3>1, <4>5 DEF InkAt
      <4>7. Len(SubSeq(y, m, n)) = n - m + 1
        <5>1. m \in Int /\ n \in Int /\ \A i \in m .. n : y[i] \in Characters
          BY <1>1, <3>1, <4>6
        <5> QED BY <4>6, <5>1, SubSeqProperties
      <4> QED BY <4>4, <4>6, <4>7
    <3> QED BY <1>11, <2>2, <3>2, LenProperties DEF Text
  <2> QED BY <2>1, <2>2
<1>13. ASSUME t \in Inked PROVE StripRight(x) # <<>>
  <2>1. t[1] \notin Spaces /\ c # 0
    BY <1>3, <1>13 DEF Inked, Spaces
  <2>2. 1 \in DOMAIN x /\ x[1] = t[1]
    <3>1. DOMAIN x = 1 .. c /\ 1 \in 1 .. c
      BY <1>5, <2>1, LenProperties DEF Text
    <3> QED BY <1>5, <3>1
  <2>3. InkAt(x) # {}
    BY <2>1, <2>2 DEF InkAt
  <2> QED BY <1>5, <1>10, <2>3, NoInk
<1> QED BY <1>1, <1>2, <1>8, <1>9, <1>10, <1>11, <1>12, <1>13 DEF Inked

-----------------------------------------------------------------------------
(* Lines and pieces put together.                                          *)

Join(by) == [p \in Text \X Text |-> IF p[1] = <<>> THEN p[2] ELSE p[1] \o by \o p[2]]

\* Joined is a fold.
LEMMA JoinFolds ==
    ASSUME NEW by \in Text
    PROVE  /\ Folds(Join(by), <<>>, Text, Text)
           /\ \A a, t \in Text : Join(by)[<<a, t>>] = IF a = <<>> THEN t ELSE a \o by \o t
<1>1. <<>> \in Text /\ \A a, b \in Text : a \o b \in Text
  BY InkSteps
<1>2. \A a, t \in Text : a \o by \o t \in Text
  BY <1>1
<1> HIDE DEF Text
<1> QED BY <1>1, <1>2 DEF Folds, Join

LEMMA JoinedIsFold ==
    ASSUME NEW by \in Text, NEW ts \in Seq(Text)
    PROVE  Joined(ts, by) = FoldOf(Join(by), <<>>, ts)
<1> DEFINE F(f) == f = [T \in SUBSET DOMAIN ts |->
                   IF T = {} THEN <<>>
                   ELSE IF f[T \ {Max(T)}] = <<>> THEN ts[Max(T)]
                        ELSE f[T \ {Max(T)}] \o by \o ts[Max(T)]]
<1>1. Joined(ts, by) = (CHOOSE f : F(f))[DOMAIN ts]
  BY DEF Joined, FoldLeft, MapThenFoldSet
<1>2. PICK O : O = Join(by)
  OBVIOUS
<1>3. /\ O \in [Text \X Text -> Text] /\ <<>> \in Text
      /\ \A a, t \in Text : O[<<a, t>>] = IF a = <<>> THEN t ELSE a \o by \o t
  BY <1>2, JoinFolds DEF Folds
<1>4. PICK h \in [SUBSET DOMAIN ts -> Text] : Tabled(h, O, <<>>, ts, DOMAIN ts)
  BY <1>2, JoinFolds, TableExists
<1>5. ASSUME NEW T \in SUBSET DOMAIN ts, T # {}
      PROVE  Max(T) \in T /\ ts[Max(T)] \in Text /\ T \ {Max(T)} \in SUBSET DOMAIN ts
  <2>1. Max(T) \in T
    BY <1>5, LastPosition
  <2> QED BY <2>1, LenProperties
<1>6. ASSUME NEW T \in SUBSET DOMAIN ts
      PROVE  h[T] = IF T = {} THEN <<>>
                    ELSE IF h[T \ {Max(T)}] = <<>> THEN ts[Max(T)]
                         ELSE h[T \ {Max(T)}] \o by \o ts[Max(T)]
  <2>1. CASE T = {}
    BY <1>4, <2>1 DEF Tabled
  <2>2. CASE T # {}
    <3>1. h[T \ {Max(T)}] \in Text /\ ts[Max(T)] \in Text
      BY <1>4, <1>5, <2>2
    <3>2. h[T] = O[<<h[T \ {Max(T)}], ts[Max(T)]>>]
      BY <1>4, <2>2 DEF Tabled
    <3> QED BY <1>3, <2>2, <3>1, <3>2
  <2> QED BY <2>1, <2>2
<1>7. F(h)
  BY <1>4, <1>6
<1> HIDE DEF F
<1>8. PICK g : g = (CHOOSE f : F(f))
  OBVIOUS
<1>9. F(g)
  BY <1>7, <1>8
<1>10. Follows(g, O, <<>>, Text, ts)
  <2>1. \A T \in SUBSET DOMAIN ts :
            g[T] = IF T = {} THEN <<>>
                   ELSE IF g[T \ {Max(T)}] = <<>> THEN ts[Max(T)]
                        ELSE g[T \ {Max(T)}] \o by \o ts[Max(T)]
    BY <1>9 DEF F
  <2>2. g[{}] = <<>>
    BY <2>1
  <2>3. ASSUME NEW T \in SUBSET DOMAIN ts, T # {}, g[T \ {Max(T)}] \in Text
        PROVE  g[T] = O[<<g[T \ {Max(T)}], ts[Max(T)]>>]
    <3>1. ts[Max(T)] \in Text
      BY <1>5, <2>3
    <3> QED BY <1>3, <2>1, <2>3, <3>1
  <2> QED BY <2>2, <2>3 DEF Follows
<1>11. g[DOMAIN ts] = FoldOf(O, <<>>, ts)
  BY <1>2, <1>10, JoinFolds, TableIsFold
<1> QED BY <1>1, <1>2, <1>8, <1>11

\* Joined: nothing of nothing; a further text after the separator.
LEMMA JoinedSteps ==
    ASSUME NEW by \in Text
    PROVE  /\ Joined(<<>>, by) = <<>>
           /\ \A ts \in Seq(Text) : Joined(ts, by) \in Text
           /\ \A ts \in Seq(Text), t \in Text :
                 Joined(Append(ts, t), by) =
                     IF Joined(ts, by) = <<>> THEN t ELSE Joined(ts, by) \o by \o t
<1>1. PICK O : O = Join(by)
  OBVIOUS
<1>2. /\ Folds(O, <<>>, Text, Text)
      /\ \A a, t \in Text : O[<<a, t>>] = IF a = <<>> THEN t ELSE a \o by \o t
  BY <1>1, JoinFolds
<1>3. /\ FoldOf(O, <<>>, <<>>) = <<>>
      /\ \A s \in Seq(Text) : FoldOf(O, <<>>, s) \in Text
      /\ \A s \in Seq(Text), x \in Text :
            FoldOf(O, <<>>, Append(s, x)) = O[<<FoldOf(O, <<>>, s), x>>]
  BY <1>2, FoldSteps
<1>4. \A ts \in Seq(Text) : Joined(ts, by) = FoldOf(O, <<>>, ts)
  BY <1>1, JoinedIsFold
<1>5. <<>> \in Seq(Text) /\ \A ts \in Seq(Text), t \in Text : Append(ts, t) \in Seq(Text)
  BY EmptySeq, AppendProperties
<1>6. ASSUME NEW ts \in Seq(Text), NEW t \in Text
      PROVE  Joined(Append(ts, t), by) =
                 IF Joined(ts, by) = <<>> THEN t ELSE Joined(ts, by) \o by \o t
  <2>1. FoldOf(O, <<>>, Append(ts, t)) = O[<<FoldOf(O, <<>>, ts), t>>]
    BY <1>3
  <2>2. PICK a \in Text : a = FoldOf(O, <<>>, ts)
    BY <1>3
  <2>3. Joined(ts, by) = a
    BY <1>4, <2>2
  <2>4. Append(ts, t) \in Seq(Text)
    BY <1>5
  <2>5. Joined(Append(ts, t), by) = O[<<a, t>>]
    BY <1>4, <2>1, <2>2, <2>4
  <2>6. O[<<a, t>>] = IF a = <<>> THEN t ELSE a \o by \o t
    BY <1>2
  <2> QED BY <2>3, <2>5, <2>6
<1> QED BY <1>3, <1>4, <1>5, <1>6

\* The ink of what is joined by blanks is the ink of the parts.
LEMMA JoinedKeepsInk ==
    ASSUME NEW by \in Text, InkOf(by) = <<>>
    PROVE  \A ts \in Seq(Text) : InkOf(Joined(ts, by)) = Mapped(InkOfText, ts)
<1> DEFINE G == {ts \in Seq(Text) : InkOf(Joined(ts, by)) = Mapped(InkOfText, ts)}
<1>1. /\ Mapped(InkOfText, <<>>) = <<>>
      /\ \A s \in Seq(Text), x \in Text :
            Mapped(InkOfText, Append(s, x)) = Mapped(InkOfText, s) \o InkOfText[x]
  <2>1. Maps(InkOfText, Text, Characters)
    BY InkSteps
  <2> QED BY <2>1, MappedSteps
<1>2. <<>> \in G
  <2>1. Joined(<<>>, by) = <<>>
    BY JoinedSteps
  <2>2. InkOf(<<>>) = <<>> /\ <<>> \in Seq(Text)
    BY InkSteps, EmptySeq
  <2> QED BY <1>1, <2>1, <2>2
<1>3. ASSUME NEW ts \in G, NEW t \in Text PROVE Append(ts, t) \in G
  <2>1. ts \in Seq(Text) /\ InkOf(Joined(ts, by)) = Mapped(InkOfText, ts)
    OBVIOUS
  <2>2. PICK a \in Text : a = Joined(ts, by)
    BY <2>1, JoinedSteps
  <2>3. Joined(Append(ts, t), by) = IF a = <<>> THEN t ELSE a \o by \o t
    <3>1. \A us \in Seq(Text), u \in Text :
              Joined(Append(us, u), by) =
                  IF Joined(us, by) = <<>> THEN u ELSE Joined(us, by) \o by \o u
      BY JoinedSteps
    <3> QED BY <2>1, <2>2, <3>1
  <2>4. InkOf(a) \in Seq(Characters) /\ InkOf(t) \in Seq(Characters) /\ InkOf(<<>>) = <<>>
    BY InkSteps DEF Text
  <2>5. InkOf(a \o by \o t) = InkOf(a) \o InkOf(t)
    <3>1. a \o by \in Text /\ InkOf(a \o by) = InkOf(a) \o InkOf(by)
      BY InkSteps
    <3>2. InkOf((a \o by) \o t) = InkOf(a \o by) \o InkOf(t)
      BY <3>1, InkSteps
    <3>3. InkOf(a) \o <<>> = InkOf(a)
      BY <2>4, ConcatEmptySeq
    <3> QED BY <3>1, <3>2, <3>3
  <2>6. <<>> \o InkOf(t) = InkOf(t)
    BY <2>4, ConcatEmptySeq
  <2>7. InkOf(Joined(Append(ts, t), by)) = InkOf(a) \o InkOf(t)
    BY <2>3, <2>4, <2>5, <2>6
  <2>8. Mapped(InkOfText, Append(ts, t)) = Mapped(InkOfText, ts) \o InkOf(t)
    BY <1>1, <2>1 DEF InkOfText
  <2>9. Append(ts, t) \in Seq(Text)
    BY <2>1, AppendProperties
  <2> QED BY <2>1, <2>2, <2>7, <2>8, <2>9
<1>4. ASSUME NEW ts \in Seq(Text) PROVE ts \in G
  <2>1. G \in SUBSET Seq(Text)
    OBVIOUS
  <2> HIDE DEF G
  <2> QED BY <1>2, <1>3, <2>1, SequencesAll
<1> QED BY <1>4

-----------------------------------------------------------------------------
(* Pieces of a block.                                                      *)

\* One step of the cut, given what becomes of shorter texts.
Cut(f, t) ==
    IF Len(t) <= MaxChars THEN <<t>>
    ELSE <<Start(t)>> \o (IF Left(t) = <<>> THEN <<>> ELSE f[Left(t)])

\* Pieces is the limit of the functions that cut at most n times.
Cuts == [Text -> Seq(Text)]
Again == [p \in Cuts \X {0} |-> [t \in Text |-> Cut(p[1], t)]]
Nothing == [t \in Text |-> <<>>]
Zeros(n) == [i \in 1 .. n |-> 0]
After(n) == FoldOf(Again, Nothing, Zeros(n))

LEMMA CutIsPieces ==
    ASSUME NEW f \in Cuts, NEW t \in Text
    PROVE  Cut(f, t) \in Seq(Text)
<1>1. CASE Len(t) <= MaxChars
  <2>1. <<t>> \in Seq(Text)
    OBVIOUS
  <2> QED BY <1>1, <2>1 DEF Cut
<1>2. CASE ~(Len(t) <= MaxChars)
  <2>1. Len(t) > MaxChars
    BY <1>2, PolicyTextAssumption, LenProperties DEF Text
  <2>2. Start(t) \in Text /\ Left(t) \in Text
    BY <2>1, CutKeepsInk
  <2>3. PICK e : e = <<Start(t)>>
    OBVIOUS
  <2>4. PICK r : r = IF Left(t) = <<>> THEN <<>> ELSE f[Left(t)]
    OBVIOUS
  <2>5. e \in Seq(Text)
    BY <2>2, <2>3
  <2>6. r \in Seq(Text)
    BY <2>2, <2>4, EmptySeq DEF Cuts
  <2>7. e \o r \in Seq(Text)
    BY <2>5, <2>6, ConcatProperties
  <2> QED BY <1>2, <2>3, <2>4, <2>7 DEF Cut
<1> QED BY <1>1, <1>2

\* Pieces after n cuts at most, by recursion on n.
LEMMA AfterSteps ==
    /\ \A n \in Nat : After(n) \in Cuts
    /\ \A n \in Nat, t \in Text : After(n + 1)[t] = Cut(After(n), t)
<1>1. \A f \in Cuts : Again[<<f, 0>>] = [t \in Text |-> Cut(f, t)]
  BY DEF Again
<1>2. \A f \in Cuts : [t \in Text |-> Cut(f, t)] \in Cuts
  BY CutIsPieces DEF Cuts
<1>3. Folds(Again, Nothing, Cuts, {0})
  <2>1. Again \in [Cuts \X {0} -> Cuts]
    <3> HIDE DEF Cuts
    <3> QED BY <1>2 DEF Again
  <2>2. Nothing \in Cuts
    BY EmptySeq DEF Nothing, Cuts
  <2> QED BY <2>1, <2>2 DEF Folds
<1>4. /\ \A s \in Seq({0}) : FoldOf(Again, Nothing, s) \in Cuts
      /\ \A s \in Seq({0}), x \in {0} :
            FoldOf(Again, Nothing, Append(s, x)) = Again[<<FoldOf(Again, Nothing, s), x>>]
  BY <1>3, FoldSteps
<1>5. ASSUME NEW n \in Nat PROVE Zeros(n) \in Seq({0}) /\ Zeros(n + 1) = Append(Zeros(n), 0)
  <2>1. PICK z, u : z = Zeros(n) /\ u = Zeros(n + 1)
    OBVIOUS
  <2>2. z \in [1 .. n -> {0}] /\ u \in [1 .. n + 1 -> {0}] /\ n + 1 \in Nat
    BY <2>1 DEF Zeros
  <2>3. z \in Seq({0}) /\ Len(z) = n /\ u \in Seq({0}) /\ Len(u) = n + 1
    BY <2>2, TupleIsSeq
  <2>4. PICK w : w = Append(z, 0)
    OBVIOUS
  <2>5. w \in Seq({0}) /\ Len(w) = n + 1
    BY <2>3, <2>4, AppendProperties
  <2>6. \A i \in 1 .. n + 1 : w[i] = 0 /\ u[i] = 0
    BY <2>3, <2>5, LenProperties
  <2>7. u = w
    BY <2>3, <2>5, <2>6, SeqEqual
  <2> QED BY <2>1, <2>3, <2>4, <2>7
<1>6. \A n \in Nat : After(n) \in Cuts
  BY <1>4, <1>5 DEF After
<1>7. ASSUME NEW n \in Nat, NEW t \in Text PROVE After(n + 1)[t] = Cut(After(n), t)
  <2>1. After(n + 1) = Again[<<After(n), 0>>]
    BY <1>4, <1>5 DEF After
  <2>2. After(n + 1) = [u \in Text |-> Cut(After(n), u)]
    BY <1>1, <1>6, <2>1
  <2> QED BY <2>2
<1> QED BY <1>6, <1>7

\* The cuts of a text do not change once it is used up.
LEMMA AfterStays ==
    ASSUME NEW t \in Text, NEW m \in Nat, Len(t) < m
    PROVE  After(m)[t] = After(Len(t) + 1)[t]
<1> DEFINE Settled(u, i) == Len(u) < i => After(i)[u] = After(Len(u) + 1)[u]
           G == {n \in Nat : \A u \in Text : \A i \in 0 .. n : Settled(u, i)}
<1>1. \A u \in Text : Len(u) \in Nat
  BY LenProperties DEF Text
<1>2. 0 \in G
  BY <1>1
<1>3. ASSUME NEW n \in G PROVE n + 1 \in G
  <2>1. n \in Nat /\ \A u \in Text : \A i \in 0 .. n : Settled(u, i)
    OBVIOUS
  <2>2. ASSUME NEW u \in Text, Len(u) < n + 1
        PROVE  After(n + 1)[u] = After(Len(u) + 1)[u]
    <3>1. PICK k \in Nat : k = Len(u)
      BY <1>1
    <3>2. After(n + 1)[u] = Cut(After(n), u) /\ After(k + 1)[u] = Cut(After(k), u)
      BY <2>1, AfterSteps
    <3>3. CASE k <= MaxChars
      BY <3>1, <3>2, <3>3 DEF Cut
    <3>4. CASE ~(k <= MaxChars)
      <4>1. Len(u) > MaxChars
        BY <3>1, <3>4, PolicyTextAssumption
      <4>2. PICK r \in Text : r = Left(u) /\ Len(r) < k
        BY <3>1, <4>1, CutKeepsInk
      <4>3. Len(r) \in Nat /\ k \in 0 .. n /\ n \in 0 .. n /\ Len(r) < n
        BY <1>1, <2>1, <2>2, <3>1, <4>2
      <4>4. After(n)[r] = After(Len(r) + 1)[r] /\ After(k)[r] = After(Len(r) + 1)[r]
        BY <2>1, <4>2, <4>3
      <4> QED BY <3>1, <3>2, <4>2, <4>4 DEF Cut
    <3> QED BY <3>1, <3>3, <3>4
  <2>3. ASSUME NEW u \in Text, NEW i \in 0 .. n + 1 PROVE Settled(u, i)
    <3>1. CASE i = n + 1
      BY <2>2, <3>1
    <3>2. CASE i # n + 1
      <4>1. i \in 0 .. n
        BY <2>1, <3>2
      <4> QED BY <2>1, <4>1
    <3> QED BY <3>1, <3>2
  <2> HIDE DEF Settled
  <2> QED BY <2>1, <2>3
<1>4. m \in G
  <2>1. G \in SUBSET Nat
    OBVIOUS
  <2> HIDE DEF G
  <2> QED BY <1>2, <1>3, <2>1, NaturalsAll
<1> QED BY <1>4

\* Pieces is defined for every text, however long: each cut leaves less.
LEMMA PiecesUnfold ==
    \A t \in Text : Pieces[t] = Cut(Pieces, t)
<1> DEFINE F(f) == f = [t \in Text |-> Cut(f, t)]
           P == [t \in Text |-> After(Len(t) + 1)[t]]
<1>1. \A t \in Text : Len(t) \in Nat
  BY LenProperties DEF Text
<1>2. ASSUME NEW t \in Text PROVE P[t] = Cut(P, t)
  <2>1. PICK k \in Nat : k = Len(t)
    BY <1>1
  <2>2. P[t] = Cut(After(k), t)
    BY <2>1, AfterSteps
  <2>3. CASE k <= MaxChars
    BY <2>1, <2>2, <2>3 DEF Cut
  <2>4. CASE ~(k <= MaxChars)
    <3>1. Len(t) > MaxChars
      BY <2>1, <2>4, PolicyTextAssumption
    <3>2. PICK r \in Text : r = Left(t) /\ Len(r) < k
      BY <2>1, <3>1, CutKeepsInk
    <3>3. P[r] = After(k)[r]
      BY <3>2, AfterStays
    <3> HIDE DEF P
    <3> QED BY <2>2, <3>2, <3>3 DEF Cut
  <2> QED BY <2>3, <2>4
<1>3. F(P)
  <2>1. P = [t \in Text |-> P[t]]
    OBVIOUS
  <2> HIDE DEF P
  <2> QED BY <1>2, <2>1
<1>4. Pieces = CHOOSE f : F(f)
  BY DEF Pieces, Cut, Start, Left, Text
<1>5. F(Pieces)
  <2> HIDE DEF F, P
  <2> QED BY <1>3, <1>4
<1> QED BY <1>5

\* The pieces of a text hold its ink; those of a text that starts with ink are
\* not empty and keep to the limit.
LEMMA PiecesKeepInk ==
    ASSUME NEW t \in Text
    PROVE  /\ Pieces[t] \in Seq(Text) /\ Mapped(InkOfText, Pieces[t]) = InkOf(t)
           /\ t \in Inked => Pieces[t] \in Seq(Piece)
<1> DEFINE Holds(u) == /\ Pieces[u] \in Seq(Text) /\ Mapped(InkOfText, Pieces[u]) = InkOf(u)
                       /\ u \in Inked => Pieces[u] \in Seq(Piece)
           G == {n \in Nat : \A u \in Text : Len(u) <= n => Holds(u)}
<1>1. \A u \in Text : Len(u) \in Nat
  BY LenProperties DEF Text
<1>2. /\ \A s, u \in Seq(Text) :
            Mapped(InkOfText, s \o u) = Mapped(InkOfText, s) \o Mapped(InkOfText, u)
      /\ \A u \in Text : Mapped(InkOfText, <<u>>) = InkOf(u)
      /\ Mapped(InkOfText, <<>>) = <<>>
  <2>1. Maps(InkOfText, Text, Characters)
    BY InkSteps
  <2>2. /\ Mapped(InkOfText, <<>>) = <<>>
        /\ \A s \in Seq(Text), x \in Text :
              Mapped(InkOfText, Append(s, x)) = Mapped(InkOfText, s) \o InkOfText[x]
    BY <2>1, MappedSteps
  <2>3. ASSUME NEW u \in Text PROVE Mapped(InkOfText, <<u>>) = InkOf(u)
    <3>1. PICK e \in Seq(Text) : e = <<>>
      BY EmptySeq
    <3>2. Mapped(InkOfText, Append(e, u)) = Mapped(InkOfText, e) \o InkOfText[u]
      BY <2>2
    <3>3. InkOf(u) \in Seq(Characters)
      BY InkSteps DEF Text
    <3>4. <<>> \o InkOf(u) = InkOf(u)
      BY <3>3, ConcatEmptySeq
    <3>5. Append(e, u) = <<u>> /\ InkOfText[u] = InkOf(u)
      BY <3>1 DEF InkOfText
    <3> QED BY <2>2, <3>1, <3>2, <3>4, <3>5
  <2>4. \A s, u \in Seq(Text) :
            Mapped(InkOfText, s \o u) = Mapped(InkOfText, s) \o Mapped(InkOfText, u)
    BY <2>1, MappedConcat
  <2> QED BY <2>2, <2>3, <2>4
<1>3. ASSUME NEW u \in Text, Len(u) <= MaxChars PROVE Holds(u)
  <2>1. Pieces[u] = <<u>>
    BY <1>3, PiecesUnfold DEF Cut
  <2>2. <<u>> \in Seq(Text) /\ (u \in Piece => <<u>> \in Seq(Piece))
    OBVIOUS
  <2>3. u \in Inked => u \in Piece
    BY <1>3 DEF Inked, Piece
  <2> QED BY <1>2, <2>1, <2>2, <2>3
<1>4. ASSUME NEW u \in Text, ~(Len(u) <= MaxChars), Left(u) # <<>> => Holds(Left(u))
      PROVE  Holds(u)
  <2>1. Len(u) > MaxChars
    BY <1>1, <1>4, PolicyTextAssumption
  <2>2. /\ Start(u) \in Text /\ Left(u) \in Text /\ Len(Start(u)) <= MaxChars
        /\ InkOf(u) = InkOf(Start(u)) \o InkOf(Left(u))
        /\ Left(u) # <<>> => Left(u) \in Inked
        /\ u \in Inked => Start(u) # <<>>
    BY <2>1, CutKeepsInk
  <2>3. PICK e : e = <<Start(u)>>
    OBVIOUS
  <2>4. PICK r : r = IF Left(u) = <<>> THEN <<>> ELSE Pieces[Left(u)]
    OBVIOUS
  <2>5. Pieces[u] = e \o r
    BY <1>4, <2>3, <2>4, PiecesUnfold DEF Cut
  <2>6. e \in Seq(Text) /\ Mapped(InkOfText, e) = InkOf(Start(u))
    BY <1>2, <2>2, <2>3
  <2>7. r \in Seq(Text) /\ r \in Seq(Piece) /\ Mapped(InkOfText, r) = InkOf(Left(u))
    <3>1. CASE Left(u) = <<>>
      BY <1>2, <2>4, <3>1, InkSteps, EmptySeq
    <3>2. CASE Left(u) # <<>>
      BY <1>4, <2>2, <2>4, <3>2
    <3> QED BY <3>1, <3>2
  <2>8. e \o r \in Seq(Text) /\ Mapped(InkOfText, e \o r) = InkOf(u)
    BY <1>2, <2>2, <2>6, <2>7, ConcatProperties
  <2>9. ASSUME u \in Inked PROVE e \o r \in Seq(Piece)
    <3>1. Start(u) \in Piece
      BY <2>2, <2>9 DEF Piece
    <3>2. e \in Seq(Piece)
      BY <2>3, <3>1
    <3> QED BY <2>7, <3>2, ConcatProperties
  <2> QED BY <2>5, <2>8, <2>9
<1>5. 0 \in G
  <2>1. ASSUME NEW u \in Text, Len(u) <= 0 PROVE Len(u) <= MaxChars
    BY <1>1, <2>1, PolicyTextAssumption
  <2> HIDE DEF Holds
  <2> QED BY <1>3, <2>1
<1>6. ASSUME NEW n \in G PROVE n + 1 \in G
  <2>1. n \in Nat /\ \A u \in Text : Len(u) <= n => Holds(u)
    OBVIOUS
  <2>2. ASSUME NEW u \in Text, Len(u) <= n + 1 PROVE Holds(u)
    <3>1. CASE Len(u) <= MaxChars
      <4> HIDE DEF Holds
      <4> QED BY <1>3, <3>1
    <3>2. CASE ~(Len(u) <= MaxChars)
      <4>1. Len(u) > MaxChars
        BY <1>1, <3>2, PolicyTextAssumption
      <4>2. Left(u) \in Text /\ Len(Left(u)) < Len(u)
        BY <4>1, CutKeepsInk
      <4>3. Len(Left(u)) <= n
        BY <1>1, <2>1, <2>2, <4>2
      <4> HIDE DEF Holds
      <4> QED BY <1>4, <2>1, <3>2, <4>2, <4>3
    <3> HIDE DEF Holds
    <3> QED BY <3>1, <3>2
  <2> HIDE DEF Holds
  <2> QED BY <2>1, <2>2
<1>7. Len(t) \in G
  <2>1. G \in SUBSET Nat /\ Len(t) \in Nat
    BY <1>1
  <2> HIDE DEF G, Holds
  <2> QED BY <1>5, <1>6, <2>1, NaturalsAll
<1>8. Len(t) <= Len(t)
  BY <1>1
<1>9. Holds(t)
  <2> HIDE DEF Holds
  <2> QED BY <1>7, <1>8
<1> QED BY <1>9

-----------------------------------------------------------------------------
(* Buckets of a section.                                                   *)

\* Between two pieces of a passage; the state of the fold that packs them.
Gap == <<LineBreak, LineBreak>>

Bucket == {b \in Seq(Piece) : Len(Joined(b, Gap)) \in 1 .. MaxChars}

Packing ==
    {s \in [full : Seq(Bucket), bucket : Seq(Piece), size : 0 .. MaxChars] :
        /\ s.size = Len(Joined(s.bucket, Gap))
        /\ s.bucket # <<>> => s.size # 0}

Unpacked == [full |-> <<>>, bucket |-> <<>>, size |-> 0]
Pack == [p \in Packing \X Piece |-> Packed(p[1], p[2])]
Contents(s) == FlattenSeq(s.full) \o s.bucket

LEMMA GapIsBlank ==
    Gap \in Text /\ Len(Gap) = 2 /\ InkOf(Gap) = <<>>
<1>1. Gap \in Text /\ Len(Gap) = 2 /\ DOMAIN Gap = 1 .. 2 /\ Gap[1] = LineBreak /\ Gap[2] = LineBreak
  <2>4. LineBreak \in Characters
    BY PolicyTextAssumption
  <2>1. PICK l \in Characters : l = LineBreak
    BY <2>4
  <2>2. PICK g : g = <<l, l>>
    OBVIOUS
  <2>3. g \in Seq(Characters) /\ Len(g) = 2 /\ DOMAIN g = 1 .. 2 /\ g[1] = l /\ g[2] = l
    BY <2>2
  <2> QED BY <2>1, <2>2, <2>3 DEF Gap, Text
<1>2. InkAt(Gap) = {}
  BY <1>1 DEF InkAt, Spaces
<1> QED BY <1>1, <1>2, NoInk

LEMMA PiecesAreTexts ==
    /\ Seq(Piece) \in SUBSET Seq(Text)
    /\ Bucket \in SUBSET Seq(Piece) /\ Seq(Bucket) \in SUBSET Seq(Seq(Piece))
BY SeqOfPart DEF Piece, Bucket

\* A bucket joined, with one piece more.
LEMMA BucketGrows ==
    ASSUME NEW b \in Seq(Piece), NEW x \in Piece
    PROVE  /\ Joined(b, Gap) \in Text /\ Joined(<<>>, Gap) = <<>>
           /\ Len(Joined(b, Gap)) \in Nat /\ Len(x) \in 1 .. MaxChars /\ Len(<<>>) = 0
           /\ Joined(<<x>>, Gap) = x
           /\ Joined(Append(b, x), Gap) \in Text
           /\ Len(Joined(b, Gap)) # 0 =>
                 Len(Joined(Append(b, x), Gap)) = Len(Joined(b, Gap)) + 2 + Len(x)
<1>1. b \in Seq(Text) /\ x \in Text /\ x # <<>> /\ Len(x) <= MaxChars
  BY PiecesAreTexts DEF Piece
<1>2. /\ Joined(<<>>, Gap) = <<>>
      /\ \A ts \in Seq(Text) : Joined(ts, Gap) \in Text
      /\ \A ts \in Seq(Text), t \in Text :
            Joined(Append(ts, t), Gap) =
                IF Joined(ts, Gap) = <<>> THEN t ELSE Joined(ts, Gap) \o Gap \o t
  BY GapIsBlank, JoinedSteps
<1>3. PICK a \in Text : a = Joined(b, Gap)
  BY <1>1, <1>2
<1>4. Len(a) \in Nat /\ Len(x) \in Nat /\ Len(x) # 0 /\ Len(<<>>) = 0
  BY <1>1, LenProperties, EmptySeq DEF Text
<1>5. Joined(<<x>>, Gap) = x
  <2>1. PICK e \in Seq(Text) : e = <<>>
    BY EmptySeq
  <2>2. Joined(Append(e, x), Gap) = x
    BY <1>1, <1>2, <2>1
  <2> QED BY <2>1, <2>2
<1>6. Joined(Append(b, x), Gap) \in Text
  <2>1. Append(b, x) \in Seq(Text)
    BY <1>1, AppendProperties
  <2> QED BY <1>2, <2>1
<1>7. ASSUME Len(a) # 0 PROVE Len(Joined(Append(b, x), Gap)) = Len(a) + 2 + Len(x)
  <2>1. a # <<>>
    BY <1>4, <1>7
  <2>2. Joined(Append(b, x), Gap) = a \o Gap \o x
    BY <1>1, <1>2, <1>3, <2>1
  <2>3. PICK g \in Seq(Characters) : g = Gap /\ Len(g) = 2
    BY GapIsBlank DEF Text
  <2>4. a \in Seq(Characters) /\ x \in Seq(Characters)
    BY <1>1 DEF Text
  <2>5. a \o g \in Seq(Characters) /\ Len(a \o g) = Len(a) + Len(g)
    BY <2>4, ConcatProperties
  <2>6. Len((a \o g) \o x) = Len(a \o g) + Len(x)
    BY <2>4, <2>5, ConcatProperties
  <2> QED BY <2>2, <2>3, <2>5, <2>6
<1>8. Len(x) \in 1 .. MaxChars
  BY <1>1, <1>4, PolicyTextAssumption
<1> QED BY <1>2, <1>3, <1>4, <1>5, <1>6, <1>7, <1>8

\* A piece goes into the bucket or, when that is full, into a new one.
LEMMA PackStep ==
    ASSUME NEW s \in Packing, NEW x \in Piece
    PROVE  /\ Packed(s, x) \in Packing
           /\ Contents(Packed(s, x)) = Append(Contents(s), x)
           /\ Contents(s) \in Seq(Piece)
<1>1. PICK full \in Seq(Bucket), bucket \in Seq(Piece), size \in 0 .. MaxChars :
          s = [full |-> full, bucket |-> bucket, size |-> size]
  BY DEF Packing
<1>2. size = Len(Joined(bucket, Gap)) /\ (bucket # <<>> => size # 0)
  BY <1>1 DEF Packing
<1>3. MaxChars \in Nat /\ MaxChars # 0
  BY PolicyTextAssumption
<1>4. FlattenSeq(full) \in Seq(Piece) /\ Contents(s) = FlattenSeq(full) \o bucket
  <2>1. full \in Seq(Seq(Piece))
    BY PiecesAreTexts
  <2> QED BY <1>1, <2>1, FlattenSteps DEF Contents
<1>5. Contents(s) \in Seq(Piece)
  BY <1>4, ConcatProperties
<1>6. PICK total : total = size + Addition(bucket, x)
  OBVIOUS
<1>7. CASE bucket # <<>> /\ total > MaxChars
  <2>1. Packed(s, x) = [full |-> Append(full, bucket), bucket |-> <<x>>, size |-> Len(x)]
    BY <1>1, <1>6, <1>7 DEF Packed
  <2>2. bucket \in Bucket
    BY <1>2, <1>3, <1>7 DEF Bucket
  <2>3. Append(full, bucket) \in Seq(Bucket)
    BY <2>2, AppendProperties
  <2>4. <<x>> \in Seq(Piece) /\ Len(x) \in 0 .. MaxChars /\ Len(x) # 0
        /\ Len(x) = Len(Joined(<<x>>, Gap))
    BY BucketGrows
  <2>5. Packed(s, x) \in Packing
    <3>1. PICK f \in Seq(Bucket), b \in Seq(Piece), k \in 0 .. MaxChars :
              f = Append(full, bucket) /\ b = <<x>> /\ k = Len(x)
      BY <2>3, <2>4
    <3>2. PICK p : p = [full |-> f, bucket |-> b, size |-> k]
      OBVIOUS
    <3>3. p \in [full : Seq(Bucket), bucket : Seq(Piece), size : 0 .. MaxChars]
      BY <3>2
    <3>4. p.size = Len(Joined(p.bucket, Gap)) /\ p.size # 0
      BY <2>4, <3>1, <3>2
    <3>5. p \in Packing
      BY <3>3, <3>4 DEF Packing
    <3> QED BY <2>1, <3>1, <3>2, <3>5
  <2>6. FlattenSeq(Append(full, bucket)) = FlattenSeq(full) \o bucket
    BY PiecesAreTexts, FlattenSteps
  <2>7. Append(Contents(s), x) = Contents(s) \o <<x>>
    BY <1>5, AppendLast
  <2>8. PICK p : p = Packed(s, x)
    OBVIOUS
  <2>9. p.full = Append(full, bucket) /\ p.bucket = <<x>>
    BY <2>1, <2>8
  <2>10. Contents(p) = (FlattenSeq(full) \o bucket) \o <<x>>
    BY <2>6, <2>9 DEF Contents
  <2> QED BY <1>4, <1>5, <2>5, <2>7, <2>8, <2>10
<1>8. CASE ~(bucket # <<>> /\ total > MaxChars)
  <2>1. Packed(s, x) = [full |-> full, bucket |-> Append(bucket, x), size |-> total]
    BY <1>1, <1>6, <1>8 DEF Packed
  <2>2. Append(bucket, x) \in Seq(Piece) /\ Append(bucket, x) # <<>>
    BY AppendProperties
  <2>3. total = Len(Joined(Append(bucket, x), Gap)) /\ total \in 1 .. MaxChars
    <3>1. PICK k \in 1 .. MaxChars : k = Len(x)
      BY BucketGrows
    <3>2. CASE bucket = <<>>
      <4>1. Joined(<<>>, Gap) = <<>> /\ Len(<<>>) = 0 /\ Joined(<<x>>, Gap) = x
        BY BucketGrows
      <4>2. size = 0
        BY <1>2, <3>2, <4>1
      <4>3. total = size + (k + 0)
        BY <1>6, <3>1, <3>2 DEF Addition
      <4>4. Append(bucket, x) = <<x>>
        BY <3>2
      <4> QED BY <3>1, <4>1, <4>2, <4>3, <4>4
    <3>3. CASE bucket # <<>>
      <4>1. total = size + (k + 2)
        BY <1>6, <3>1, <3>3 DEF Addition
      <4>2. Len(Joined(Append(bucket, x), Gap)) = size + 2 + k
        BY <1>2, <3>1, <3>3, BucketGrows
      <4>3. size \in Nat /\ k \in Nat /\ k # 0
        BY <1>3
      <4>4. total \in Nat /\ total # 0 /\ total = size + 2 + k
        BY <4>1, <4>3
      <4>5. total <= MaxChars
        BY <1>3, <1>8, <3>3, <4>4
      <4> QED BY <1>3, <4>2, <4>4, <4>5
    <3> QED BY <3>2, <3>3
  <2>4. total \in 0 .. MaxChars /\ total # 0
    BY <2>3
  <2>5. Packed(s, x) \in Packing
    <3>1. PICK b \in Seq(Piece) : b = Append(bucket, x)
      BY <2>2
    <3>2. PICK p : p = [full |-> full, bucket |-> b, size |-> total]
      OBVIOUS
    <3>3. p \in [full : Seq(Bucket), bucket : Seq(Piece), size : 0 .. MaxChars]
      BY <2>4, <3>2
    <3>4. p.size = Len(Joined(p.bucket, Gap)) /\ p.size # 0
      BY <2>3, <2>4, <3>1, <3>2
    <3>5. p \in Packing
      BY <3>3, <3>4 DEF Packing
    <3> QED BY <2>1, <3>1, <3>2, <3>5
  <2>6. FlattenSeq(full) \o Append(bucket, x) = Append(FlattenSeq(full) \o bucket, x)
    BY <1>4, AppendLast
  <2> QED BY <1>4, <1>5, <2>1, <2>5, <2>6 DEF Contents
<1> QED BY <1>7, <1>8

\* Packed is a fold.
LEMMA PackFolds ==
    /\ Folds(Pack, Unpacked, Packing, Piece)
    /\ \A s \in Packing, x \in Piece : Pack[<<s, x>>] = Packed(s, x)
<1>1. Pack \in [Packing \X Piece -> Packing]
  <2>1. \A s \in Packing, x \in Piece : Packed(s, x) \in Packing
    BY PackStep
  <2> HIDE DEF Packing, Piece
  <2> QED BY <2>1 DEF Pack
<1>2. Unpacked \in Packing
  <2>1. Joined(<<>>, Gap) = <<>> /\ Len(<<>>) = 0
    BY GapIsBlank, JoinedSteps
  <2>2. <<>> \in Seq(Bucket) /\ <<>> \in Seq(Piece) /\ 0 \in 0 .. MaxChars
    BY PolicyTextAssumption, EmptySeq
  <2> QED BY <2>1, <2>2 DEF Packing, Unpacked
<1>3. \A s \in Packing, x \in Piece : Pack[<<s, x>>] = Packed(s, x)
  BY DEF Pack
<1> QED BY <1>1, <1>2, <1>3 DEF Folds

LEMMA PackedIsFold ==
    ASSUME NEW ps \in Seq(Piece)
    PROVE  FoldLeft(Packed, Unpacked, ps) = FoldOf(Pack, Unpacked, ps)
<1> DEFINE F(f) == f = [T \in SUBSET DOMAIN ps |->
                   IF T = {} THEN Unpacked ELSE Packed(f[T \ {Max(T)}], ps[Max(T)])]
<1>1. FoldLeft(Packed, Unpacked, ps) = (CHOOSE f : F(f))[DOMAIN ps]
  BY DEF FoldLeft, MapThenFoldSet
<1>2. PICK h \in [SUBSET DOMAIN ps -> Packing] : Tabled(h, Pack, Unpacked, ps, DOMAIN ps)
  BY PackFolds, TableExists
<1>3. ASSUME NEW T \in SUBSET DOMAIN ps, T # {}
      PROVE  ps[Max(T)] \in Piece /\ T \ {Max(T)} \in SUBSET DOMAIN ps
  <2>1. Max(T) \in T
    BY <1>3, LastPosition
  <2> QED BY <2>1, LenProperties
<1>4. ASSUME NEW T \in SUBSET DOMAIN ps
      PROVE  h[T] = IF T = {} THEN Unpacked ELSE Packed(h[T \ {Max(T)}], ps[Max(T)])
  <2>1. CASE T = {}
    BY <1>2, <2>1 DEF Tabled
  <2>2. CASE T # {}
    <3>1. h[T \ {Max(T)}] \in Packing /\ ps[Max(T)] \in Piece
      BY <1>2, <1>3, <2>2
    <3>2. h[T] = Pack[<<h[T \ {Max(T)}], ps[Max(T)]>>]
      BY <1>2, <2>2 DEF Tabled
    <3> QED BY <2>2, <3>1, <3>2, PackFolds
  <2> QED BY <2>1, <2>2
<1>5. F(h)
  BY <1>2, <1>4
<1> HIDE DEF F
<1>6. PICK g : g = (CHOOSE f : F(f))
  OBVIOUS
<1>7. F(g)
  BY <1>5, <1>6
<1>8. Follows(g, Pack, Unpacked, Packing, ps)
  <2>1. \A T \in SUBSET DOMAIN ps :
            g[T] = IF T = {} THEN Unpacked ELSE Packed(g[T \ {Max(T)}], ps[Max(T)])
    BY <1>7 DEF F
  <2>2. g[{}] = Unpacked
    BY <2>1
  <2>3. ASSUME NEW T \in SUBSET DOMAIN ps, T # {}, g[T \ {Max(T)}] \in Packing
        PROVE  g[T] = Pack[<<g[T \ {Max(T)}], ps[Max(T)]>>]
    <3>1. ps[Max(T)] \in Piece
      BY <1>3, <2>3
    <3>2. g[T] = Packed(g[T \ {Max(T)}], ps[Max(T)])
      BY <2>1, <2>3
    <3> QED BY <2>3, <3>1, <3>2, PackFolds
  <2> QED BY <2>2, <2>3 DEF Follows
<1>9. g[DOMAIN ps] = FoldOf(Pack, Unpacked, ps)
  BY <1>8, PackFolds, TableIsFold
<1> QED BY <1>1, <1>6, <1>9

\* The buckets, one after the other, are the pieces.
LEMMA PackedHoldsAll ==
    ASSUME NEW ps \in Seq(Piece)
    PROVE  FoldOf(Pack, Unpacked, ps) \in Packing /\ Contents(FoldOf(Pack, Unpacked, ps)) = ps
<1> DEFINE G == {s \in Seq(Piece) : Contents(FoldOf(Pack, Unpacked, s)) = s}
<1>1. /\ FoldOf(Pack, Unpacked, <<>>) = Unpacked
      /\ \A s \in Seq(Piece) : FoldOf(Pack, Unpacked, s) \in Packing
      /\ \A s \in Seq(Piece), x \in Piece :
            FoldOf(Pack, Unpacked, Append(s, x)) = Pack[<<FoldOf(Pack, Unpacked, s), x>>]
  BY PackFolds, FoldSteps
<1>2. <<>> \in G
  <2>1. FlattenSeq(<<>>) = <<>> /\ <<>> \in Seq(Piece)
    BY FlattenSteps, EmptySeq
  <2>2. <<>> \o <<>> = <<>>
    BY <2>1, ConcatEmptySeq
  <2>3. PICK u : u = Unpacked
    OBVIOUS
  <2>4. u.full = <<>> /\ u.bucket = <<>>
    BY <2>3 DEF Unpacked
  <2>5. Contents(u) = <<>>
    BY <2>1, <2>2, <2>4 DEF Contents
  <2> QED BY <1>1, <2>1, <2>3, <2>5
<1>3. ASSUME NEW s \in G, NEW x \in Piece PROVE Append(s, x) \in G
  <2>1. s \in Seq(Piece) /\ Contents(FoldOf(Pack, Unpacked, s)) = s
    OBVIOUS
  <2>2. PICK v \in Packing : v = FoldOf(Pack, Unpacked, s)
    BY <1>1, <2>1
  <2>3. FoldOf(Pack, Unpacked, Append(s, x)) = Packed(v, x)
    BY <1>1, <2>1, <2>2, PackFolds
  <2>4. Contents(Packed(v, x)) = Append(Contents(v), x)
    BY PackStep
  <2>5. Append(s, x) \in Seq(Piece)
    BY <2>1, AppendProperties
  <2> QED BY <2>1, <2>2, <2>3, <2>4, <2>5
<1>4. ps \in G
  <2>1. G \in SUBSET Seq(Piece)
    OBVIOUS
  <2> HIDE DEF G
  <2> QED BY <1>2, <1>3, <2>1, SequencesAll
<1> QED BY <1>1, <1>4

InkOfBucket == [b \in Bucket |-> InkOf(Joined(b, Gap))]

\* The ink of the buckets is the ink of their pieces.
LEMMA BucketsKeepInk ==
    ASSUME NEW bs \in Seq(Bucket)
    PROVE  /\ FlattenSeq(bs) \in Seq(Piece)
           /\ Mapped(InkOfText, FlattenSeq(bs)) = Mapped(InkOfBucket, bs)
<1>1. bs \in Seq(Seq(Piece)) /\ Seq(Piece) \in SUBSET Seq(Text) /\ Bucket \in SUBSET Seq(Piece)
  BY PiecesAreTexts
<1>2. FlattenSeq(bs) \in Seq(Piece)
  BY <1>1, FlattenSteps
<1>3. PICK f : f = [u \in Seq(Piece) |-> u]
  OBVIOUS
<1>4. FlattenSeq(bs) = Mapped(f, bs)
  BY <1>1, <1>3, FlattenIsMapped
<1>5. Maps(f, Bucket, Text)
  BY <1>1, <1>3 DEF Maps
<1>6. Maps(InkOfText, Text, Characters)
  BY InkSteps
<1>7. ASSUME NEW b \in Bucket
      PROVE  InkOfBucket[b] \in Seq(Characters) /\ InkOfBucket[b] = Mapped(InkOfText, f[b])
  <2>1. b \in Seq(Text) /\ f[b] = b
    BY <1>1, <1>3
  <2>2. Joined(b, Gap) \in Text /\ InkOf(Joined(b, Gap)) = Mapped(InkOfText, b)
    BY <2>1, GapIsBlank, JoinedSteps, JoinedKeepsInk
  <2>3. InkOf(Joined(b, Gap)) \in Seq(Characters)
    BY <2>2, InkSteps DEF Text
  <2> QED BY <2>1, <2>2, <2>3 DEF InkOfBucket
<1>8. Maps(InkOfBucket, Bucket, Characters)
  BY <1>7 DEF Maps
<1>9. \A s \in Seq(Bucket) : Mapped(InkOfText, Mapped(f, s)) = Mapped(InkOfBucket, s)
  BY <1>5, <1>6, <1>7, <1>8, MappedMapped
<1> QED BY <1>2, <1>4, <1>9

\* The buckets of a section whose blocks start with ink hold its ink.
LEMMA BucketsHold ==
    ASSUME NEW section, section.blocks \in Seq(Inked)
    PROVE  /\ Buckets(section) \in Seq(Bucket)
           /\ Mapped(InkOfBucket, Buckets(section)) = Mapped(InkOfText, section.blocks)
<1>1. PICK blocks \in Seq(Inked) : blocks = section.blocks
  OBVIOUS
<1>2. \A t \in Inked : /\ t \in Text /\ Pieces[t] \in Seq(Piece)
                       /\ Mapped(InkOfText, Pieces[t]) = InkOfText[t]
  BY PiecesKeepInk DEF Inked, InkOfText
<1>3. Maps(Pieces, Inked, Piece)
  BY <1>2 DEF Maps
<1>4. Maps(InkOfText, Text, Characters)
  BY InkSteps
<1>5. Maps(InkOfText, Piece, Characters) /\ Maps(InkOfText, Inked, Characters)
  BY <1>4 DEF Maps, Piece, Inked
<1>6. PICK ps : ps = Mapped(Pieces, blocks)
  OBVIOUS
<1>7. ps \in Seq(Piece)
  BY <1>3, <1>6, MappedSteps
<1>8. Mapped(InkOfText, ps) = Mapped(InkOfText, blocks)
  <2>1. \A t \in Inked : InkOfText[t] = Mapped(InkOfText, Pieces[t])
    BY <1>2
  <2>2. \A s \in Seq(Inked) : Mapped(InkOfText, Mapped(Pieces, s)) = Mapped(InkOfText, s)
    BY <1>3, <1>5, <2>1, MappedMapped
  <2> QED BY <1>6, <2>2
<1>9. PICK end \in Packing : end = FoldLeft(Packed, Unpacked, ps) /\ Contents(end) = ps
  BY <1>7, PackedIsFold, PackedHoldsAll
<1>10. Buckets(section) = IF end.bucket = <<>> THEN end.full ELSE Append(end.full, end.bucket)
  <2>1. FlattenSeq([i \in DOMAIN section.blocks |-> Pieces[section.blocks[i]]]) = ps
    BY <1>1, <1>6 DEF Mapped
  <2> QED BY <1>9, <2>1 DEF Buckets, Unpacked
<1>11. PICK full \in Seq(Bucket), bucket \in Seq(Piece) :
           end.full = full /\ end.bucket = bucket /\ ps = FlattenSeq(full) \o bucket
  BY <1>9 DEF Packing, Contents
<1>12. full \in Seq(Seq(Piece)) /\ FlattenSeq(full) \in Seq(Piece)
  <2>1. full \in Seq(Seq(Piece))
    BY PiecesAreTexts
  <2> QED BY <2>1, FlattenSteps
<1>13. Buckets(section) \in Seq(Bucket) /\ FlattenSeq(Buckets(section)) = ps
  <2>1. CASE bucket = <<>>
    <3>1. FlattenSeq(full) \o <<>> = FlattenSeq(full)
      BY <1>12, ConcatEmptySeq
    <3> QED BY <1>10, <1>11, <2>1, <3>1
  <2>2. CASE bucket # <<>>
    <3>1. bucket \in Bucket
      BY <1>9, <1>11, <2>2, PolicyTextAssumption DEF Packing, Bucket
    <3>2. Append(full, bucket) \in Seq(Bucket)
      BY <3>1, AppendProperties
    <3>3. FlattenSeq(Append(full, bucket)) = FlattenSeq(full) \o bucket
      BY <1>12, FlattenSteps
    <3> QED BY <1>10, <1>11, <2>2, <3>2, <3>3
  <2> QED BY <2>1, <2>2
<1>14. Mapped(InkOfBucket, Buckets(section)) = Mapped(InkOfText, ps)
  BY <1>13, BucketsKeepInk
<1> QED BY <1>1, <1>8, <1>13, <1>14

-----------------------------------------------------------------------------
(* Passages of sections.                                                   *)

\* What the two steps hand on: sections with their pages, and passages.
Titles == Headings \union {Untitled}
Section == [title : Titles, page : Nat, blocks : Seq(Inked)]
Passage == {p \in [title : Titles, page : Nat, content : Text] : Len(p.content) \in 1 .. MaxChars}

InkOfSection == [s \in Section |-> Mapped(InkOfText, s.blocks)]
InkOfPassage == [p \in Passage |-> InkOf(p.content)]

PassagesOf ==
    [s \in Section |->
        [i \in DOMAIN Buckets(s) |->
            [title |-> s.title, page |-> s.page, content |-> Joined(Buckets(s)[i], Gap)]]]

\* The passages of a section carry its title and its page and hold its ink.
LEMMA PassagesOfSection ==
    ASSUME NEW s \in Section
    PROVE  /\ PassagesOf[s] \in Seq(Passage)
           /\ \A p \in ToSet(PassagesOf[s]) : p.title = s.title /\ p.page = s.page
           /\ Mapped(InkOfPassage, PassagesOf[s]) = InkOfSection[s]
           /\ InkOfSection[s] \in Seq(Characters)
<1>1. s.blocks \in Seq(Inked) /\ s.title \in Titles /\ s.page \in Nat
  BY DEF Section
<1>2. PICK bs \in Seq(Bucket) : bs = Buckets(s) /\ Mapped(InkOfBucket, bs) = Mapped(InkOfText, s.blocks)
  BY <1>1, BucketsHold
<1>3. PICK n \in Nat : DOMAIN bs = 1 .. n /\ \A i \in 1 .. n : bs[i] \in Bucket
  BY LenProperties
<1>4. PICK c : c = PassagesOf[s]
  OBVIOUS
<1>5. c = [i \in 1 .. n |-> [title |-> s.title, page |-> s.page, content |-> Joined(bs[i], Gap)]]
  BY <1>2, <1>3, <1>4 DEF PassagesOf
<1>6. ASSUME NEW i \in 1 .. n
      PROVE  /\ c[i] \in Passage /\ c[i].title = s.title /\ c[i].page = s.page
             /\ InkOfPassage[c[i]] = InkOfBucket[bs[i]]
  <2>1. PICK b \in Bucket : b = bs[i]
    BY <1>3
  <2>2. Joined(b, Gap) \in Text /\ Len(Joined(b, Gap)) \in 1 .. MaxChars
    <3>1. b \in Seq(Text)
      BY PiecesAreTexts
    <3>2. Joined(b, Gap) \in Text
      BY <3>1, GapIsBlank, JoinedSteps
    <3> QED BY <3>2 DEF Bucket
  <2>3. PICK p : p = [title |-> s.title, page |-> s.page, content |-> Joined(b, Gap)]
    OBVIOUS
  <2>4. p \in Passage
    BY <1>1, <2>2, <2>3 DEF Passage
  <2>5. c[i] = p
    BY <1>5, <2>1, <2>3
  <2>6. InkOfPassage[p] = InkOf(Joined(b, Gap)) /\ InkOfBucket[b] = InkOf(Joined(b, Gap))
    BY <2>3, <2>4 DEF InkOfPassage, InkOfBucket
  <2> QED BY <2>1, <2>3, <2>4, <2>5, <2>6
<1>7. c \in Seq(Passage) /\ DOMAIN c = 1 .. n
  <2>1. c \in [1 .. n -> Passage]
    <3>1. c = [i \in 1 .. n |-> c[i]]
      BY <1>5
    <3> QED BY <1>6, <3>1
  <2> QED BY <2>1, TupleIsSeq
<1>8. \A p \in ToSet(c) : p.title = s.title /\ p.page = s.page
  BY <1>6, <1>7 DEF ToSet
<1>9. Mapped(InkOfPassage, c) = Mapped(InkOfBucket, bs)
  <2>1. [i \in DOMAIN c |-> InkOfPassage[c[i]]] = [i \in DOMAIN bs |-> InkOfBucket[bs[i]]]
    BY <1>3, <1>6, <1>7
  <2> QED BY <2>1 DEF Mapped
<1>10. InkOfSection[s] = Mapped(InkOfText, s.blocks)
  BY DEF InkOfSection
<1>11. Mapped(InkOfText, s.blocks) \in Seq(Characters)
  <2>1. Maps(InkOfText, Text, Characters)
    BY InkSteps
  <2>2. Maps(InkOfText, Inked, Characters)
    BY <2>1 DEF Maps, Inked
  <2> QED BY <1>1, <2>2, MappedSteps
<1> QED BY <1>2, <1>4, <1>7, <1>8, <1>9, <1>10, <1>11

\* Chunked sections: the ink of the sections, in passages that are each of one
\* section.
LEMMA ChunkedHolds ==
    ASSUME NEW ss \in Seq(Section)
    PROVE  /\ Chunked(ss) \in Seq(Passage)
           /\ Mapped(InkOfPassage, Chunked(ss)) = Mapped(InkOfSection, ss)
           /\ \A p \in ToSet(Chunked(ss)) : \E s \in ToSet(ss) :
                 /\ p.title = s.title /\ p.page = s.page
                 /\ ToSet(InkOf(p.content)) \subseteq ToSet(InkOfSection[s])
<1>1. Chunked(ss) = Mapped(PassagesOf, ss)
  <2>1. \A n \in DOMAIN ss : ss[n] \in Section
    BY LenProperties
  <2>2. [n \in DOMAIN ss |->
          LET buckets == Buckets(ss[n])
          IN  [i \in DOMAIN buckets |->
                 [title |-> ss[n].title, page |-> ss[n].page,
                  content |-> Joined(buckets[i], <<LineBreak, LineBreak>>)]]]
        = [n \in DOMAIN ss |-> PassagesOf[ss[n]]]
    BY <2>1 DEF PassagesOf, Gap
  <2> QED BY <2>2 DEF Chunked, Mapped
<1>2. /\ Maps(PassagesOf, Section, Passage) /\ Maps(InkOfSection, Section, Characters)
      /\ \A s \in Section : InkOfSection[s] = Mapped(InkOfPassage, PassagesOf[s])
  BY PassagesOfSection DEF Maps
<1>3. Maps(InkOfPassage, Passage, Characters)
  <2>1. \A p \in Passage : p.content \in Text
    BY DEF Passage
  <2>2. \A p \in Passage : InkOf(p.content) \in Seq(Characters)
    BY <2>1, InkSteps DEF Text
  <2> QED BY <2>2 DEF Maps, InkOfPassage
<1>4. Chunked(ss) \in Seq(Passage)
  BY <1>1, <1>2, MappedSteps
<1>5. Mapped(InkOfPassage, Chunked(ss)) = Mapped(InkOfSection, ss)
  <2>1. \A t \in Seq(Section) : Mapped(InkOfPassage, Mapped(PassagesOf, t)) = Mapped(InkOfSection, t)
    BY <1>2, <1>3, MappedMapped
  <2> QED BY <1>1, <2>1
<1>6. ASSUME NEW p \in ToSet(Chunked(ss))
      PROVE  \E s \in ToSet(ss) : /\ p.title = s.title /\ p.page = s.page
                                  /\ ToSet(InkOf(p.content)) \subseteq ToSet(InkOfSection[s])
  <2>1. ToSet(Mapped(PassagesOf, ss)) = UNION {ToSet(PassagesOf[s]) : s \in ToSet(ss)}
    BY <1>2, MappedRange
  <2>2. PICK s \in ToSet(ss) : p \in ToSet(PassagesOf[s])
    BY <1>1, <2>1
  <2>3. s \in Section
    BY ToSetSteps
  <2>4. /\ PassagesOf[s] \in Seq(Passage) /\ p.title = s.title /\ p.page = s.page
        /\ Mapped(InkOfPassage, PassagesOf[s]) = InkOfSection[s]
    BY <2>2, <2>3, PassagesOfSection
  <2>5. p \in Passage
    BY <2>2, <2>4, ToSetSteps
  <2>6. ToSet(InkOfSection[s]) = UNION {ToSet(InkOfPassage[q]) : q \in ToSet(PassagesOf[s])}
    BY <1>3, <2>4, MappedRange
  <2>7. InkOfPassage[p] = InkOf(p.content)
    BY <2>5 DEF InkOfPassage
  <2>8. ToSet(InkOf(p.content)) \subseteq ToSet(InkOfSection[s])
    BY <2>2, <2>6, <2>7
  <2> QED BY <2>4, <2>8
<1> QED BY <1>4, <1>5, <1>6

-----------------------------------------------------------------------------
(* Sections of a page.                                                     *)

\* Between two lines of a block; the state of the fold that reads a page.
LineSep == <<LineBreak>>

PageSection == [title : Titles, blocks : Seq(Inked) \ {<<>>}]
Reading == [sections : Seq(PageSection), title : Titles, blocks : Seq(Inked), buffer : Seq(Text)]
Unread == [sections |-> <<>>, title |-> Untitled, blocks |-> <<>>, buffer |-> <<>>]

InkOfPageSection == [s \in PageSection |-> Mapped(InkOfText, s.blocks)]
Pending(s) == Mapped(InkOfText, s.blocks) \o Mapped(InkOfText, s.buffer)
ToldSoFar(s) == Mapped(InkOfPageSection, s.sections) \o Pending(s)

LEMMA LineSepIsBlank ==
    LineSep \in Text /\ InkOf(LineSep) = <<>>
<1>1. PICK l \in Characters : l = LineBreak
  BY PolicyTextAssumption
<1>2. PICK g : g = <<l>>
  OBVIOUS
<1>3. g \in Seq(Characters) /\ DOMAIN g = 1 .. 1 /\ g[1] = l
  BY <1>2
<1>4. LineSep \in Text /\ InkAt(LineSep) = {}
  BY <1>1, <1>2, <1>3 DEF LineSep, Text, InkAt, Spaces
<1> QED BY <1>4, NoInk

LEMMA LinesAreTexts ==
    /\ Lines \in SUBSET Text /\ Headings \in SUBSET Lines /\ Headings \in SUBSET Titles
    /\ Seq(Inked) \in SUBSET Seq(Text) /\ Seq(Lines) \in SUBSET Seq(Text) /\ Untitled \in Titles
<1>1. Lines \in SUBSET Text /\ Headings \in SUBSET Lines
  BY PolicyTextAssumption DEF Lines, Text
<1>2. Headings \in SUBSET Titles /\ Untitled \in Titles
  BY DEF Titles
<1>3. Inked \in SUBSET Text
  BY DEF Inked
<1> QED BY <1>1, <1>2, <1>3, SeqOfPart

\* The ink of blocks, of lines and of sections.
LEMMA InkOfTexts ==
    /\ Maps(InkOfText, Text, Characters) /\ Maps(InkOfText, Inked, Characters)
    /\ Maps(InkOfPageSection, PageSection, Characters)
    /\ \A b \in Seq(Inked) : Mapped(InkOfText, b) \in Seq(Characters)
    /\ \A b \in Seq(Text) : Mapped(InkOfText, b) \in Seq(Characters)
    /\ Mapped(InkOfText, <<>>) = <<>> /\ Mapped(InkOfPageSection, <<>>) = <<>>
    /\ \A b \in Seq(PageSection) : Mapped(InkOfPageSection, b) \in Seq(Characters)
<1>1. Maps(InkOfText, Text, Characters)
  BY InkSteps
<1>2. Maps(InkOfText, Inked, Characters)
  BY <1>1 DEF Maps, Inked
<1>3. Mapped(InkOfText, <<>>) = <<>> /\ \A b \in Seq(Text) : Mapped(InkOfText, b) \in Seq(Characters)
  BY <1>1, MappedSteps
<1>4. \A b \in Seq(Inked) : Mapped(InkOfText, b) \in Seq(Characters)
  BY <1>2, MappedSteps
<1>5. Maps(InkOfPageSection, PageSection, Characters)
  <2>1. \A s \in PageSection : s.blocks \in Seq(Inked)
    BY DEF PageSection
  <2> QED BY <1>4, <2>1 DEF Maps, InkOfPageSection
<1>6. /\ Mapped(InkOfPageSection, <<>>) = <<>>
      /\ \A b \in Seq(PageSection) : Mapped(InkOfPageSection, b) \in Seq(Characters)
  BY <1>5, MappedSteps
<1> QED BY <1>1, <1>2, <1>3, <1>4, <1>5, <1>6

\* The lines read so far become a block, unless they are blank.
LEMMA BlockClosedKeeps ==
    ASSUME NEW s \in Reading
    PROVE  /\ BlockClosed(s) \in Reading
           /\ BlockClosed(s).sections = s.sections /\ BlockClosed(s).title = s.title
           /\ BlockClosed(s).buffer = <<>>
           /\ Mapped(InkOfText, BlockClosed(s).blocks) = Pending(s)
<1>1. PICK sections \in Seq(PageSection), title \in Titles, blocks \in Seq(Inked), buffer \in Seq(Text) :
          s = [sections |-> sections, title |-> title, blocks |-> blocks, buffer |-> buffer]
  BY DEF Reading
<1>2. PICK block : block = Strip(Joined(buffer, LineSep))
  OBVIOUS
<1>3. /\ block \in Text /\ InkOf(block) = Mapped(InkOfText, buffer)
      /\ block # <<>> => block \in Inked
      /\ block = <<>> => InkOf(block) = <<>>
  <2>1. Joined(buffer, LineSep) \in Text
    BY LineSepIsBlank, JoinedSteps
  <2>2. InkOf(Joined(buffer, LineSep)) = Mapped(InkOfText, buffer)
    BY LineSepIsBlank, JoinedKeepsInk
  <2>3. /\ block \in Text /\ InkOf(block) = InkOf(Joined(buffer, LineSep))
        /\ block # <<>> => block[1] \notin Spaces
    BY <1>2, <2>1, StripKeepsInk
  <2> QED BY <2>2, <2>3, InkSteps DEF Inked
<1>4. PICK c : c = BlockClosed(s)
  OBVIOUS
<1>5. c = [sections |-> sections, title |-> title,
           blocks |-> IF block = <<>> THEN blocks ELSE Append(blocks, block), buffer |-> <<>>]
  BY <1>1, <1>2, <1>4 DEF BlockClosed, LineSep
<1>6. c.blocks \in Seq(Inked) /\ Mapped(InkOfText, c.blocks) = Pending(s)
  <2>1. Mapped(InkOfText, blocks) \in Seq(Characters)
    BY InkOfTexts
  <2>2. Pending(s) = Mapped(InkOfText, blocks) \o InkOf(block)
    BY <1>1, <1>3 DEF Pending
  <2>3. CASE block = <<>>
    <3>1. Mapped(InkOfText, blocks) \o <<>> = Mapped(InkOfText, blocks)
      BY <2>1, ConcatEmptySeq
    <3> QED BY <1>3, <1>5, <2>2, <2>3, <3>1
  <2>4. CASE block # <<>>
    <3>1. block \in Inked /\ Append(blocks, block) \in Seq(Inked)
      BY <1>3, <2>4, AppendProperties
    <3>2. \A b \in Seq(Inked), x \in Inked :
              Mapped(InkOfText, Append(b, x)) = Mapped(InkOfText, b) \o InkOfText[x]
      BY InkOfTexts, MappedSteps
    <3>3. InkOfText[block] = InkOf(block)
      BY <1>3 DEF InkOfText
    <3>4. Mapped(InkOfText, Append(blocks, block)) = Mapped(InkOfText, blocks) \o InkOf(block)
      BY <3>1, <3>2, <3>3
    <3> QED BY <1>5, <2>2, <2>4, <3>1, <3>4
  <2> QED BY <2>3, <2>4
<1>7. c.sections = sections /\ c.title = title /\ c.buffer = <<>> /\ <<>> \in Seq(Text)
  BY <1>5, EmptySeq
<1>8. c \in Reading
  BY <1>5, <1>6, <1>7 DEF Reading
<1> QED BY <1>1, <1>4, <1>6, <1>7, <1>8

\* The blocks read so far become a section, unless there are none.
LEMMA SectionClosedKeeps ==
    ASSUME NEW s \in Reading
    PROVE  /\ SectionClosed(s) \in Reading
           /\ SectionClosed(s).title = s.title /\ SectionClosed(s).buffer = <<>>
           /\ Mapped(InkOfPageSection, SectionClosed(s).sections) = ToldSoFar(s)
           /\ \A x \in ToSet(SectionClosed(s).sections) :
                 \/ x \in ToSet(s.sections)
                 \/ x.title = s.title /\ InkOfPageSection[x] = Pending(s)
<1>1. PICK b : b = BlockClosed(s)
  OBVIOUS
<1>2. /\ b \in Reading /\ b.sections = s.sections /\ b.title = s.title /\ b.buffer = <<>>
      /\ Mapped(InkOfText, b.blocks) = Pending(s)
  BY <1>1, BlockClosedKeeps
<1>3. PICK sections \in Seq(PageSection), title \in Titles, blocks \in Seq(Inked) :
          b = [sections |-> sections, title |-> title, blocks |-> blocks, buffer |-> <<>>]
  BY <1>2 DEF Reading
<1>4. PICK x : x = [title |-> title, blocks |-> blocks]
  OBVIOUS
<1>5. PICK c : c = SectionClosed(s)
  OBVIOUS
<1>6. c = [sections |-> IF blocks = <<>> THEN sections ELSE Append(sections, x),
           title |-> title, blocks |-> blocks, buffer |-> <<>>]
  <2>1. SectionClosed(s) =
          [b EXCEPT !.sections = IF b.blocks = <<>> THEN b.sections
                                 ELSE Append(b.sections, [title |-> b.title, blocks |-> b.blocks])]
    BY <1>1, <1>2, <1>3 DEF SectionClosed
  <2> QED BY <1>3, <1>4, <1>5, <2>1
<1>7. Mapped(InkOfPageSection, sections) \in Seq(Characters)
  BY InkOfTexts
<1>8. /\ c.sections \in Seq(PageSection)
      /\ Mapped(InkOfPageSection, c.sections) = Mapped(InkOfPageSection, sections) \o Pending(s)
      /\ \A y \in ToSet(c.sections) :
            \/ y \in ToSet(sections)
            \/ y.title = title /\ InkOfPageSection[y] = Pending(s)
  <2>1. CASE blocks = <<>>
    <3>1. Pending(s) = <<>>
      BY <1>2, <1>3, <2>1, InkOfTexts
    <3>2. Mapped(InkOfPageSection, sections) \o <<>> = Mapped(InkOfPageSection, sections)
      BY <1>7, ConcatEmptySeq
    <3>3. c.sections = sections
      BY <1>6, <2>1
    <3> QED BY <3>1, <3>2, <3>3
  <2>2. CASE blocks # <<>>
    <3>1. x \in PageSection
      BY <1>4, <2>2 DEF PageSection
    <3>2. InkOfPageSection[x] = Pending(s)
      BY <1>2, <1>3, <1>4, <3>1 DEF InkOfPageSection
    <3>3. Append(sections, x) \in Seq(PageSection)
      BY <3>1, AppendProperties
    <3>4. \A t \in Seq(PageSection), y \in PageSection :
              Mapped(InkOfPageSection, Append(t, y)) = Mapped(InkOfPageSection, t) \o InkOfPageSection[y]
      BY InkOfTexts, MappedSteps
    <3>5. ToSet(Append(sections, x)) = ToSet(sections) \union {x}
      BY <3>1, ToSetSteps
    <3>6. c.sections = Append(sections, x) /\ x.title = title
      BY <1>4, <1>6, <2>2
    <3> QED BY <3>1, <3>2, <3>3, <3>4, <3>5, <3>6
  <2> QED BY <2>1, <2>2
<1>9. c \in Reading /\ c.title = title /\ c.buffer = <<>>
  <2>1. <<>> \in Seq(Text)
    BY EmptySeq
  <2>2. c.sections \in Seq(PageSection) /\ c.title = title /\ c.buffer = <<>> /\ c.blocks = blocks
    BY <1>6, <1>8
  <2> QED BY <1>6, <2>1, <2>2 DEF Reading
<1>10. ToldSoFar(s) = Mapped(InkOfPageSection, sections) \o Pending(s) /\ title = s.title
       /\ sections = s.sections
  BY <1>2, <1>3 DEF ToldSoFar
<1> QED BY <1>5, <1>8, <1>9, <1>10

\* The ink of a line that is not a heading, and a step of the reading.
SaidOf == [l \in Lines |-> IF l \in Headings THEN <<>> ELSE InkOf(l)]
Read == [p \in Reading \X Lines |-> LineRead(p[1], p[2])]

LEMMA TextsAssociate ==
    \A a, b, c \in Seq(Characters) : (a \o b) \o c = a \o (b \o c)
<1>1. PICK D : D = Seq(Characters)
  OBVIOUS
<1>2. \A a, b, c \in D : (a \o b) \o c = a \o (b \o c)
  BY <1>1, ConcatAssociates
<1> QED BY <1>1, <1>2

\* A line more: what was told, and the line.
LEMMA LineReadKeeps ==
    ASSUME NEW s \in Reading, NEW l \in Lines
    PROVE  /\ LineRead(s, l) \in Reading
           /\ ToldSoFar(LineRead(s, l)) = ToldSoFar(s) \o SaidOf[l]
           /\ l \in Headings =>
                 /\ LineRead(s, l).title = l /\ Pending(LineRead(s, l)) = <<>>
                 /\ LineRead(s, l).sections = SectionClosed(s).sections
           /\ l \notin Headings =>
                 /\ LineRead(s, l).title = s.title /\ LineRead(s, l).sections = s.sections
                 /\ Pending(LineRead(s, l)) = Pending(s) \o InkOf(l)
<1>1. /\ s.sections \in Seq(PageSection) /\ s.title \in Titles /\ s.blocks \in Seq(Inked)
      /\ s.buffer \in Seq(Text)
  BY DEF Reading
<1>2. l \in Text /\ <<>> \in Seq(Inked) /\ <<>> \in Seq(Text) /\ <<>> \o <<>> = <<>>
  BY LinesAreTexts, EmptySeq
<1>3. PICK v : v = LineRead(s, l)
  OBVIOUS
<1>4. PICK sec, blk, buf : /\ sec = Mapped(InkOfPageSection, s.sections)
                           /\ blk = Mapped(InkOfText, s.blocks) /\ buf = Mapped(InkOfText, s.buffer)
  OBVIOUS
<1>5. sec \in Seq(Characters) /\ blk \in Seq(Characters) /\ buf \in Seq(Characters)
  BY <1>1, <1>4, InkOfTexts
<1>6. InkOf(l) \in Seq(Characters)
  BY <1>2, InkSteps DEF Text
<1>7. Pending(s) = blk \o buf /\ ToldSoFar(s) = sec \o (blk \o buf)
  BY <1>4 DEF Pending, ToldSoFar
<1>8. blk \o buf \in Seq(Characters) /\ ToldSoFar(s) \in Seq(Characters)
  BY <1>5, <1>7, ConcatProperties
<1>9. CASE l \in Headings
  <2>1. PICK c : c = SectionClosed(s)
    OBVIOUS
  <2>2. /\ c \in Reading /\ c.buffer = <<>>
        /\ Mapped(InkOfPageSection, c.sections) = ToldSoFar(s)
    BY <2>1, SectionClosedKeeps
  <2>3. PICK cs \in Seq(PageSection) : cs = c.sections
    BY <2>2 DEF Reading
  <2>4. v = [c EXCEPT !.title = l, !.blocks = <<>>]
    <3>1. LineRead(s, l) = [SectionClosed(s) EXCEPT !.title = l, !.blocks = <<>>]
      BY <1>9 DEF LineRead
    <3> QED BY <1>3, <2>1, <3>1
  <2>5. v = [sections |-> cs, title |-> l, blocks |-> <<>>, buffer |-> <<>>]
    BY <2>2, <2>3, <2>4 DEF Reading
  <2>6. l \in Titles
    BY <1>9 DEF Titles
  <2>7. v \in Reading
    BY <1>2, <2>5, <2>6 DEF Reading
  <2>8. v.title = l /\ v.sections = cs /\ v.blocks = <<>> /\ v.buffer = <<>>
    BY <2>5
  <2>9. Pending(v) = <<>>
    BY <1>2, <2>8, InkOfTexts DEF Pending
  <2>10. ToldSoFar(v) = ToldSoFar(s) \o <<>>
    BY <2>2, <2>3, <2>8, <2>9 DEF ToldSoFar
  <2>11. SaidOf[l] = <<>>
    BY <1>9 DEF SaidOf
  <2> QED BY <1>3, <1>9, <2>1, <2>3, <2>7, <2>8, <2>9, <2>10, <2>11
<1>10. CASE l \notin Headings /\ Strip(l) = <<>>
  <2>1. v = BlockClosed(s)
    BY <1>3, <1>10 DEF LineRead
  <2>2. InkOf(l) = <<>>
    BY <1>2, <1>10, StripKeepsInk
  <2>3. /\ v \in Reading /\ v.sections = s.sections /\ v.title = s.title /\ v.buffer = <<>>
        /\ Mapped(InkOfText, v.blocks) = Pending(s)
    BY <2>1, BlockClosedKeeps
  <2>4. Pending(v) = Pending(s) \o <<>>
    BY <2>3, InkOfTexts DEF Pending
  <2>5. Pending(s) \o <<>> = Pending(s) /\ ToldSoFar(s) \o <<>> = ToldSoFar(s)
    BY <1>7, <1>8, ConcatEmptySeq
  <2>6. ToldSoFar(v) = ToldSoFar(s)
    BY <1>4, <1>7, <2>3, <2>4, <2>5 DEF ToldSoFar
  <2>7. SaidOf[l] = <<>>
    BY <1>10, <2>2 DEF SaidOf
  <2> QED BY <1>3, <1>10, <2>2, <2>3, <2>4, <2>5, <2>6, <2>7
<1>11. CASE l \notin Headings /\ Strip(l) # <<>>
  <2>1. v = [s EXCEPT !.buffer = Append(s.buffer, StripRight(l))]
    BY <1>3, <1>11 DEF LineRead
  <2>2. PICK r \in Text : r = StripRight(l) /\ InkOf(r) = InkOf(l)
    BY <1>2, StripKeepsInk
  <2>3. Append(s.buffer, r) \in Seq(Text)
    BY <1>1, AppendProperties
  <2>4. /\ v \in Reading /\ v.sections = s.sections /\ v.title = s.title /\ v.blocks = s.blocks
        /\ v.buffer = Append(s.buffer, r)
    BY <2>1, <2>2, <2>3 DEF Reading
  <2>5. Mapped(InkOfText, v.buffer) = buf \o InkOf(l)
    <3>1. \A b \in Seq(Text), x \in Text :
              Mapped(InkOfText, Append(b, x)) = Mapped(InkOfText, b) \o InkOfText[x]
      BY InkOfTexts, MappedSteps
    <3>2. InkOfText[r] = InkOf(l)
      BY <2>2 DEF InkOfText
    <3> QED BY <1>1, <1>4, <2>4, <3>1, <3>2
  <2>6. Pending(v) = blk \o (buf \o InkOf(l))
    BY <1>4, <2>4, <2>5 DEF Pending
  <2>7. blk \o (buf \o InkOf(l)) = (blk \o buf) \o InkOf(l)
    BY <1>5, <1>6, TextsAssociate
  <2>8. sec \o ((blk \o buf) \o InkOf(l)) = (sec \o (blk \o buf)) \o InkOf(l)
    <3>1. PICK bb \in Seq(Characters), k \in Seq(Characters) : bb = blk \o buf /\ k = InkOf(l)
      BY <1>6, <1>8
    <3>2. PICK sc \in Seq(Characters) : sc = sec
      BY <1>5
    <3>3. sc \o (bb \o k) = (sc \o bb) \o k
      BY TextsAssociate
    <3> QED BY <3>1, <3>2, <3>3
  <2>9. ToldSoFar(v) = ToldSoFar(s) \o InkOf(l)
    BY <1>4, <1>7, <2>4, <2>6, <2>7, <2>8 DEF ToldSoFar
  <2>10. SaidOf[l] = InkOf(l)
    BY <1>11 DEF SaidOf
  <2> QED BY <1>3, <1>7, <1>11, <2>4, <2>6, <2>7, <2>9, <2>10
<1> QED BY <1>9, <1>10, <1>11

\* The title at the end of a page, one line on, and what stands under a title.
Grows(page, l, longer, n) ==
    /\ \A t : Under(page, t) \subseteq Under(longer, t)
    /\ TitleAt(longer, n + 1) = IF l \in Headings THEN l ELSE TitleAt(page, n)
    /\ ToSet(l) \subseteq Under(longer, TitleAt(longer, n + 1))
    /\ longer \in Seq(Lines) /\ Len(longer) = n + 1

LEMMA UnderGrows ==
    ASSUME NEW page \in Seq(Lines), NEW l \in Lines
    PROVE  Grows(page, l, Append(page, l), Len(page))
<1>1. PICK longer : longer = Append(page, l)
  OBVIOUS
<1>2. PICK n \in Nat : n = Len(page)
  BY LenProperties
<1>3. /\ longer \in Seq(Lines) /\ Len(longer) = n + 1 /\ longer[n + 1] = l
      /\ \A i \in 1 .. n : longer[i] = page[i]
      /\ DOMAIN page = 1 .. n /\ DOMAIN longer = 1 .. n + 1
  <2>1. /\ longer \in Seq(Lines) /\ Len(longer) = n + 1 /\ longer[n + 1] = l
        /\ \A i \in 1 .. n : longer[i] = page[i]
    BY <1>1, <1>2, AppendProperties
  <2> QED BY <1>2, <2>1, LenProperties
<1> DEFINE Over(p, i) == {j \in 1 .. i : p[j] \in Headings}
<1>4. ASSUME NEW i \in 0 .. n PROVE Over(longer, i) = Over(page, i) /\ Over(page, i) \subseteq 1 .. n
  BY <1>3
<1>5. ASSUME NEW T, T \in SUBSET (1 .. n + 1), T # {} PROVE Max(T) \in T
  <2>1. IsFiniteSet(1 .. n + 1)
    BY FS_Interval
  <2>2. IsFiniteSet(T)
    BY <1>5, <2>1, FS_Subset
  <2>3. T \in SUBSET Int
    BY <1>5
  <2> QED BY <1>5, <2>2, <2>3, LastNumber
<1>6. ASSUME NEW i \in 0 .. n PROVE TitleAt(longer, i) = TitleAt(page, i)
  <2>1. PICK T : T = Over(page, i)
    OBVIOUS
  <2>2. T = Over(longer, i) /\ T \subseteq 1 .. n
    BY <1>4, <2>1
  <2>3. T # {} => longer[Max(T)] = page[Max(T)]
    <3>1. T \in SUBSET (1 .. n + 1)
      BY <2>2
    <3>2. T # {} => Max(T) \in 1 .. n
      BY <1>5, <2>2, <3>1
    <3> QED BY <1>3, <3>2
  <2>4. TitleAt(page, i) = IF T = {} THEN Untitled ELSE page[Max(T)]
    BY <2>1 DEF TitleAt
  <2>5. TitleAt(longer, i) = IF T = {} THEN Untitled ELSE longer[Max(T)]
    BY <2>2 DEF TitleAt
  <2> QED BY <2>3, <2>4, <2>5
<1>7. TitleAt(longer, n + 1) = IF l \in Headings THEN l ELSE TitleAt(page, n)
  <2>1. PICK T : T = Over(longer, n + 1)
    OBVIOUS
  <2>2. TitleAt(longer, n + 1) = IF T = {} THEN Untitled ELSE longer[Max(T)]
    BY <2>1 DEF TitleAt
  <2>3. CASE l \in Headings
    <3>1. n + 1 \in T /\ T \in SUBSET Int /\ \A j \in T : n + 1 >= j
      BY <1>3, <2>1, <2>3
    <3>2. Max(T) = n + 1
      BY <3>1, GreatestIs
    <3> QED BY <1>3, <2>2, <2>3, <3>1, <3>2
  <2>4. CASE l \notin Headings
    <3>1. T = Over(longer, n)
      BY <1>3, <2>1, <2>4
    <3>2. TitleAt(longer, n + 1) = TitleAt(longer, n)
      BY <2>2, <3>1 DEF TitleAt
    <3> QED BY <1>6, <2>4, <3>2
  <2> QED BY <2>3, <2>4
<1>8. ASSUME NEW t PROVE Under(page, t) \subseteq Under(longer, t)
  <2> SUFFICES ASSUME NEW c \in Under(page, t) PROVE c \in Under(longer, t)
    OBVIOUS
  <2>1. PICK j \in DOMAIN page : TitleAt(page, j) = t /\ c \in ToSet(page[j])
    BY DEF Under
  <2>2. j \in 1 .. n /\ j \in 0 .. n /\ j \in DOMAIN longer
    BY <1>3
  <2>3. TitleAt(longer, j) = t /\ longer[j] = page[j]
    BY <1>3, <1>6, <2>1, <2>2
  <2> QED BY <2>1, <2>2, <2>3 DEF Under
<1>9. ToSet(l) \subseteq Under(longer, TitleAt(longer, n + 1))
  <2>1. n + 1 \in DOMAIN longer
    BY <1>3
  <2> QED BY <1>3, <2>1 DEF Under
<1>10. Grows(page, l, longer, n)
  BY <1>3, <1>7, <1>8, <1>9 DEF Grows
<1> QED BY <1>1, <1>2, <1>10

\* LineRead is a fold.
LEMMA ReadFolds ==
    /\ Folds(Read, Unread, Reading, Lines)
    /\ \A s \in Reading, l \in Lines : Read[<<s, l>>] = LineRead(s, l)
<1>1. Read \in [Reading \X Lines -> Reading]
  <2>1. \A s \in Reading, l \in Lines : LineRead(s, l) \in Reading
    BY LineReadKeeps
  <2> HIDE DEF Reading, Lines
  <2> QED BY <2>1 DEF Read
<1>2. Unread \in Reading
  <2>1. <<>> \in Seq(PageSection) /\ <<>> \in Seq(Inked) /\ <<>> \in Seq(Text) /\ Untitled \in Titles
    BY EmptySeq, LinesAreTexts
  <2> QED BY <2>1 DEF Reading, Unread
<1>3. \A s \in Reading, l \in Lines : Read[<<s, l>>] = LineRead(s, l)
  BY DEF Read
<1> QED BY <1>1, <1>2, <1>3 DEF Folds

LEMMA ReadIsFold ==
    ASSUME NEW page \in Seq(Lines)
    PROVE  FoldLeft(LineRead, Unread, page) = FoldOf(Read, Unread, page)
<1> DEFINE F(f) == f = [T \in SUBSET DOMAIN page |->
                   IF T = {} THEN Unread ELSE LineRead(f[T \ {Max(T)}], page[Max(T)])]
<1>1. FoldLeft(LineRead, Unread, page) = (CHOOSE f : F(f))[DOMAIN page]
  BY DEF FoldLeft, MapThenFoldSet
<1>2. PICK h \in [SUBSET DOMAIN page -> Reading] : Tabled(h, Read, Unread, page, DOMAIN page)
  BY ReadFolds, TableExists
<1>3. ASSUME NEW T \in SUBSET DOMAIN page, T # {}
      PROVE  page[Max(T)] \in Lines /\ T \ {Max(T)} \in SUBSET DOMAIN page
  <2>1. Max(T) \in T
    BY <1>3, LastPosition
  <2> QED BY <2>1, LenProperties
<1>4. ASSUME NEW T \in SUBSET DOMAIN page
      PROVE  h[T] = IF T = {} THEN Unread ELSE LineRead(h[T \ {Max(T)}], page[Max(T)])
  <2>1. CASE T = {}
    BY <1>2, <2>1 DEF Tabled
  <2>2. CASE T # {}
    <3>1. h[T \ {Max(T)}] \in Reading /\ page[Max(T)] \in Lines
      BY <1>2, <1>3, <2>2
    <3>2. h[T] = Read[<<h[T \ {Max(T)}], page[Max(T)]>>]
      BY <1>2, <2>2 DEF Tabled
    <3> QED BY <2>2, <3>1, <3>2, ReadFolds
  <2> QED BY <2>1, <2>2
<1>5. F(h)
  BY <1>2, <1>4
<1> HIDE DEF F
<1>6. PICK g : g = (CHOOSE f : F(f))
  OBVIOUS
<1>7. F(g)
  BY <1>5, <1>6
<1>8. Follows(g, Read, Unread, Reading, page)
  <2>1. \A T \in SUBSET DOMAIN page :
            g[T] = IF T = {} THEN Unread ELSE LineRead(g[T \ {Max(T)}], page[Max(T)])
    BY <1>7 DEF F
  <2>2. g[{}] = Unread
    BY <2>1
  <2>3. ASSUME NEW T \in SUBSET DOMAIN page, T # {}, g[T \ {Max(T)}] \in Reading
        PROVE  g[T] = Read[<<g[T \ {Max(T)}], page[Max(T)]>>]
    <3>1. page[Max(T)] \in Lines
      BY <1>3, <2>3
    <3>2. g[T] = LineRead(g[T \ {Max(T)}], page[Max(T)])
      BY <2>1, <2>3
    <3> QED BY <2>3, <3>1, <3>2, ReadFolds
  <2> QED BY <2>2, <2>3 DEF Follows
<1>9. g[DOMAIN page] = FoldOf(Read, Unread, page)
  BY <1>8, ReadFolds, TableIsFold
<1> QED BY <1>1, <1>6, <1>9

\* What is read of a page is told, each section under its title.
ReadSoFar(page, s) ==
    /\ s \in Reading
    /\ ToldSoFar(s) = Mapped(SaidOf, page)
    /\ s.title = TitleAt(page, Len(page))
    /\ \A x \in ToSet(s.sections) : ToSet(InkOfPageSection[x]) \subseteq Under(page, x.title)
    /\ ToSet(Pending(s)) \subseteq Under(page, s.title)

LEMMA SaidMaps ==
    Maps(SaidOf, Lines, Characters)
<1>1. \A l \in Lines : InkOf(l) \in Seq(Characters)
  BY LinesAreTexts, InkSteps DEF Text
<1> QED BY <1>1, EmptySeq DEF Maps, SaidOf

\* It stays so with a line more.
LEMMA LineReadSoFar ==
    ASSUME NEW page \in Seq(Lines), NEW s, ReadSoFar(page, s), NEW l \in Lines
    PROVE  ReadSoFar(Append(page, l), LineRead(s, l))
<1>1. PICK longer : longer = Append(page, l)
  OBVIOUS
<1>2. PICK n \in Nat : n = Len(page)
  BY LenProperties
<1>3. /\ \A t : Under(page, t) \subseteq Under(longer, t)
      /\ TitleAt(longer, n + 1) = IF l \in Headings THEN l ELSE TitleAt(page, n)
      /\ ToSet(l) \subseteq Under(longer, TitleAt(longer, n + 1))
      /\ longer \in Seq(Lines) /\ Len(longer) = n + 1
  <2>1. Grows(page, l, Append(page, l), Len(page))
    BY UnderGrows
  <2> QED BY <1>1, <1>2, <2>1 DEF Grows
<1>4. /\ s \in Reading /\ ToldSoFar(s) = Mapped(SaidOf, page) /\ s.title = TitleAt(page, n)
      /\ \A x \in ToSet(s.sections) : ToSet(InkOfPageSection[x]) \subseteq Under(longer, x.title)
      /\ ToSet(Pending(s)) \subseteq Under(longer, s.title)
  BY <1>3, <1>2 DEF ReadSoFar
<1>5. PICK v : v = LineRead(s, l)
  OBVIOUS
<1>6. /\ v \in Reading
      /\ ToldSoFar(v) = ToldSoFar(s) \o SaidOf[l]
      /\ l \in Headings => v.title = l /\ Pending(v) = <<>> /\ v.sections = SectionClosed(s).sections
      /\ l \notin Headings => /\ v.title = s.title /\ v.sections = s.sections
                              /\ Pending(v) = Pending(s) \o InkOf(l)
  BY <1>4, <1>5, LineReadKeeps
<1>7. ToldSoFar(v) = Mapped(SaidOf, longer)
  <2>1. \A p \in Seq(Lines), x \in Lines :
            Mapped(SaidOf, Append(p, x)) = Mapped(SaidOf, p) \o SaidOf[x]
    BY SaidMaps, MappedSteps
  <2> QED BY <1>1, <1>4, <1>6, <2>1
<1>8. v.title = TitleAt(longer, n + 1)
  BY <1>3, <1>4, <1>6
<1>9. ASSUME NEW x \in ToSet(v.sections)
      PROVE  ToSet(InkOfPageSection[x]) \subseteq Under(longer, x.title)
  <2>1. CASE l \in Headings
    <3>1. \/ x \in ToSet(s.sections)
          \/ x.title = s.title /\ InkOfPageSection[x] = Pending(s)
      BY <1>4, <1>6, <1>9, <2>1, SectionClosedKeeps
    <3> QED BY <1>4, <3>1
  <2>2. CASE l \notin Headings
    BY <1>4, <1>6, <1>9, <2>2
  <2> QED BY <2>1, <2>2
<1>10. ToSet(Pending(v)) \subseteq Under(longer, v.title)
  <2>1. CASE l \in Headings
    <3>1. ToSet(<<>>) = {}
      BY ToSetSteps
    <3> QED BY <1>6, <2>1, <3>1
  <2>2. CASE l \notin Headings
    <3>1. Pending(s) \in Seq(Characters) /\ InkOf(l) \in Seq(Characters)
      <4>1. s.blocks \in Seq(Inked) /\ s.buffer \in Seq(Text)
        BY <1>4 DEF Reading
      <4>2. Mapped(InkOfText, s.blocks) \in Seq(Characters)
            /\ Mapped(InkOfText, s.buffer) \in Seq(Characters)
        BY <4>1, InkOfTexts
      <4>3. InkOf(l) \in Seq(Characters)
        BY LinesAreTexts, InkSteps DEF Text
      <4> QED BY <4>2, <4>3, ConcatProperties DEF Pending
    <3>2. \A a, b \in Seq(Characters) : ToSet(a \o b) = ToSet(a) \union ToSet(b)
      BY ToSetSteps
    <3>3. ToSet(Pending(v)) = ToSet(Pending(s)) \union ToSet(InkOf(l))
      BY <1>6, <2>2, <3>1, <3>2
    <3>4. ToSet(InkOf(l)) \subseteq ToSet(l)
      BY LinesAreTexts, InkSteps
    <3>5. v.title = s.title
      BY <1>6, <2>2
    <3> QED BY <1>3, <1>4, <1>8, <3>3, <3>4, <3>5
  <2> QED BY <2>1, <2>2
<1>11. ReadSoFar(longer, v)
  BY <1>3, <1>6, <1>7, <1>8, <1>9, <1>10 DEF ReadSoFar
<1> QED BY <1>1, <1>5, <1>11

\* It is so at the end of a page.
LEMMA PageIsRead ==
    ASSUME NEW page \in Seq(Lines)
    PROVE  ReadSoFar(page, FoldOf(Read, Unread, page))
<1> DEFINE G == {p \in Seq(Lines) : ReadSoFar(p, FoldOf(Read, Unread, p))}
<1>1. /\ FoldOf(Read, Unread, <<>>) = Unread
      /\ \A p \in Seq(Lines) : FoldOf(Read, Unread, p) \in Reading
      /\ \A p \in Seq(Lines), l \in Lines :
            FoldOf(Read, Unread, Append(p, l)) = Read[<<FoldOf(Read, Unread, p), l>>]
  BY ReadFolds, FoldSteps
<1>2. <<>> \in G
  <2>1. PICK u \in Reading : u = Unread
    BY ReadFolds DEF Folds
  <2>2. u.sections = <<>> /\ u.title = Untitled /\ u.blocks = <<>> /\ u.buffer = <<>>
    BY <2>1 DEF Unread
  <2>3. Pending(u) = <<>> /\ ToldSoFar(u) = <<>>
    <3>1. PICK e : e = <<>> /\ e \o e = e
      <4>1. <<>> \in Seq(Characters)
        BY EmptySeq
      <4> QED BY <4>1, ConcatEmptySeq
    <3> QED BY <2>2, <3>1, InkOfTexts DEF Pending, ToldSoFar
  <2>4. Mapped(SaidOf, <<>>) = <<>> /\ <<>> \in Seq(Lines)
    BY SaidMaps, MappedSteps, EmptySeq
  <2>5. TitleAt(<<>>, Len(<<>>)) = Untitled
    <3>1. Len(<<>>) = 0
      BY EmptySeq
    <3>2. {j \in 1 .. 0 : <<>>[j] \in Headings} = {}
      OBVIOUS
    <3> QED BY <3>1, <3>2 DEF TitleAt
  <2>6. ToSet(<<>>) = {}
    BY ToSetSteps
  <2>7. ReadSoFar(<<>>, u)
    BY <2>2, <2>3, <2>4, <2>5, <2>6 DEF ReadSoFar
  <2> QED BY <1>1, <2>1, <2>4, <2>7
<1>3. ASSUME NEW p \in G, NEW l \in Lines PROVE Append(p, l) \in G
  <2>1. p \in Seq(Lines) /\ ReadSoFar(p, FoldOf(Read, Unread, p))
    OBVIOUS
  <2>2. PICK v \in Reading : v = FoldOf(Read, Unread, p)
    BY <1>1, <2>1
  <2>3. FoldOf(Read, Unread, Append(p, l)) = LineRead(v, l)
    BY <1>1, <2>1, <2>2, ReadFolds
  <2>4. ReadSoFar(Append(p, l), LineRead(v, l))
    BY <2>1, <2>2, LineReadSoFar
  <2>5. Append(p, l) \in Seq(Lines)
    BY <2>1, AppendProperties
  <2> QED BY <2>3, <2>4, <2>5
<1>4. page \in G
  <2>1. G \in SUBSET Seq(Lines)
    OBVIOUS
  <2> HIDE DEF G
  <2> QED BY <1>2, <1>3, <2>1, SequencesAll
<1> QED BY <1>4

\* A section has ink, for its blocks start with some.
LEMMA SectionHasInk ==
    ASSUME NEW x \in PageSection
    PROVE  ToSet(InkOfPageSection[x]) # {}
<1>1. x.blocks \in Seq(Inked) /\ x.blocks # <<>>
  BY DEF PageSection
<1>2. PICK b : b \in Inked /\ b \in ToSet(x.blocks)
  <2>1. 1 \in DOMAIN x.blocks /\ x.blocks[1] \in Inked
    BY <1>1, EmptySeq, LenProperties
  <2> QED BY <2>1 DEF ToSet
<1>3. InkOf(b) # <<>>
  <2>1. b \in Seq(Characters) /\ b # <<>> /\ b[1] \notin Spaces
    BY <1>2 DEF Inked, Text
  <2>2. 1 \in DOMAIN b
    BY <2>1, EmptySeq, LenProperties
  <2>3. InkAt(b) # {}
    BY <2>1, <2>2 DEF InkAt
  <2> QED BY <2>1, <2>3, NoInk DEF Text
<1>4. ToSet(InkOf(b)) # {}
  BY <1>2, <1>3, NoInk DEF Inked
<1>5. ToSet(Mapped(InkOfText, x.blocks)) = UNION {ToSet(InkOfText[y]) : y \in ToSet(x.blocks)}
  BY <1>1, InkOfTexts, MappedRange
<1>6. InkOfText[b] = InkOf(b)
  BY <1>2 DEF Inked, InkOfText
<1>7. ToSet(InkOf(b)) \subseteq ToSet(Mapped(InkOfText, x.blocks))
  BY <1>2, <1>5, <1>6
<1> QED BY <1>4, <1>7 DEF InkOfPageSection

\* The ink of a page and of its lines that are not headings.
LEMMA SaidIsInk ==
    ASSUME NEW page \in Seq(Lines)
    PROVE  /\ InkOf(FlattenSeq(page)) = Mapped(InkOfText, page)
           /\ SaidOn(page) = IF Mapped(SaidOf, page) = <<>> THEN Mapped(InkOfText, page)
                             ELSE Mapped(SaidOf, page)
<1> DEFINE KeptOf == [l \in Lines |-> IF l \in Headings THEN <<>> ELSE l]
<1>1. page \in Seq(Text) /\ page \in Seq(Seq(Characters)) /\ Lines \in SUBSET Text
  BY LinesAreTexts DEF Text
<1>2. FlattenSeq(page) \in Seq(Characters)
  BY <1>1, FlattenSteps
<1>3. /\ Maps(InkOfChar, Characters, Characters)
      /\ \A t \in Text : InkOf(t) = Mapped(InkOfChar, t)
  BY InkIsMapped
<1>4. /\ Maps(KeptOf, Lines, Characters)
      /\ \A l \in Lines : KeptOf[l] = IF l \in Headings THEN <<>> ELSE l
  BY <1>1, EmptySeq DEF Maps, Text
<1>5. PICK kept : kept = Mapped(KeptOf, page)
  OBVIOUS
<1>6. kept = FlattenSeq([i \in DOMAIN page |-> IF page[i] \in Headings THEN <<>> ELSE page[i]])
  <2>1. \A i \in DOMAIN page : page[i] \in Lines
    BY LenProperties
  <2>2. [i \in DOMAIN page |-> KeptOf[page[i]]]
        = [i \in DOMAIN page |-> IF page[i] \in Headings THEN <<>> ELSE page[i]]
    BY <2>1
  <2> HIDE DEF KeptOf
  <2> QED BY <1>5, <2>2 DEF Mapped
<1> HIDE DEF KeptOf
<1>7. InkOf(kept) = Mapped(SaidOf, page)
  <2>1. \A l \in Lines : SaidOf[l] = Mapped(InkOfChar, KeptOf[l])
    <3>1. Mapped(InkOfChar, <<>>) = <<>>
      BY <1>3, MappedSteps
    <3> QED BY <1>1, <1>3, <1>4, <3>1 DEF SaidOf
  <2>2. \A p \in Seq(Lines) : Mapped(InkOfChar, Mapped(KeptOf, p)) = Mapped(SaidOf, p)
    BY <1>3, <1>4, <2>1, SaidMaps, MappedMapped
  <2>3. kept \in Text
    BY <1>4, <1>5, MappedSteps DEF Text
  <2> QED BY <1>3, <1>5, <2>2, <2>3
<1>8. InkOf(FlattenSeq(page)) = Mapped(InkOfText, page)
  <2>1. PICK f : f = [u \in Seq(Characters) |-> u]
    OBVIOUS
  <2>2. Maps(f, Seq(Characters), Characters)
        /\ \A s \in Seq(Seq(Characters)) : FlattenSeq(s) = Mapped(f, s)
    BY <2>1, FlattenIsMapped
  <2>3. Maps(f, Text, Characters) /\ Maps(InkOfText, Text, Characters)
    BY <2>2, InkOfTexts DEF Text
  <2>4. \A t \in Text : InkOfText[t] = Mapped(InkOfChar, f[t])
    BY <1>3, <2>1 DEF InkOfText, Text
  <2>5. \A s \in Seq(Text) : Mapped(InkOfChar, Mapped(f, s)) = Mapped(InkOfText, s)
    BY <1>3, <2>3, <2>4, MappedMapped
  <2> QED BY <1>1, <1>2, <1>3, <2>2, <2>5 DEF Text
<1> QED BY <1>6, <1>7, <1>8 DEF SaidOn

\* A sequence of one.
LEMMA MappedOne ==
    ASSUME NEW R, NEW D, NEW f, Maps(f, R, D), NEW x \in R
    PROVE  Mapped(f, <<x>>) = f[x] /\ <<x>> \in Seq(R) /\ ToSet(<<x>>) = {x}
<1>1. PICK e : e = <<>> /\ e \in Seq(R) /\ e \in Seq(D)
  BY EmptySeq
<1>2. <<x>> = Append(e, x) /\ <<x>> \in Seq(R)
  BY <1>1
<1>3. f[x] \in Seq(D)
  BY DEF Maps
<1>4. Mapped(f, e) = e /\ Mapped(f, Append(e, x)) = Mapped(f, e) \o f[x]
  <2>1. /\ Mapped(f, <<>>) = <<>>
        /\ \A s \in Seq(R), y \in R : Mapped(f, Append(s, y)) = Mapped(f, s) \o f[y]
    BY MappedSteps
  <2> QED BY <1>1, <2>1
<1>5. e \o f[x] = f[x]
  BY <1>1, <1>3, ConcatEmptySeq
<1>6. ToSet(Append(e, x)) = ToSet(e) \union {x} /\ ToSet(e) = {}
  <2>1. /\ ToSet(<<>>) = {}
        /\ \A s \in Seq(R), y \in R : ToSet(Append(s, y)) = ToSet(s) \union {y}
    BY ToSetSteps
  <2> QED BY <1>1, <2>1
<1> QED BY <1>2, <1>4, <1>5, <1>6

\* The sections of a page: what it says, each under its title; a page without
\* any is one section.
Blankish(page) == \A l \in ToSet(page) : l \in Headings \/ InkAt(l) = {}

SectionsOf(page, ss) ==
    /\ ss \in Seq(PageSection)
    /\ Mapped(InkOfPageSection, ss) = SaidOn(page)
    /\ \A x \in ToSet(ss) : \/ ToSet(InkOfPageSection[x]) \subseteq Under(page, x.title)
                            \/ x.title = Untitled /\ Blankish(page)

LEMMA SectionsHold ==
    ASSUME NEW page \in Seq(Lines)
    PROVE  SectionsOf(page, Sections(page))
<1>1. PICK s : s = FoldOf(Read, Unread, page) /\ ReadSoFar(page, s)
  BY PageIsRead
<1>2. /\ s \in Reading /\ ToldSoFar(s) = Mapped(SaidOf, page)
      /\ \A x \in ToSet(s.sections) : ToSet(InkOfPageSection[x]) \subseteq Under(page, x.title)
      /\ ToSet(Pending(s)) \subseteq Under(page, s.title)
  BY <1>1 DEF ReadSoFar
<1>3. PICK end : end = SectionClosed(s)
  OBVIOUS
<1>4. PICK ss : ss = end.sections
  OBVIOUS
<1>5. /\ ss \in Seq(PageSection)
      /\ Mapped(InkOfPageSection, ss) = Mapped(SaidOf, page)
      /\ \A x \in ToSet(ss) : ToSet(InkOfPageSection[x]) \subseteq Under(page, x.title)
  <2>1. end \in Reading
    BY <1>2, <1>3, SectionClosedKeeps
  <2>2. Mapped(InkOfPageSection, ss) = ToldSoFar(s)
    BY <1>2, <1>3, <1>4, SectionClosedKeeps
  <2>3. ASSUME NEW x \in ToSet(ss) PROVE ToSet(InkOfPageSection[x]) \subseteq Under(page, x.title)
    <3>1. \/ x \in ToSet(s.sections)
          \/ x.title = s.title /\ InkOfPageSection[x] = Pending(s)
      BY <1>2, <1>3, <1>4, <2>3, SectionClosedKeeps
    <3> QED BY <1>2, <3>1
  <2> QED BY <1>2, <1>4, <2>1, <2>2, <2>3 DEF Reading
<1>6. PICK body : body = Strip(Joined(page, LineSep))
  OBVIOUS
<1>7. Sections(page) = IF ss # <<>> THEN ss ELSE IF body = <<>> THEN <<>>
                       ELSE <<[title |-> Untitled, blocks |-> <<body>>]>>
  <2>1. FoldLeft(LineRead, Unread, page) = s
    BY <1>1, ReadIsFold
  <2>2. FoldLeft(LineRead,
            [sections |-> <<>>, title |-> Untitled, blocks |-> <<>>, buffer |-> <<>>], page) = s
    BY <2>1 DEF Unread
  <2> QED BY <1>3, <1>4, <1>6, <2>2 DEF Sections, LineSep
<1>8. CASE ss # <<>>
  <2>1. PICK x : x \in ToSet(ss) /\ x \in PageSection
    <3>1. 1 \in DOMAIN ss /\ ss[1] \in PageSection
      BY <1>5, <1>8, EmptySeq, LenProperties
    <3> QED BY <3>1 DEF ToSet
  <2>2. ToSet(Mapped(InkOfPageSection, ss)) = UNION {ToSet(InkOfPageSection[y]) : y \in ToSet(ss)}
    BY <1>5, InkOfTexts, MappedRange
  <2>3. ToSet(Mapped(InkOfPageSection, ss)) # {}
    BY <2>1, <2>2, SectionHasInk
  <2>4. Mapped(SaidOf, page) # <<>>
    <3>1. ToSet(<<>>) = {}
      BY ToSetSteps
    <3> QED BY <1>5, <2>3, <3>1
  <2>5. SaidOn(page) = Mapped(SaidOf, page)
    BY <2>4, SaidIsInk
  <2> QED BY <1>5, <1>7, <1>8, <2>5 DEF SectionsOf
<1>9. CASE ss = <<>>
  <2>1. Mapped(SaidOf, page) = <<>>
    BY <1>5, <1>9, InkOfTexts
  <2>2. SaidOn(page) = Mapped(InkOfText, page)
    BY <2>1, SaidIsInk
  <2>3. page \in Seq(Text)
    BY LinesAreTexts
  <2>4. /\ Joined(page, LineSep) \in Text
        /\ InkOf(Joined(page, LineSep)) = Mapped(InkOfText, page)
    BY <2>3, LineSepIsBlank, JoinedSteps, JoinedKeepsInk
  <2>5. /\ body \in Text /\ InkOf(body) = SaidOn(page)
        /\ body # <<>> => body \in Inked
        /\ body = <<>> => InkOf(body) = <<>>
    <3>1. /\ body \in Text /\ InkOf(body) = InkOf(Joined(page, LineSep))
          /\ body # <<>> => body[1] \notin Spaces
      BY <1>6, <2>4, StripKeepsInk
    <3> QED BY <2>2, <2>4, <3>1, InkSteps DEF Inked
  <2>6. Blankish(page)
    <3>1. ToSet(Mapped(SaidOf, page)) = UNION {ToSet(SaidOf[l]) : l \in ToSet(page)}
      BY SaidMaps, MappedRange
    <3>2. ToSet(<<>>) = {}
      BY ToSetSteps
    <3>3. ASSUME NEW l \in ToSet(page), l \notin Headings PROVE InkAt(l) = {}
      <4>1. l \in Lines
        BY ToSetSteps
      <4>2. ToSet(SaidOf[l]) = {} /\ SaidOf[l] = InkOf(l)
        BY <2>1, <3>1, <3>2, <3>3, <4>1 DEF SaidOf
      <4> QED BY <4>1, <4>2, LinesAreTexts, NoInk
    <3> QED BY <3>3 DEF Blankish
  <2>7. CASE body = <<>>
    <3>1. Sections(page) = <<>>
      BY <1>7, <1>9, <2>7
    <3>2. <<>> \in Seq(PageSection) /\ ToSet(<<>>) = {} /\ Mapped(InkOfPageSection, <<>>) = <<>>
      BY EmptySeq, ToSetSteps, InkOfTexts
    <3> QED BY <2>5, <2>7, <3>1, <3>2 DEF SectionsOf
  <2>8. CASE body # <<>>
    <3>1. PICK bs : bs = <<body>>
      OBVIOUS
    <3>2. PICK x : x = [title |-> Untitled, blocks |-> bs]
      OBVIOUS
    <3>3. bs \in Seq(Inked) /\ Mapped(InkOfText, bs) = InkOf(body) /\ bs # <<>>
      <4>1. body \in Inked
        BY <2>5, <2>8
      <4>2. Mapped(InkOfText, bs) = InkOfText[body] /\ bs \in Seq(Inked)
        BY <3>1, <4>1, InkOfTexts, MappedOne
      <4>3. InkOfText[body] = InkOf(body)
        BY <2>5 DEF InkOfText
      <4> QED BY <3>1, <4>2, <4>3
    <3>4. x \in PageSection /\ x.title = Untitled /\ x.blocks = bs
      BY <3>2, <3>3, LinesAreTexts DEF PageSection
    <3>5. InkOfPageSection[x] = SaidOn(page)
      BY <2>5, <3>3, <3>4 DEF InkOfPageSection
    <3>6. /\ Mapped(InkOfPageSection, <<x>>) = InkOfPageSection[x] /\ <<x>> \in Seq(PageSection)
          /\ ToSet(<<x>>) = {x}
      BY <3>4, InkOfTexts, MappedOne
    <3>7. Sections(page) = <<x>>
      BY <1>7, <1>9, <2>8, <3>1, <3>2
    <3> QED BY <2>6, <3>4, <3>5, <3>6, <3>7 DEF SectionsOf
  <2> QED BY <2>7, <2>8
<1> QED BY <1>8, <1>9

-----------------------------------------------------------------------------
(* Pages of a source.                                                      *)

\* Sections with the number of their page, page by page.
Tag(x, n) == [title |-> x.title, page |-> n, blocks |-> x.blocks]
TagsOf(pages) ==
    [n \in DOMAIN pages |->
        [i \in DOMAIN Sections(pages[n]) |-> Tag(Sections(pages[n])[i], n)]]

\* The sections of one page, with its number.
LEMMA TagsHold ==
    ASSUME NEW pages \in Seq(Seq(Lines)), NEW n \in DOMAIN pages
    PROVE  /\ TagsOf(pages)[n] \in Seq(Section)
           /\ Mapped(InkOfSection, TagsOf(pages)[n]) = SaidOn(pages[n])
           /\ SaidOn(pages[n]) \in Seq(Characters)
           /\ \A s \in ToSet(TagsOf(pages)[n]) :
                 /\ s.page = n
                 /\ \/ ToSet(InkOfSection[s]) \subseteq Under(pages[n], s.title)
                    \/ s.title = Untitled /\ Blankish(pages[n])
<1>1. pages[n] \in Seq(Lines) /\ n \in Nat
  BY LenProperties
<1>2. PICK page, ss : page = pages[n] /\ ss = Sections(page) /\ SectionsOf(page, ss)
  BY <1>1, SectionsHold
<1>3. /\ ss \in Seq(PageSection)
      /\ Mapped(InkOfPageSection, ss) = SaidOn(page)
      /\ \A x \in ToSet(ss) : \/ ToSet(InkOfPageSection[x]) \subseteq Under(page, x.title)
                              \/ x.title = Untitled /\ Blankish(page)
  BY <1>2 DEF SectionsOf
<1>4. PICK m \in Nat : DOMAIN ss = 1 .. m /\ \A i \in 1 .. m : ss[i] \in PageSection
  BY <1>3, LenProperties
<1>5. PICK c : c = [i \in 1 .. m |-> Tag(ss[i], n)]
  OBVIOUS
<1>6. c = TagsOf(pages)[n]
  BY <1>2, <1>4, <1>5 DEF TagsOf
<1>7. ASSUME NEW i \in 1 .. m
      PROVE  /\ c[i] \in Section /\ c[i].page = n /\ c[i].title = ss[i].title
             /\ InkOfSection[c[i]] = InkOfPageSection[ss[i]]
  <2>1. PICK x \in PageSection : x = ss[i]
    BY <1>4
  <2>2. x.title \in Titles /\ x.blocks \in Seq(Inked)
    BY DEF PageSection
  <2>3. PICK t, b : t = x.title /\ b = x.blocks
    OBVIOUS
  <2>4. PICK y : y = [title |-> t, page |-> n, blocks |-> b]
    OBVIOUS
  <2>5. y \in Section /\ y.page = n /\ y.title = x.title /\ y.blocks = x.blocks
    BY <1>1, <2>2, <2>3, <2>4 DEF Section
  <2>6. c[i] = y
    BY <1>5, <2>1, <2>3, <2>4 DEF Tag
  <2>7. InkOfSection[y] = InkOfPageSection[x]
    BY <2>5 DEF InkOfSection, InkOfPageSection
  <2> QED BY <2>1, <2>5, <2>6, <2>7
<1>8. c \in Seq(Section) /\ DOMAIN c = 1 .. m
  <2>1. c \in [1 .. m -> Section]
    <3>1. c = [i \in 1 .. m |-> c[i]]
      BY <1>5
    <3> QED BY <1>7, <3>1
  <2> QED BY <2>1, TupleIsSeq
<1>9. Mapped(InkOfSection, c) = Mapped(InkOfPageSection, ss)
  <2>1. [i \in DOMAIN c |-> InkOfSection[c[i]]] = [i \in DOMAIN ss |-> InkOfPageSection[ss[i]]]
    BY <1>4, <1>7, <1>8
  <2> QED BY <2>1 DEF Mapped
<1>10. ASSUME NEW s \in ToSet(c)
       PROVE  /\ s.page = n
              /\ \/ ToSet(InkOfSection[s]) \subseteq Under(page, s.title)
                 \/ s.title = Untitled /\ Blankish(page)
  <2>1. PICK i \in 1 .. m : s = c[i]
    BY <1>8 DEF ToSet
  <2>2. ss[i] \in ToSet(ss)
    BY <1>4 DEF ToSet
  <2> QED BY <1>3, <1>7, <2>1, <2>2
<1>11. SaidOn(page) \in Seq(Characters)
  BY <1>3, InkOfTexts
<1> QED BY <1>2, <1>3, <1>6, <1>8, <1>9, <1>10, <1>11

\* The sections of a source: what its pages say, each of one page.
LEMMA ParseHolds ==
    ASSUME NEW pages \in Seq(Seq(Lines))
    PROVE  /\ Parse(pages) \in Seq(Section)
           /\ Mapped(InkOfSection, Parse(pages))
                = FlattenSeq([n \in DOMAIN pages |-> SaidOn(pages[n])])
           /\ \A s \in ToSet(Parse(pages)) :
                 /\ s.page \in DOMAIN pages
                 /\ \/ ToSet(InkOfSection[s]) \subseteq Under(pages[s.page], s.title)
                    \/ s.title = Untitled /\ Blankish(pages[s.page])
<1>1. PICK m \in Nat : DOMAIN pages = 1 .. m
  BY LenProperties
<1>2. PICK f : f = TagsOf(pages)
  OBVIOUS
<1>3. PICK h : h = [n \in 1 .. m |-> SaidOn(pages[n])]
  OBVIOUS
<1>4. PICK all : all = [n \in 1 .. m |-> n]
  OBVIOUS
<1>5. /\ \A n \in 1 .. m : f[n] \in Seq(Section) /\ h[n] \in Seq(Characters)
      /\ \A n \in 1 .. m : h[n] = Mapped(InkOfSection, f[n])
      /\ \A n \in 1 .. m : \A s \in ToSet(f[n]) :
            /\ s.page = n
            /\ \/ ToSet(InkOfSection[s]) \subseteq Under(pages[n], s.title)
               \/ s.title = Untitled /\ Blankish(pages[n])
  BY <1>1, <1>2, <1>3, TagsHold
<1>6. Maps(f, 1 .. m, Section) /\ Maps(h, 1 .. m, Characters)
  BY <1>5 DEF Maps
<1>7. Maps(InkOfSection, Section, Characters)
  BY PassagesOfSection DEF Maps
<1>8. all \in Seq(1 .. m) /\ DOMAIN all = 1 .. m /\ ToSet(all) = 1 .. m
  <2>1. all \in [1 .. m -> 1 .. m]
    BY <1>4
  <2>2. all \in Seq(1 .. m)
    BY <2>1, TupleIsSeq
  <2> QED BY <1>4, <2>2 DEF ToSet
<1>9. Parse(pages) = Mapped(f, all)
  <2>1. [n \in DOMAIN all |-> f[all[n]]] = f
    BY <1>1, <1>2, <1>4, <1>8 DEF TagsOf
  <2>2. Parse(pages) = FlattenSeq(f)
    BY <1>2 DEF Parse, TagsOf, Tag
  <2> QED BY <2>1, <2>2 DEF Mapped
<1>10. Mapped(h, all) = FlattenSeq([n \in DOMAIN pages |-> SaidOn(pages[n])])
  <2>1. [n \in DOMAIN all |-> h[all[n]]] = [n \in DOMAIN pages |-> SaidOn(pages[n])]
    BY <1>1, <1>3, <1>4, <1>8
  <2> QED BY <2>1 DEF Mapped
<1>11. Parse(pages) \in Seq(Section)
  BY <1>6, <1>8, <1>9, MappedSteps
<1>12. Mapped(InkOfSection, Parse(pages)) = Mapped(h, all)
  <2>1. \A s \in Seq(1 .. m) : Mapped(InkOfSection, Mapped(f, s)) = Mapped(h, s)
    BY <1>5, <1>6, <1>7, MappedMapped
  <2> QED BY <1>8, <1>9, <2>1
<1>13. ASSUME NEW s \in ToSet(Parse(pages))
       PROVE  /\ s.page \in DOMAIN pages
              /\ \/ ToSet(InkOfSection[s]) \subseteq Under(pages[s.page], s.title)
                 \/ s.title = Untitled /\ Blankish(pages[s.page])
  <2>1. ToSet(Mapped(f, all)) = UNION {ToSet(f[n]) : n \in ToSet(all)}
    BY <1>6, <1>8, MappedRange
  <2>2. PICK n \in 1 .. m : s \in ToSet(f[n])
    BY <1>8, <1>9, <2>1
  <2> QED BY <1>1, <1>5, <2>2
<1> QED BY <1>10, <1>11, <1>12, <1>13

-----------------------------------------------------------------------------
(* The service.                                                            *)

\* The inductive invariant: the passages are those of the source.
TextInv ==
    /\ source \in Seq(Seq(Lines))
    /\ passages \in {<<>>, Chunked(Parse(source))}

\* A source is pages of lines.
LEMMA UploadableArePages ==
    Uploadable \in SUBSET Seq(Seq(Lines))
<1>1. ASSUME NEW k, NEW v \in BoundedSeq(Lines, k) PROVE v \in Seq(Lines)
  <2>1. PICK n \in 0 .. k : v \in [1 .. n -> Lines]
    BY <1>1 DEF BoundedSeq, SeqOf
  <2>2. n \in Nat
    BY DEF BoundedSeq
  <2> QED BY <2>1, <2>2, TupleIsSeq
<1>2. \A p, q \in Seq(Lines) : <<p>> \in Seq(Seq(Lines)) /\ <<p, q>> \in Seq(Seq(Lines))
  <2> HIDE DEF Lines
  <2> QED OBVIOUS
<1>3. ASSUME NEW u \in Uploadable PROVE u \in Seq(Seq(Lines))
  <2>1. PICK j, k : u \in {<<page>> : page \in BoundedSeq(Lines, j)}
                         \union {<<p, q>> : p, q \in BoundedSeq(Lines, k)}
    BY DEF Uploadable
  <2>2. PICK J, K : J = BoundedSeq(Lines, j) /\ K = BoundedSeq(Lines, k)
    OBVIOUS
  <2>3. J \in SUBSET Seq(Lines) /\ K \in SUBSET Seq(Lines)
    BY <1>1, <2>2
  <2>4. u \in {<<page>> : page \in J} \union {<<p, q>> : p, q \in K}
    BY <2>1, <2>2
  <2>5. CASE u \in {<<page>> : page \in J}
    <3>1. PICK page \in Seq(Lines) : u = <<page>>
      BY <2>3, <2>5
    <3> QED BY <1>2, <3>1
  <2>6. CASE u \in {<<p, q>> : p, q \in K}
    <3>1. PICK p \in Seq(Lines), q \in Seq(Lines) : u = <<p, q>>
      BY <2>3, <2>6
    <3> QED BY <1>2, <3>1
  <2> QED BY <2>4, <2>5, <2>6
<1> QED BY <1>3

\* It is inductive.
LEMMA TextStays ==
    TextSpec => []TextInv
<1>1. TextInit => TextInv
  BY UploadableArePages DEF TextInit, TextInv
<1>2. TextInv /\ [TextNext]_textVars => TextInv'
  BY DEF TextInv, TextNext, Prepare, textVars
<1> QED BY <1>1, <1>2, PTL DEF TextSpec

\* The passages of a source.
LEMMA PassagesAreTheText ==
    TextInv => NothingIsLost
<1> SUFFICES ASSUME TextInv, passages # <<>>
             PROVE  NothingIsLost
  BY DEF NothingIsLost
<1>1. PICK pages \in Seq(Seq(Lines)) : pages = source
  BY DEF TextInv
<1>2. PICK ss \in Seq(Section) :
          /\ ss = Parse(pages)
          /\ Mapped(InkOfSection, ss) = FlattenSeq([n \in DOMAIN pages |-> SaidOn(pages[n])])
          /\ \A s \in ToSet(ss) :
                /\ s.page \in DOMAIN pages
                /\ \/ ToSet(InkOfSection[s]) \subseteq Under(pages[s.page], s.title)
                   \/ s.title = Untitled /\ Blankish(pages[s.page])
  BY ParseHolds
<1>3. passages = Chunked(ss)
  BY <1>1, <1>2 DEF TextInv
<1>4. /\ passages \in Seq(Passage)
      /\ Mapped(InkOfPassage, passages) = Mapped(InkOfSection, ss)
      /\ \A p \in ToSet(passages) : \E s \in ToSet(ss) :
            /\ p.title = s.title /\ p.page = s.page
            /\ ToSet(InkOf(p.content)) \subseteq ToSet(InkOfSection[s])
  BY <1>3, ChunkedHolds
<1>5. FlattenSeq([i \in DOMAIN passages |-> InkOf(passages[i].content)])
        = FlattenSeq([n \in DOMAIN source |-> SaidOn(source[n])])
  <2>1. \A i \in DOMAIN passages : passages[i] \in Passage
    BY <1>4, LenProperties
  <2>2. [i \in DOMAIN passages |-> InkOf(passages[i].content)]
        = [i \in DOMAIN passages |-> InkOfPassage[passages[i]]]
    BY <2>1 DEF InkOfPassage
  <2>3. FlattenSeq([i \in DOMAIN passages |-> InkOf(passages[i].content)])
        = Mapped(InkOfPassage, passages)
    BY <2>2 DEF Mapped
  <2> QED BY <1>1, <1>2, <1>4, <2>3
<1>6. ASSUME NEW p \in ToSet(passages)
      PROVE  /\ Len(p.content) \in 1 .. MaxChars
             /\ \/ ToSet(p.content) \ Spaces \subseteq Under(source[p.page], p.title)
                \/ /\ p.title = Untitled
                   /\ \A line \in ToSet(source[p.page]) : line \in Headings \/ InkAt(line) = {}
  <2>1. p \in Passage
    BY <1>4, ToSetSteps
  <2>2. p.content \in Text /\ Len(p.content) \in 1 .. MaxChars
    BY <2>1 DEF Passage
  <2>3. ToSet(InkOf(p.content)) = ToSet(p.content) \ Spaces
    BY <2>2, InkSteps
  <2>4. PICK s \in ToSet(ss) : /\ p.title = s.title /\ p.page = s.page
                               /\ ToSet(InkOf(p.content)) \subseteq ToSet(InkOfSection[s])
    BY <1>4
  <2>5. \/ ToSet(InkOfSection[s]) \subseteq Under(pages[p.page], p.title)
        \/ p.title = Untitled /\ Blankish(pages[p.page])
    BY <1>2, <2>4
  <2> QED BY <1>1, <2>2, <2>3, <2>4, <2>5 DEF Blankish
<1> QED BY <1>5, <1>6 DEF NothingIsLost

\* However long the lines of a policy are and wherever its blocks end, the
\* passages that parse_markdown and chunk_sections make of it hold every
\* character of it once and in order, none is empty or longer than
\* policy_chunk_max_chars, and each quotes only its own page and section.
THEOREM PassagesHoldTheText ==
    TextSpec => []NothingIsLost
BY TextStays, PassagesAreTheText, PTL

=============================================================================
