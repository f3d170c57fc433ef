# ReconAI: formal verification

TLA+ models of the procurement reconciliation service in this repository, model-checked
with TLC and proved about with TLAPS. Paths below are relative to the repository's root.

## 1. Inventory

ReconAI is a FastAPI application and a worker process over one PostgreSQL database
(SQLAlchemy; READ COMMITTED; no row versions). Documents are uploaded, understood by a
background job, reviewed by a person and promoted to purchase orders, receipts and
invoices; those are matched three ways; the exceptions that result are explained with
policies, planned for by a language model, approved by a person and executed as workflow
records. Anomaly scans and risk scores read the same tables.

Components meet only in the database. Nothing is sent between them; a request or a job
loads rows, decides on what it loaded and commits. What can go wrong is therefore nearly
always that the rows have changed between the load and the commit, and
`app/db/session.py` fixes what a commit then does (section 3, `OrmSession`).

| Component | State | Operations | What is hard | What makes it correct |
| --- | --- | --- | --- | --- |
| **Job queue and worker** (`services/job_service.py`, `workers/`) | `processing_jobs`: status, attempt_count, lease, run_after, error | enqueue, retry, cancel; recover, claim, succeed, fail | several workers; leases that expire under a slow job; crashes; late writes | no job is run twice at once; attempts are bounded; every job ends; ends stay ends |
| **Understanding** (`services/document_understanding_service.py`, `extraction/`) | `documents`, one `document_extraction_results` row per document, the `review_tasks` row | a run: extract, classify, match, validate, finalise | overwrites the extraction in place, also after it was reviewed; partial failure; several values for one field | a document waiting for review has an open task; what skips review is written in the document |
| **LLM understanding** (`services/llm_understanding_service.py`, `llm/`) | `llm_extraction_results`; status of document and task | gate, calls with retries, checks of the answer, commit | rows loaded before a slow call; answers with invented quotations | advice only; no answer is trusted by its own word; calls are bounded |
| **Review** (`services/review_service.py`) | `review_tasks`, `review_decisions`, `corrected_candidate` | create, approve, correct, reject | concurrent reviewers without locks; revalidation after a correction | decisions stand; a corrected candidate is valid; a finished task can be promoted |
| **Promotion** (`services/promotion_service.py`) | purchase orders, receipts, invoices; `promoted_entity_id` | promote | test-then-insert; vendor and order looked up in statements of their own; re-validation; retries | only a reviewed, valid candidate is recorded, once, whole, and the record stays |
| **Resolution planning** (`services/resolution_planning_service.py`, `resolution/contracts.py`) | `resolution_plans`, `proposed_actions`, the unique planning_key, planning attempts | plan, replan | an LLM call between read and write; superseding a plan in use; malformed plans | one plan per key in force; whole plans or none |
| **Approval** (`services/resolution_service.py`, `resolution/immutability.py`) | action status, append-only `action_approvals`, parameter hash, plan status | approve, reject | two reviewers; a decision racing an execution | only a human approval unlocks execution, of exactly what was approved; settled actions stay |
| **Execution** (`services/resolution_execution_service.py`, `resolution/guardrails.py`, `resolution/handlers/`) | `action_executions`, four workflow tables, plan status | execute | idempotency keys, row lock, savepoint, order, retry after failure | one workflow record per action; in order; plan status agrees with actions |
| **Anomaly scanner** (`anomaly/scanner.py`) | `anomaly_scan_jobs`: status, cursor, counters; signals | create, run, resume, cancel | checkpoint per batch; cancel and a second run during a run; crash; lock waits | nothing behind the cursor is unexamined; no signal is lost; every run returns |
| **Anomaly rules** (`anomaly/rules.py`, `anomaly/engine.py`) | signals | detect for an invoice, a vendor, an exception | history in windows, thresholds | agrees with the reconciliation engine where both look at one fact |
| **Upload and storage** (`services/document_service.py`, `storage/`) | `documents`, files | upload, update associations | file first, row second; same content twice; crash in between | one row per content; no row without its file |
| **Reconciliation** (`services/reconciliation_service.py`, `reconciliation/`) | `reconciliation_exceptions` by fingerprint, invoice status | run | concurrent runs; receipts recorded meanwhile | one exception per fingerprint; a match bills no more than was received |
| **Procurement records** (`services/procurement_service.py`) | vendors, orders, receipts, invoices | create | uniqueness and references between tables | lines refer to lines of their order |
| **Risk** (`risk/`, `services/risk_service.py`) | one profile per entity, version and day | score, persist, read | signals that arrive while one is computed; past and future days | one answer per question; a profile is of its day |
| **Policies** (`services/policy_*`, `policy/`) | versions, chunks, vectors, grounding results | create, ingest, embed, retrieve, explain | a commit per embedding batch; two ingestions; models that change | ingestion is whole; no text is lost; support is cited evidence without conflict |
| **Identity and tenants** (`identity/`, `db/tenant_filter.py`, `db/mixins.py`) | users, memberships, sessions, login failures; context variable | login, logout, provision, bootstrap, assign legacy rows; filter on SELECT | the lock looks before it counts; rows that get a tenant under a request | guesses are bounded; a tenant has an administrator; links stay inside a tenant |
| **Lists and dashboard** (`services/workspace_query.py`, `intelligence_read.py`, `dashboard_service.py`) | none | pages by offset and cursor, activity | tables change between two pages; ties in created_at | readers miss nothing but what an offset must |
| **Extraction scoring** (`evaluation/m11_metrics.py`, `m11_normalize.py`, `m11_harness.py`) | none | compare, pair lines, aggregate | keys that are not unique; denominators | a case scored right is right |
| **HTTP, frontend, other evaluation harnesses, migrations** | none of their own | - | - | - |

`PROJECT.json` lists the components with their status and every hazard at the line where
it bites.

## 2. Plan

Modules in the order in which they carry the system's promises; all of these exist.

1. `JobQueue` with `OrmSession`: attempt numbers proved, and one worker at a time under
   the timing it needs.
2. `DocumentReview` and its abstraction `TrustBoundary`: refinement proved, and which
   requests alone can undo a decision or a promotion.
3. `Resolution` and its abstraction `ApprovalGate`: refinement, one success per workflow
   record, order, aggregation and what settled actions are open to, proved. `PlanContents`
   has what plans say: proved that what is executed is what was approved and that plans are
   stored whole.
4. `AnomalyScan`: signals of examined entities and checkpoints proved.
5. `DocumentIntake` on `TenantScope`: files, uniqueness and links proved.
6. `Procurement` on `AnomalyRules` on `ThreeWayMatch`: two engines over the same documents,
   and the service that stores what the first finds; one row per fact, the last run's
   outcome, what a match bills and that the engines agree, proved.
7. `PolicyLibrary` and `PolicyText`: ingestion, support and the text of passages, proved.
8. `LlmAssistance`: retries and ratings proved.
9. `Promotion`: what one promotion writes to vendors, records and links, proved.
10. `Identity`, `RiskScore` with `RiskProfiles`, `FieldExtraction`, `ReadModels`,
    `ExtractionScore`, proved.

Worth doing next: the composition of `JobQueue` and `DocumentReview` (a document's status
against the state of its job).

## 3. Modules and the code

**`OrmSession`** is one operator. A SQLAlchemy session without autoflush, without expiry on
commit and without a version column issues an UPDATE of exactly the attributes whose value
differs from the loaded one. `Flush(stored, loaded, assigned)` is the row after that
statement: another transaction's write survives on the columns this session left alone and
is overwritten on those it changed. `JobQueue`,
`DocumentReview`, `Resolution`, `AnomalyScan` and `Procurement` commit through it.

**`JobQueue`**. `job` is the table, `request` and `worker` are sessions between their SELECT
and their COMMIT with the rows they hold, `expired` the rows a recovery loaded. Enqueue,
retry and cancel are a read and a write each; a poll of the worker is RecoverRead,
RecoverWrite, Claim or ClaimNothing; a dispatch is StartJob and one of the three ends; the
claim alone is one step, as its statement locks the row (`SKIP LOCKED`) and increments in
the database. Time is reduced to what the code asks of it: a lease is none, live or
expired; a row is due or not. `SlowJobs` and `SlowSessions` say whether a dispatch, or the
gap between two statements of a worker, may outlast a lease or a backoff.

**`DocumentReview`**. Rows of document, extraction and task; `ledger` maps a business
number to the candidate its order, receipt or invoice was written from; `decisions` is the
audit trail. A candidate is a version, a number and what the validator says of it. An
understanding run is one step, because its first statement updates the document row and it
reads extraction and task right before writing them; `UnderstandAborted` is the run whose
exception reaches the worker, whose `mark_failed` commits what was flushed. Review,
promotion and the LLM job load (`Begin`) and commit (`Approve`, `Correct`, `Reject`,
`Promote`, `LlmUnderstand`), or roll back.

**`TrustBoundary`** is what README.md (M5) promises, as far as the code keeps it: a candidate
is decided on, or a document is approved blank, when nothing could be read from it; then a
candidate is recorded if it is sound and was decided on, or is of a blank document, once per
number, for ever. `DocumentReview` implements it with `decided` mapped to the candidates of
approving and correcting decisions, `blank` to the documents approved without one, and `book`
to the ledger. That blank approvals exist at all is against the promise: `review_unseen`.

**`Resolution`**. Plans for one exception and one grounding, hence one planning key. `plan`,
`action`, `approvals` (with `latest`, the row that wins by created_at), `executions` by
idempotency key and `workflow`, the actions that have their workflow record. `request`
holds the session's snapshot. Planning, decisions and executions begin and commit;
`Locked` is the row lock an execution holds from its first statement to its end, which
other executions and the UPDATE of a decision wait for. Statuses that a transaction sets
and replaces before it commits (PROPOSED, EXECUTING, RUNNING) are visible to nobody and are
left out.

**`ApprovalGate`** is what docs/M8_AGENTIC_RESOLUTION.md promises: an action is authorised,
then performed, once.

**`PlanContents`** follows the parameters of an action: from the planner's answer, which is
validated whole or refused (`PlanStored`, `PlanRefused`), through the approval that leaves
a hash of what the approver had loaded (`BeginApproval`, `Approve`), to the handler that
writes one of four kinds of record (`Execute`). `Edit` is somebody changing parameters in
the database, against whom the hash is there. A text is said or missing, a reference known,
unknown or half given. `Resolution` has who may do this when; the two share no variable.

**`AnomalyScan`**. `scan` is the table of jobs, `signals` the fingerprints committed,
`runner` a request that runs a scan: the row it has loaded, the batch it fetched, the
signals it has flushed and not committed. Each turn of the loops is a step: `Look` at the
refreshed row, `Examine` an entity, `CommitBatch`, `MarkPhaseDone`, `Finish`. Nothing in
the code keeps two requests from running one scan, nor a cancellation from being
overwritten, and the model allows both. `Waits` is the lock on a fingerprint another
transaction has inserted; a cycle of two is resolved by the database (`Deadlocked`).

**`ThreeWayMatch`** and **`AnomalyRules`** are the two rule engines as operators on small
documents: `Drafts(input)` are the exceptions of reconciliation, `SignalsForInvoice` and
its siblings the anomalies. **`Procurement`** has the tables; recording is one transaction,
a run of reconciliation is a load (`BeginRun`), an upsert by fingerprint (`Upsert`) and a
commit with the invoice's status (`CommitRun`), or it is lost (`AbandonRun`). A client gives
an invoice any status when it records it, MATCHED included (`Posted`).

**`TenantScope`** has the tenant filter and the stamp of new rows as operators.
**`DocumentIntake`** uses them: an upload looks for the digest (`Begin`), writes the file
under an id of its own (`Save`), inserts the row (`Commit`), and when the unique key refuses
it removes its file and answers with the winner's row (`Undo`). The storage and the process
may fail at each step. `assign_legacy` gives rows a tenant while requests are under way.

**`Identity`**: a login looks at the failures in the window, and records what came of it in
a later step (`BeginLogin`, `FailLogin`, `SignIn`); bootstrap and provisioning test and then
insert. **`RiskScore`** is the weighted, decayed and capped sum in sixteenths;
**`RiskProfiles`** the request that looks for a profile, loads the signals, looks again and
inserts. A rule stamps a signal with the day on which it finds it (`Detect`), and the row is
committed with its request or batch (`CommitSignal`), which may be the next day, or dropped
(`DropSignal`).

**`PolicyLibrary`**: versions, chunks with the vector's model, and sessions that ingest,
embed batch by batch, or explain an exception by what they retrieve. A citation is the id of
a chunk (`Id`), so a chunk embedded anew while the model answers still counts. **`PolicyText`**
computes the passages from pages: sections, blocks, packing and the split of long blocks.

**`FieldExtraction`** computes outcome, issues and candidate of a document from its lines,
tables and file name. The text after a label is a sequence of alternatives, each a phrase of
words; the code compares their first tokens only (`Tokens`). Its property `EndsAsReviewed`
instantiates `DocumentReview` and shows that every result is one of those `Extracted` takes
as given there, so that the two models of one service fit together.

**`Promotion`** refines what `DocumentReview` takes as one step: a session loads the task and
its document (`BeginPromotion`), looks up the number and the vendor (`LookUp`), the order
(`Place`), and inserts and commits (`WritePromotion`) or rolls back (`AbandonPromotion`).
`made` holds the vendor a session has inserted, which nobody else sees and a rollback takes
back. Other promotions and `update_associations` commit in between; what the session assigned
to the document is written attribute by attribute (`OrmSession`).

**`LlmAssistance`**: the quality gate, the calls with retries, and the checks from which an
answer gets its status, rating and priority. The reading of the rules may be replaced while
the model thinks (`ReadAgain`).

**`ReadModels`**: a table that changes between the requests of a client that reads page
after page, and between the queries of one request: a list is a count (`CountRows`) and a
page (`NextOffsetPage`), the dashboard one query per kind of row (`ReadFeed`), each of what
is committed when it runs; **`ExtractionScore`**: the comparison of values, the greedy
pairing of lines by key and the counts of a case.

The `MC` modules give TLC its instances. `MCServices` puts eleven services that share no row
next to each other: a behaviour is one of any of them, so that they share a run without
multiplying their states. The `Proofs` modules hold the theorems; `FiniteLemmas` has what
they share about finite sets and sequences: the least element of a family of sets, the last
of an order, sorted sequences, sums, folds and what `FlattenSeq` makes of a sequence.

Where order and repetition do not matter, or can be had otherwise, the models say so: the
lines of an order, a receipt and an invoice are a set of numbered rows, a sorted list is the
sequence of a set in which later elements come later.

Definitions named `...` after a plausible slip (`OverdueIgnoresLease`, `MayPromoteAnyStatus`,
`LockedNever`, ...) stand directly before the definition they vary and are marked
`Mutant:`. They are used nowhere in a specification; replacing a definition by its mutant
must break the property that `PROJECT.json` names, which shows that the property depends on
that piece of the code.

## 4. Runs

| Run | Instance | What it shows |
| --- | --- | --- |
| `queue_races` | 2 workers, 2 requests, 2 rows, all operations, 1 crash, leases may expire under a running job and between two statements | attempt numbers are handed out once, whatever is overwritten |
| `queue_live` | 2 workers whose jobs end within the lease, 1 client that queues and cancels, 1 crash, 3 attempts, fairness | no double execution, a success or permanent failure stays, a cancellation but where it overtook a claim or met a recovery; every accepted job reaches an end |
| `queue_duplicate` (violation) | 2 concurrent enqueues | two active jobs with one key |
| `review_races` | 1 document, 2 numbers, 2 concurrent sessions with every request and the LLM job, 2 runs of understanding that find a clean or an ambiguous candidate, fail or abort, sound and malformed corrections | refinement of TrustBoundary; what is recorded was decided on or approved blank; who waits for review has a task; decisions and promotions are undone by nothing but requests that were under way |
| `review_unseen` (violation) | a run that finds nothing, then one that does | approval without a candidate lets a later one through |
| `review_again` (violation) | a rejected document that is understood again | it waits for a review that no task offers |
| `resolution_races` | 2 concurrent sessions, 2 plans of up to 2 actions, 2 keys | refinement of ApprovalGate, one success per workflow record, order, completed plans are whole, settled actions are opened by nothing but decisions that were under way |
| `resolution_reopened` (violation) | 2 concurrent sessions on one plan | a rejected action is approved |
| `scan_races` | 2 scans (FULL or VENDOR), 2 concurrent runs, a cancellation, 2 invoices and 2 vendors of which one is recorded late, batches of 2, 1 fault, fairness | no checkpoint passes what was not examined, no signal is lost, every run returns |
| `procurement` | 2 orders, 2 receipts, 3 invoices recorded as RECEIVED, MATCHED or APPROVED, 2 concurrent runs | what a match means, what is stored of exceptions, and that the two engines agree |
| `procurement_clean` (violation) | the same | a match that keeps the exception of an earlier run |
| `services` | eleven services, one per behaviour; 2 concurrent clients each | see the next table |

Properties of `services`:

| Property | Module | What it says |
| --- | --- | --- |
| `ProfilesStand` (`AnswersAgree`, `ProfileIsPointInTime`) | RiskProfiles | one answer per entity and day; a profile of a past day lacks only signals of that day that were committed after it, on a later day |
| `EveryDocumentHasItsFile`, `OneDocumentPerContent`, `LinksStayInside` | DocumentIntake | rows and files agree after every race and crash; one document per tenant and content; no link across tenants |
| `OverrunIsBounded`, `EveryTenantIsAdministered` | Identity | concurrent guesses exceed the limit by less than the clients; one user per email, an administrator per tenant |
| `IngestedIsWhole`, `SupportedIsGrounded` | PolicyLibrary | reported ingestions are complete and alone; support cites ids of unconflicting evidence of one model that is still in the library |
| `NothingIsLost` | PolicyText | passages hold every character once, in order, under their own heading, within the limit |
| `ReadyIsReadable`, `EndsAsReviewed` | FieldExtraction | what skips review is written in the document, beside nothing the code can tell from it; results are those DocumentReview assumes |
| `HighIsChecked`, `CallsAreBounded` | LlmAssistance | ratings rest on checks, never on quotations; retries are bounded and end in a row |
| `ExecutedAsApproved`, `AttemptsTellThePlans` | PlanContents | what is executed was approved; whole plans or none |
| `ReadersMissNothing` | ReadModels | pages and dashboard against writes that commit between requests and between the queries of one |
| `ExactIsTheSame` | ExtractionScore | a scored success is one under some pairing, and the counts never exceed their denominators |
| `PromotedIsWhole` | Promotion | a record has its vendor or order, its lines refer to the order's lines of their numbers, a promoted task names the record of its paper, no failed promotion leaves a vendor, and while promotions do not overlap none makes a second vendor of a name |

**Bounds.** Two sessions are enough for every lost update, as it takes one that loads and
one that commits in between; the theorems have any number of them. Two rows with one key are
the least that show a duplicate and the oldest-first order of claims. `MaxAttempts` is 3 as
in the code where the limit is the question, 2 where only a retry must happen. Two actions
show an earlier and a later one under `validate_action_order`; two keys let one of them fail
and be retried, and both run. `MaxRuns` = 2 understands a document again after review; one
document is enough there, as tasks are apart and a number is contested by the corrections of
one. In `scan_races` two entities per kind in one batch give a first and a last one, the
invoices and the vendors share their signals in opposite orders so that two runs can
deadlock, and `MaxCalls` = 2 allows two runs, a run and its resumption, or a run and its
cancellation. `procurement` has what a match needs and each way to miss it: a second invoice
of the same number written differently, too high a price, a date before the order, an
invoice without one; a reference by line number; receipts in two parts. In `services`,
`MaxChars` = 5 puts blocks, separators and spaces at every position around the limit of a
passage; documents have every combination of a good, an empty, a double and a missing value
for number, name and date, and of two that begin alike, over five kinds of item lines; the
two policy labels and two models are the least that conflict, and all versions are ACTIVE:
retrieval does not ask for the status (`policy_retrieval_service.py:134`), and one that is
not ACTIVE is evidence as any other but is left out of the search for conflicts; `LockLimit`
= 1 lets one failure lock, and two concurrent attempts slip past it; two papers promoted in
up to three sessions are an order and what refers to it, or two records of one number or of
one vendor, with one failure and one change of the document's associations. Every bound
(`MaxCalls`, `MaxCrashes`, `MaxFaults`, `MaxJobs`, `MaxRuns`, `MaxCandidates`, `MaxActions`,
`MaxReads`, `MaxUploads`, `MaxSessions`, `MaxTime`, `MaxEdits`, `MaxPromotions`, ...) is a
constant that stands in a guard.

**Symmetry** is used for keys, sessions, clients and names in runs of invariants and of
safety properties only; `queue_live` and `scan_races`, which check liveness, use none.

**Deadlock** checking is on in the runs of `JobQueue`, `DocumentReview` and `Resolution`: a
session can always roll back or begin again, a worker always polls. It is off in
`scan_races`, `procurement`, `procurement_clean` and `services`, where the system really
stops once the bounded requests have been made; that a run which waits for another does not
stop for ever is `EveryRunReturns`.

**Fairness.** `queue_live` assumes weak fairness of the poll, of the start and the end of a
dispatch for each worker, and of the passing of leases and backoffs. The poll is justified
by the loop `while True` of `workers/__main__.py`, restarted by its supervisor after a
crash; the end of a dispatch by its being a finite computation with provider timeouts; the
clocks by time. `scan_races` assumes weak fairness of the steps of a run
(`ScanFairSpec`): a request that is being served executes its next statement, and the
database breaks a deadlock. Requests, crashes, faults and the outcome of a dispatch get
none.

## 5. What the runs found

With a run of their own (`findings` in `PROJECT.json` quotes the promises):

* `enqueue` looks for an active job and inserts later, without a unique constraint: two
  clicks queue a document twice.
* Approving a task that has no candidate stores none; promotion then takes whatever the
  extraction row holds by then, seen by nobody.
* An exception that a later run of reconciliation no longer finds stays OPEN: an invoice
  reconciled before its receipt was recorded is MATCHED and has an exception.
* A rejected document understood again waits for a review that no task offers, as there is
  one task per extraction row for ever.
* A decision that loaded PENDING turns a rejected action into an approved one, and in the
  same way one that was executed. `ExecutedOnce` still holds, since the successful execution
  is on record; but the plan's later actions wait for one that can never run.

Seen while modelling, at the line named or by widening a run:

* `reject` judges a loaded status (`review_service.py:398`): committed after an approval and
  its promotion, it leaves a REJECTED task with a record, where README.md:437 says that
  rejected candidates never promote. `DecisionStands` therefore allows a request that had
  loaded the task undecided, and only that.
* Rejecting the last pending action of a FAILED plan sets the plan REJECTED
  (`resolution_service.py:493`), a transition `resolution/transitions.py:77` does not have,
  and the failed action can no longer be retried.
* A late `mark_failed` sets `leased_until` to NULL under a newer attempt; if that attempt's
  worker dies, `recover_expired_leases` never selects the row. It takes jobs that outlive
  their lease; so does breaking `OneWorkerPerJob` or `EndStays`.
* A correction that the candidate model cannot parse is judged by the stored validation
  (`review_service.py:486`): where that had no error the task becomes CORRECTED, though
  README.md:412 says that the candidate is revalidated after a correction. Two corrections at
  the same time leave the status of one on the candidate of the other. No property says that
  CORRECTED means valid; promotion validates again, and `RecordsAreSound` is proved.
* A run of understanding after a promotion sets the document back to REVIEW_REQUIRED, and so
  does a late LLM job; task and record stay as they are (`PromotionStands`).
* A cancellation that overtakes a claim is overwritten by the end of the worker that runs the
  job, and one that meets a recovery by the recovery's write (`job_service.py:92`).
* Of two reconciliations that overlap, the one with the older receipts may commit last and
  decide the invoice's status. `LastOutcomeStands` is about runs that do not overlap.
* A profile of yesterday that is asked for just after midnight lacks the signals of yesterday
  that a running scan has not committed, and stays as it is.
* A list by offset misses its oldest row when another is committed between its last count and
  its page.
* "Acme Ltd / Acme Inc" after a label is no conflict, as both begin with one token; the whole
  line becomes the vendor's name, without review.
* A scan's cancellation that commits after the run's last look is overwritten by COMPLETED
  (`anomaly/scanner.py:244`); the text of an isolated error is discarded by the refresh
  before the next entity (`scanner.py:378`).
* Two invoices of one order can each be MATCHED although together they bill more than was
  received: the engine looks at one invoice at a time.
* A cell that says `nan` becomes `Decimal("NaN")`, whose comparison raises: the job is aborted
  and the document stays EXTRACTING. An empty label takes the next line with the label that
  line may start with, so that a word of a label can become a number.
* Line pairing of the extraction score uses an identifier whenever a line has one and does
  not ask for a key to be unique, where docs/M11_EXTRACTION_EVAL.md:28 says "pair on item
  identifier when both sides have one, otherwise on a unique normalized description".
* A block without a usable space in the last three quarters of the limit is cut mid-word,
  though `policy/chunking.py:11` says never when a space exists.
* The provider's retries include refused keys and invalid arguments, though
  `config.py:172` speaks of transient failures.
* A profile asked for today or a future day is frozen with the signals there are, which is
  why `ProfileIsPointInTime` speaks of missing signals for past days only; the loser of two
  concurrent inserts gets an error, not the other's row.
* A policy version that a client creates with the hash of a source answers
  ALREADY_INGESTED without having its chunks; several versions of one policy may be
  ACTIVE, and grounding then reports a conflict.
* Two promotions at the same time that name a vendor nobody has recorded make two vendors of
  that name (`promotion_service.py:297`, no unique constraint); the search for duplicate
  invoices compares invoices of one vendor id (`reconciliation/engine.py:171`) and looks at
  each alone. Lines of which some have a number
  and others take their place (`promotion_service.py:173`) may collide, and a candidate that
  passed review is refused by the database. A record whose number exists is answered as it
  is, whatever vendor or lines the second paper has.
* Pages by offset order by `created_at`, which the rows of one transaction share: they may be
  skipped or shown twice. The list by cursor breaks ties by id.

None of these lets a record or a workflow come about without a person's decision on it, except
`review_unseen`; the refinements below hold with any number of concurrent sessions.

## 6. Proofs

Each theorem holds for all values of the constants allowed by the modules' ASSUMEs.

* **`TypeCorrect`** of `JobQueueProofs`, `DocumentReviewProofs` and `ResolutionProofs`: in
  the first two `TypeOK` is inductive as it stands, one step per action; in the third it is
  strengthened by what a session carries for the operation it is in (`SessionIsComplete`),
  as its fields may be empty when it is idle.
* **`JobQueueProofs!AttemptNumbersUnique`** (`AttemptsAreDistinct`): its inductive form is
  the property with `TypeOK`: a claim takes `attempts + 1`, more than any number held,
  and no commit changes `attempts`, as no handler assigns it and `Flush` writes only what
  was assigned. Slow jobs, crashes and overwritten rows do not matter.
* **`JobQueueProofs!OneWorkerAtATime`** (`OneWorkerPerJob`) and **`EndsStay`** (`EndStays`)
  assume `Timely`: a dispatch ends within its lease, no worker stalls between two
  statements for as long as a lease or a backoff, and no operator retries by hand. Each is
  needed: TLC breaks both properties when it is dropped from the instance of `queue_live`
  (with two clients for the retries). Nothing keeps a worker's lease and a recovery's list
  of overdue rows together but time, and both are written back from rows loaded earlier.
  The invariant (`TimelyInv`) says that a job somebody holds is one worker's, with a live
  lease that no recovery has in hand, and that what a recovery has in hand is still
  overdue, or was released by another recovery or a cancellation in a way that the late
  write repeats; and that a row that waits has an attempt left. `EndsStay` says of a
  cancellation what the code gives: it is overwritten when it had overtaken a claim, which
  the lease on the row shows, or by a recovery that had loaded the row.
* **`DocumentReviewProofs!EveryRecordIsSound`** (`RecordsAreSound`): strengthened by "a
  promotion in flight has loaded a candidate the validator accepts", since promotion
  re-validates what it is about to write. No further assumption.
* **`DocumentReviewProofs!RecordsAreReviewed`** (`ReviewedUnlessBlank`),
  **`WaitingDocumentsHaveTasks`** (`ReviewRequiredHasTask`) and **`ImplementsTrustBoundary`**
  (`KeepsTrustBoundary`), for any readings and any number of sessions. The invariant
  (`ReviewInv`): candidates stay with their document; the candidate of a promotable task, in
  the table or loaded by a session, was decided on, or its document approved blank; who is
  about to write a task loaded one that is there; a document that waits has its task. It is
  needed because promotion looks only at the task it loaded: what keeps the candidate reviewed
  is that approval and correction record the decision in the commit that makes the task
  promotable. For the refinement, Approve and Correct map to a decision or a blank approval,
  the first Promote of a number to Record, all else stutters.
* **`DocumentReviewProofs!DecisionsStand`** (`DecisionStands`) and **`PromotionsStand`**
  (`PromotionStands`): a commit that changes the status, the candidate or the record of a task
  is one of four, each of which tests the task it loaded; as `Flush` writes only what differs
  from that, a session that loaded the decided or recorded task leaves those columns alone.
* **`ResolutionProofs!OneSuccessPerRecord`** (`ExecutedOnce`) and
  **`ImplementsApprovalGate`** (`KeepsApprovalGate`) assume nothing beyond the module's
  ASSUMEs. Their invariant `GateInv` has five parts: at most one session executes an action
  (the row lock); while it does, the action has no successful attempt and an approval in
  its log; a latest approval is in the log; there is a workflow record exactly where there
  is a success; two successes of an action are one row. It is needed because execution
  judges what it found under the lock and commits later: the lock keeps the judgement true,
  the log only grows, and success and record are one commit. The statuses of plans and
  actions, which concurrent sessions do overwrite, play no part in it. For the refinement a
  committed approval maps to Authorize, Succeed to Perform, all else stutters.
* **`ResolutionProofs!CompletedIsWhole`** (`PartialIsNotCompleted`), **`ExecutionsAreInOrder`**
  (`ExecutedInOrder`) and **`SettledUntilStale`** (`SettledUnlessDeciding`) for any number of
  sessions and plans of any length. Statuses are overwritten by stale sessions, so the
  invariant (`DisposalInv`) rests on what is not: an action is disposed of when it has its
  workflow record or a rejection in its log. A settled action, stored or loaded by a session,
  is disposed of; so are all actions of a completed plan, and all before one that is executed
  or about to be. It is needed because a commit writes what its session worked out from rows
  it loaded before, which is still true of the log and the records when it commits.
* **`TenantProofs!DocumentsHaveFiles`**, **`OneDocument`**, **`LinksInside`**
  (`EveryDocumentHasItsFile`, `OneDocumentPerContent`, `LinksStayInside`) for any number of
  uploads, faults and crashes, and with legacy rows that get a tenant at any moment. The
  invariant says that the id an upload has drawn is no row's and no other upload's, that
  its file is whole once it is about to commit, that a tenant has one row per content, that
  every file is a row's, an upload's or left over, and that what was told is on record. It
  is needed because two stores are written without a common transaction: only the freshness
  of the id makes the removal in `Undo` harmless.
* **`ModelAnswerProofs!RecordsAreAsApproved`** (`ExecutedAsApproved`) for any planner and
  any parameters. The invariant: a hash on an action was consented to for that action, which
  nothing but an approval writes; an approving session points at an action there is; records
  are as approved. Nothing is assumed of the planner's answers.
* **`ModelAnswerProofs!IngestionIsWhole`** (`IngestedIsWhole`): a source has a first
  position, taken by the ingestion that commits, and the unique index refuses every other
  one from then on; vectors come and go without touching positions and contents.
  **`SupportIsGrounded`** (`SupportedIsGrounded`): a session that explains holds evidence of
  versions on record, of one model and without conflict, and each passage of it is in the
  library under its id, whatever its vector is by now; versions keep policy and status, new
  ones have no part in it, and no chunk is removed.
* **`AnomalyScanProofs!SignalsAreKept`** (`ExaminedHasSignals`) for any scans, batch sizes and
  number of runs, also several of one scan. The invariant (`Covered`): what a run has examined
  of its batch has its signals in the table or among those it has flushed, which commit and
  roll back together with the count of the batch; and the table only grows.
* **`ModelAnswerProofs!RetriesAreBounded`** (`CallsAreBounded`) and **`RatingsAreChecked`**
  (`HighIsChecked`) for any answers, quotations and texts. Three lemmas say what the checks
  establish (grounded values are written in the text, what does not disagree is kept, what
  does not overlap partially is filled alike); the invariant carries the verdict on the stored
  row against the reading the request had loaded, which `ReadAgain` does not touch.
* **`AnomalyScanProofs!CheckpointsAreSound`** (`CheckpointIsSound`): runs of one scan
  overwrite each other's cursor, which may go back as well as forth; what holds is that every
  cursor there is, in the table or in a session, has only entities behind it that are done
  (`Sound`, `Knows`). A batch is the first entities after such a cursor, so the cursor it
  leaves is sound too. The counters need that the row in the run's session is the stored one
  and nothing done lies after the cursor, which holds until two requests run one scan at once
  (`Counted`, `KnowsAlone`).
* **`RecordsProofs!PromotedRecordsAreWhole`** (`PromotedIsWhole`) for any papers, requests,
  vendors and faults. The invariant (`PromotionInv`) follows a request from phase to phase:
  the vendor it holds is on record or its own, the row it will write refers to the lines the
  order has, and what it found stays, as records never change. A vendor without a record can
  only be one a request still holds.
* **`RecordsProofs!AFactHasOneRow`** (`OneRowPerFingerprint`) and **`TheLastRunDecides`**
  (`LastOutcomeStands`) for any documents and any number of runs. `FactsAreFoundOnce`: from
  one order and one invoice every rule finds a fact once, so that two drafts of one
  fingerprint are one; with the unique key, a fact has one row. `ProcInv` adds that rows are
  refreshed and never removed, what a run has read and found, and that a run without another
  beside it holds the status that is stored.
* **`TenantProofs!TenantsAreAdministered`** (`EveryTenantIsAdministered`): who is about to add
  a user is an administrator of that tenant, the first user is one, and users stay
  (`UsersInv`). **`TheOverrunIsBounded`** (`OverrunIsBounded`): at any moment the failures of
  the window and the attempts that have passed the look are together fewer than the limit and
  one for each client (`LockInv`); the past windows are such moments.
* **`TenantProofs!AnswersStand`** (`ProfilesStand`): whoever asks for an entity and a day is
  told the same row, and a profile of a day that had passed when it was loaded lacks no signal
  of that day but those committed since, on a later day than theirs. The invariant
  (`RiskInv`): no signal is of a day to come, and none is seen before its day; what a request
  loaded, and what a row was made of, are signals that are there, and all of that day's that
  were there when it was loaded. That a score never falls is arithmetic: it is
  a sum of natural numbers over the signals, capped per type and cut off at 100
  (`AggregateSum`, `AggregateGrows`).
* **`TenantProofs!ReadersGetAll`** (`ReadersMissNothing`) for any rows, pages and readers. By
  cursor: what lies before the cursor was read, once, and among it every row that was listed
  all along (`CursorInv`), since a page is a beginning of what comes after the cursor in an
  order that no row changes its place in. By offset: a row that was not read yet has at least
  as many newer ones as were passed over (`OffsetInv`), and a walk that ends has passed over
  as many as it counted last. The dashboard: a row that has few newer ones is taken by the
  query of its kind, if it was there at the start, and by the last cut (`BoardInv`); rows that
  come later only make it have more.
* **`ModelAnswerProofs!AttemptsAreTold`** (`AttemptsTellThePlans`): the invariant
  (`AttemptsInv`) has, for each stored plan, the one successful attempt that counts its
  actions, and, for each action, the parameters of its schema or the edit that changed them.
  `Ordered` is what sorting returns: a sequence with every action at one place.
* **`DocumentReviewProofs!ReadinessIsRead`** (`ReadyIsReadable`) and
  **`ReadingEndsAsReviewed`** (`EndsAsReviewed`) for every file. The invariant (`ReadingInv`)
  only says how a reading came about, from the file as it is and the type that was kept; the
  rest is a chain of lemmas from a candidate that is valid and clean back to the place in the
  file at which each of its fields was found. With the second, the outcomes
  `DocumentReview` chooses from are at least those the extractors can have.
* **`DocumentReviewProofs!ScoresAreExact`** (`ExactIsTheSame`) for documents and extractions
  with any number of lines: a line's rank among the lines of its key tells it from the others,
  so that no line is paired twice (`PairedOnce`), which makes the pairing of a success a
  bijection (`SuccessHasSameLines`), and every field compared one that is expected
  (`CountsAreInOrder`); totals are sums, and equal sums of weights that are no less on one side
  have equal weights (`EqualSums`).
* **`RecordsProofs!AMatchBillsWhatIsReceived`** (`MatchedBillsWhatIsReceived`) assumes
  tolerances of price below 100 percent. `ReconciliationConfig` bounds them from below only,
  and `percent_variance` calls any price 100 percent away from an order price of 0: with a
  tolerance from 100 on, whatever is billed for a free item would be a match. An invoice
  without a draft has each of its lines matched to one of the order, in groups whose
  quantity is within what was received for that line and whose prices are within that of the
  order (`NoDraftIsCompared`); the worth of the groups adds up (`ComparedIsWorth`). The
  invariant (`BillsInv`): a run that is about to record MATCHED, and an invoice that a run
  has left MATCHED, have had enough receipts, and receipts stay (`BillsStay`). An invoice is
  MATCHED by its client's word until a run has seen it, and one whose client said APPROVED,
  or the like, is left alone by every run.
* **`RecordsProofs!TheEnginesAgree`** (`EnginesAgree`) assumes that no percentage at which a
  signal is raised is 0. `AnomalyConfig` allows 0, and then a price that is right is a signal
  that reconciliation, which asks for more than its tolerance, does not know. Rule by rule
  both sides are reduced to the same comparison of two documents.

* **`ModelAnswerProofs!PassagesHoldTheText`** (`NothingIsLost`) for any characters, the two
  blanks among them, texts of any length and any limit. The invariant (`TextInv`) only says
  that the passages are those of the source; the rest is about the conversions, one after
  the other. Each keeps the ink of a text, its characters that are not blank, in order:
  `Strip` and its halves (`StripKeepsInk`), a join by blanks (`JoinedKeepsInk`), the pieces
  of a block (`PiecesKeepInk`), buckets (`BucketsHold`), the reading of a page line by line
  (`PageIsRead`, where what was read is told by the sections, the blocks and the buffer
  together and stands under the last heading) and the pages of a source (`ParseHolds`). That
  no piece is empty needs that a block starts with ink and that a cut at position 0 is a cut
  at a blank (`CutWithin`). A page of nothing but headings and blank lines is its own
  section; the property says so.

The lemmas behind sums, sorted sequences, searches and folds need induction, and the library's
induction theorems are of no use here, as they take an operator. They go by the least
counterexample instead: of the sets for which a fact fails, a finite one has a least
(`LeastSubset`, from the cardinalities), and taking one element from it gives a smaller one.
For a fact about all sequences the set of those that have it takes the place of the operator
(`SequencesAll`). A fold is a run of a function over the elements (`FoldOf`, `FoldSteps`);
`FoldLeft` chooses a function on sets of positions, and any such function agrees with the run
(`TableIsFold`). `Pieces` calls itself on a shorter text: the functions that cut at most `n`
times agree from the length of a text on (`AfterStays`), and their limit is what the recursive
definition chooses (`PiecesUnfold`).

**Only model-checked.** Liveness (`EveryJobEnds`, `EveryRunReturns`) and anything about
ENABLED are out of the prover's reach. Every invariant that a passing run checks is stated by
a theorem.

## 7. Not modelled

* The HTTP layer (parsing, permissions per route, error mapping), the web frontend and the
  schema migrations: what a route does to state is in the component it calls, the constraints
  that migrations create are in the guards.
* The other evaluation harnesses (retrieval, agent safety, performance, security, reports):
  they drive the services that are modelled and report.
* File formats, OCR and the regular expressions of labels: a line holds a label and values.
  Prompts, token usage, what a provider answers and how alike two texts are, which are
  choices or constants.
* What a field comparison of the extraction score makes of a text: a currency without letters
  (`$`, `€`) becomes None on both sides (`m11_normalize.py:84`), so that two of them count as
  equal; values are compared as they are after that.
* Password hashing, cookies, audit events, texts of messages, and timestamps beyond what a
  guard compares. Averages are not rounded to four digits.
* Procurement has one tenant; the tenant filter is modelled where rows without one exist.
* A commit whose acknowledgement is lost: the upload would remove the file of a stored row.
* SQLite: the models are of PostgreSQL, where `FOR UPDATE` and `SKIP LOCKED` exist.
* `JobQueue` and `DocumentReview` are not composed: a dispatch has any end.
