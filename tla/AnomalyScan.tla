----------------------------- MODULE AnomalyScan -----------------------------
(***************************************************************************)
(* Anomaly scans: AnomalyScanService (app/anomaly/scanner.py), the         *)
(* detection it calls for each entity (app/services/anomaly_service.py,    *)
(* app/anomaly/engine.py) and the requests that create, run, resume and    *)
(* cancel a scan.                                                          *)
(*                                                                         *)
(* A run is one request: it works through the entities in the order of     *)
(* their ids, a batch per transaction, and commits with each batch the     *)
(* cursor from which a later run goes on.  Nothing keeps two requests from *)
(* running one scan, and a cancellation is a write to the row that the run *)
(* looks at from time to time.                                             *)
(*                                                                         *)
(* What the rules find for an entity is the constant Detects; the isolated *)
(* failure of an entity and the failure of the database are choices.       *)
(***************************************************************************)
EXTENDS Naturals, FiniteSets, OrmSession

CONSTANTS
    Scans,          \* rows, each with its scan_key
    Runners,        \* requests that run or resume a scan
    Cancellers,     \* requests that cancel one
    ScanTypes,      \* types clients ask for: subset of DOMAIN Phases
    Ids,            \* ids, in UUID order: 1 .. n
    Initially,      \* kind -> ids that exist before any scan
    Detects,        \* kind -> id -> fingerprints of the signals detected
    BatchSize,      \* anomaly_scan_batch_size
    MaxCalls,       \* bound: runs, resumptions and cancellations requested
    MaxFaults       \* bound: database failures, isolated failures and crashes

Kinds == {"invoice", "vendor"}

\* The kinds a scan works through, one after the other.  EXCEPTION scans are
\* INVOICE scans of another table.
Phases == [INVOICE |-> {"invoice"}, VENDOR |-> {"vendor"}, FULL |-> Kinds]

ASSUME AnomalyScanAssumption ==
    /\ Scans # {} /\ Ids \subseteq Nat \ {0} /\ IsFiniteSet(Ids)
    /\ Initially \in [Kinds -> SUBSET Ids]
    /\ DOMAIN Detects = Kinds /\ \A k \in Kinds : DOMAIN Detects[k] = Ids
    /\ ScanTypes \subseteq DOMAIN Phases
    /\ BatchSize \in Nat \ {0}
    /\ MaxCalls \in Nat /\ MaxFaults \in Nat

Fingerprints == UNION {Detects[k][i] : k \in Kinds, i \in Ids}

Active == {"PENDING", "RUNNING"}
Statuses == Active \union {"COMPLETED", "FAILED", "CANCELLED", "ABSENT"}

\* last_cursor: the last id processed and its phase; "phase:DONE" at the end of
\* a phase of a FULL scan.
Cursor == [phase : Kinds, after : Nat, done : BOOLEAN]
NoCursor(type) ==
    [phase |-> IF type = "VENDOR" THEN "vendor" ELSE "invoice", after |-> 0, done |-> FALSE]

ScanRow == [status : Statuses, type : DOMAIN Phases, cursor : Cursor,
            processed : Nat, errors : Nat]
NoScan == [status |-> "ABSENT", type |-> "INVOICE", cursor |-> NoCursor("INVOICE"),
           processed |-> 0, errors |-> 0]

VARIABLES
    present,    \* kind -> ids of the entities that exist
    scan,       \* the committed rows
    signals,    \* fingerprints of the committed signals
    runner,     \* runs in progress
    canceller,  \* cancellations between load and commit: the scan and the row
    target,     \* scan -> entities that existed when it was created
    examined,   \* scan -> entities examined in a committed batch
    failed,     \* scan -> entities whose failure a committed batch counts
    alone,      \* scan -> no two requests have run it at the same time
    calls,
    faults

vars == <<present, scan, signals, runner, canceller, target, examined, failed, alone,
          calls, faults>>
ghosts == <<target, alone>>

\* `row' is the loaded job; `stage' the loop a FULL scan is in; `batch' the ids
\* fetched and `left' those still to do; `pending' the signals flushed and not
\* committed; `bad' the entities that failed in this batch.
AnyScan == CHOOSE s \in Scans : TRUE
Fresh(s) == [pc |-> "idle", scan |-> s, row |-> NoScan, stage |-> "invoice",
             batch |-> {}, left |-> {}, pending |-> {}, bad |-> {}]
Idle == Fresh(AnyScan)
RunnerState == [pc : {"idle", "start", "resume", "resumed", "look", "mark", "batch",
                      "finish", "fail"},
                scan : Scans, row : ScanRow, stage : Kinds,
                batch : SUBSET Ids, left : SUBSET Ids,
                pending : SUBSET Fingerprints, bad : SUBSET Ids]
CancellerState == [busy : BOOLEAN, scan : Scans, row : ScanRow]
NoCancel == [busy |-> FALSE, scan |-> AnyScan, row |-> NoScan]

ScanTypeOK ==
    /\ present \in [Kinds -> SUBSET Ids]
    /\ scan \in [Scans -> ScanRow]
    /\ signals \subseteq Fingerprints
    /\ runner \in [Runners -> RunnerState]
    /\ \A r \in Runners : /\ runner[r].left \union runner[r].bad \subseteq runner[r].batch
                          /\ runner[r].pc \in {"idle", "resume", "resumed", "start", "fail"} =>
                                runner[r].pending = {}
    /\ canceller \in [Cancellers -> CancellerState]
    /\ target \in [Scans -> SUBSET (Kinds \X Ids)]
    /\ examined \in [Scans -> SUBSET (Kinds \X Ids)]
    /\ failed \in [Scans -> SUBSET (Kinds \X Ids)]
    /\ alone \in [Scans -> BOOLEAN]
    /\ calls \in Nat /\ faults \in Nat

ScanInit ==
    /\ present = Initially
    /\ scan = [s \in Scans |-> NoScan]
    /\ signals = {}
    /\ runner = [r \in Runners |-> Idle]
    /\ canceller = [c \in Cancellers |-> NoCancel]
    /\ target = [s \in Scans |-> {}]
    /\ examined = [s \in Scans |-> {}]
    /\ failed = [s \in Scans |-> {}]
    /\ alone = [s \in Scans |-> TRUE]
    /\ calls = 0 /\ faults = 0

-----------------------------------------------------------------------------
(* Requests other than a run.                                              *)

\* An invoice or a vendor is recorded while scans go on; its id is random, so
\* it may come before or after a cursor.
Record(k, i) ==
    /\ i \notin present[k]
    /\ \E s \in Scans : scan[s].status \in Active
    /\ present' = [present EXCEPT ![k] = @ \union {i}]
    /\ UNCHANGED <<scan, signals, runner, canceller, ghosts, examined, failed, calls, faults>>

\* create_scan: one INSERT; a key that is taken returns the row there is.
CreateScan(s, type) ==
    /\ scan[s].status = "ABSENT"
    /\ scan' = [scan EXCEPT ![s] = [NoScan EXCEPT !.status = "PENDING", !.type = type,
                                                   !.cursor = NoCursor(type)]]
    /\ target' = [target EXCEPT ![s] = {e \in Kinds \X Ids :
                                            e[1] \in Phases[type] /\ e[2] \in present[e[1]]}]
    /\ UNCHANGED <<present, signals, runner, canceller, examined, failed, alone, calls, faults>>

\* cancel_scan refuses what has ended.
BeginCancel(c, s) ==
    /\ ~canceller[c].busy /\ calls < MaxCalls
    /\ scan[s].status \in Active
    /\ canceller' = [canceller EXCEPT ![c] = [busy |-> TRUE, scan |-> s, row |-> scan[s]]]
    /\ calls' = calls + 1
    /\ UNCHANGED <<present, scan, signals, runner, ghosts, examined, failed, faults>>

CommitCancel(c) ==
    LET s == canceller[c].scan
        row == canceller[c].row
    IN  /\ canceller[c].busy
        /\ scan' = [scan EXCEPT ![s] = Flush(@, row, [row EXCEPT !.status = "CANCELLED"])]
        /\ canceller' = [canceller EXCEPT ![c] = NoCancel]
        /\ UNCHANGED <<present, signals, runner, ghosts, examined, failed, calls, faults>>

-----------------------------------------------------------------------------
(* A run.                                                                  *)

Running(r) == runner[r].pc # "idle"

\* The run's own view of its next step.
Goes(r, changed) == runner' = [runner EXCEPT ![r] = changed]

\* A commit of the job row alone; the session keeps what it assigned.
Commits(r, assigned) ==
    LET s == runner[r].scan
    IN  scan' = [scan EXCEPT ![s] = Flush(@, runner[r].row, assigned)]

\* run_scan refuses a scan that has ended, and takes one that is RUNNING: a run
\* that died leaves it so.
BeginRun(r, s) ==
    /\ ~Running(r) /\ calls < MaxCalls
    /\ scan[s].status \in Active
    /\ Goes(r, [Fresh(s) EXCEPT !.pc = "start", !.row = scan[s]])
    /\ alone' = [alone EXCEPT ![s] = @ /\ \A q \in Runners : ~(Running(q) /\ runner[q].scan = s)]
    /\ calls' = calls + 1
    /\ UNCHANGED <<present, scan, signals, canceller, target, examined, failed, faults>>

\* resume_scan takes a FAILED scan, and runs it in the same session.
BeginResume(r, s) ==
    /\ ~Running(r) /\ calls < MaxCalls
    /\ scan[s].status = "FAILED"
    /\ Goes(r, [Fresh(s) EXCEPT !.pc = "resume", !.row = scan[s]])
    /\ alone' = [alone EXCEPT ![s] = @ /\ \A q \in Runners : ~(Running(q) /\ runner[q].scan = s)]
    /\ calls' = calls + 1
    /\ UNCHANGED <<present, scan, signals, canceller, target, examined, failed, faults>>

CommitResume(r) ==
    /\ runner[r].pc = "resume"
    /\ Commits(r, [runner[r].row EXCEPT !.status = "PENDING"])
    /\ Goes(r, [runner[r] EXCEPT !.pc = "resumed"])
    /\ UNCHANGED <<present, signals, canceller, ghosts, examined, failed, calls, faults>>

\* The refresh after that commit, and run_scan's look at the status.
RunResumed(r) ==
    LET s == runner[r].scan
    IN  /\ runner[r].pc = "resumed"
        /\ Goes(r, IF scan[s].status \in Active
                   THEN [Fresh(s) EXCEPT !.pc = "start", !.row = scan[s]]
                   ELSE Idle)
        /\ UNCHANGED <<present, scan, signals, canceller, ghosts, examined, failed, calls, faults>>

\* _full_phase_state: the phase a FULL scan is in, and the id to go on after.
PhaseOf(cursor) == IF cursor.done THEN "vendor" ELSE cursor.phase
AfterOf(cursor) == IF cursor.done THEN 0 ELSE cursor.after

StartRun(r) ==
    LET row == [runner[r].row EXCEPT !.status = "RUNNING"]
    IN  /\ runner[r].pc = "start"
        /\ Commits(r, row)
        /\ Goes(r, [runner[r] EXCEPT !.pc = "look", !.row = row, !.stage = PhaseOf(row.cursor)])
        /\ UNCHANGED <<present, signals, canceller, ghosts, examined, failed, calls, faults>>

\* _fetch_batch_ids: the first BatchSize ids after the cursor.
NextIds(kind, after) ==
    LET rest == {i \in present[kind] : i > after}
    IN  {i \in rest : Cardinality({j \in rest : j < i}) < BatchSize}

\* Mutant: the id in the cursor, of whatever phase.
AfterAny(stage, cursor) == cursor.after

AfterIn(stage, cursor) == IF stage = PhaseOf(cursor) THEN AfterOf(cursor) ELSE 0

\* The head of the loops: refresh the job; leave when it is cancelled; find the
\* phase from the cursor; fetch.  A FULL scan in its invoice loop goes to the
\* vendor loop when the cursor says so and never comes back; the vendor loop
\* starts at the first vendor when the cursor is not a vendor's.
Look(r) ==
    LET row == scan[runner[r].scan]
        c == row.cursor
        full == row.type = "FULL"
        stage == IF full THEN runner[r].stage ELSE c.phase
        ids == NextIds(stage, AfterIn(stage, c))
        to(pc) == [runner[r] EXCEPT !.pc = pc, !.row = row]
    IN  /\ runner[r].pc = "look"
        /\ Goes(r, IF row.status = "CANCELLED" THEN Idle
                   ELSE IF stage # PhaseOf(c) /\ stage = "invoice"
                   THEN [to("look") EXCEPT !.stage = "vendor"]
                   ELSE IF (full /\ c.done /\ c.phase = "vendor") \/ (ids = {} /\ ~full)
                   THEN to("finish")
                   ELSE IF ids = {} THEN to("mark")
                   ELSE [to("batch") EXCEPT !.batch = ids, !.left = ids, !.bad = {}])
        /\ UNCHANGED <<present, scan, signals, canceller, ghosts, examined, failed, calls, faults>>

\* "invoice:DONE" and "vendor:DONE".
MarkPhaseDone(r) ==
    LET row == [runner[r].row EXCEPT !.cursor = [phase |-> runner[r].stage, after |-> 0,
                                                 done |-> TRUE]]
    IN  /\ runner[r].pc = "mark"
        /\ Commits(r, row)
        /\ signals' = signals \union runner[r].pending
        /\ Goes(r, [runner[r] EXCEPT !.row = row, !.pending = {}, !.stage = "vendor",
                        !.pc = IF runner[r].stage = "vendor" THEN "finish" ELSE "look"])
        /\ UNCHANGED <<present, canceller, ghosts, examined, failed, calls, faults>>

\* Mutant: what another transaction has flushed and not committed counts as found.
NewToAll(r, i) ==
    Detects[runner[r].stage][i] \ (signals \union UNION {runner[q].pending : q \in Runners})

\* The signals detect_for_... would insert for entity i: those not found.
New(r, i) == Detects[runner[r].stage][i] \ (signals \union runner[r].pending)

\* An INSERT of a fingerprint another transaction has inserted waits for it.
Waits(r, q) ==
    /\ q # r /\ runner[r].pc = "batch" /\ runner[r].left # {}
    /\ \E i \in runner[r].left : /\ \A j \in runner[r].left : i <= j
                                 /\ New(r, i) \intersect runner[q].pending # {}

\* One turn of _process_batch's loop: refresh, look at the status, detect and
\* flush; what one entity's rules raise is counted and the loop goes on.
Examine(r) ==
    LET s == runner[r].scan
        row == scan[s]
    IN  /\ runner[r].pc = "batch"
        /\ \E i \in runner[r].left :
            /\ \A j \in runner[r].left : i <= j
            /\ \/ /\ row.status = "CANCELLED"       \* back to the loop, nothing committed
                  /\ Goes(r, [runner[r] EXCEPT !.pc = "look", !.row = row, !.batch = {},
                                               !.left = {}, !.bad = {}])
                  /\ UNCHANGED faults
               \/ /\ row.status # "CANCELLED"
                  /\ \A q \in Runners : ~Waits(r, q)
                  /\ Goes(r, [runner[r] EXCEPT !.row = row, !.left = @ \ {i},
                                               !.pending = @ \union New(r, i)])
                  /\ UNCHANGED faults
               \/ /\ row.status # "CANCELLED"
                  /\ faults < MaxFaults
                  /\ Goes(r, [runner[r] EXCEPT !.row = row, !.left = @ \ {i},
                                               !.bad = @ \union {i}])
                  /\ faults' = faults + 1
        /\ UNCHANGED <<present, scan, signals, canceller, ghosts, examined, failed, calls>>

\* The job row at the end of a batch.
Advanced(r) ==
    LET b == runner[r].batch
        last == CHOOSE i \in b : \A j \in b : j <= i
    IN  [runner[r].row EXCEPT
            !.cursor = [phase |-> runner[r].stage, after |-> last, done |-> FALSE],
            !.processed = @ + Cardinality(b),
            !.errors = @ + Cardinality(runner[r].bad)]

CommitBatch(r) ==
    LET s == runner[r].scan
        k == runner[r].stage
    IN  /\ runner[r].pc = "batch" /\ runner[r].left = {}
        /\ Commits(r, Advanced(r))
        /\ signals' = signals \union runner[r].pending
        /\ examined' = [examined EXCEPT ![s] = @ \union {<<k, i>> : i \in runner[r].batch
                                                                     \ runner[r].bad}]
        /\ failed' = [failed EXCEPT ![s] = @ \union {<<k, i>> : i \in runner[r].bad}]
        /\ Goes(r, [runner[r] EXCEPT !.pc = "look", !.row = Advanced(r), !.batch = {},
                                     !.pending = {}, !.bad = {}])
        /\ UNCHANGED <<present, canceller, ghosts, calls, faults>>

\* The end of run_scan, on the row of the last refresh.
Finish(r) ==
    LET s == runner[r].scan
        row == runner[r].row
    IN  /\ runner[r].pc = "finish"
        /\ IF row.status = "RUNNING"
           THEN /\ Commits(r, [row EXCEPT !.status = "COMPLETED"])
                /\ signals' = signals \union runner[r].pending
           ELSE UNCHANGED <<scan, signals>>
        /\ Goes(r, Idle)
        /\ UNCHANGED <<present, canceller, ghosts, examined, failed, calls, faults>>

\* Mutant: the batch is tried again, in the same transaction.
RolledBackNot(r) ==
    [runner[r] EXCEPT !.pc = "look", !.batch = {}, !.left = {}, !.bad = {}]

\* The rollback and the reload that follow a database error.
RolledBack(r) == [Fresh(runner[r].scan) EXCEPT !.pc = "fail", !.row = scan[runner[r].scan]]

\* The database refuses a statement of the run, or chooses it in a deadlock of
\* two runs that wait for each other's signals.
DatabaseFails(r) ==
    /\ runner[r].pc \in {"look", "mark", "batch"}
    /\ faults < MaxFaults
    /\ faults' = faults + 1
    /\ Goes(r, RolledBack(r))
    /\ UNCHANGED <<present, scan, signals, canceller, ghosts, examined, failed, calls>>

Deadlocked(r) ==
    /\ \E q \in Runners : Waits(r, q) /\ Waits(q, r)
    /\ Goes(r, RolledBack(r))
    /\ UNCHANGED <<present, scan, signals, canceller, ghosts, examined, failed, calls, faults>>

FailRun(r) ==
    /\ runner[r].pc = "fail"
    /\ Commits(r, [runner[r].row EXCEPT !.status = "FAILED"])
    /\ signals' = signals \union runner[r].pending
    /\ Goes(r, Idle)
    /\ UNCHANGED <<present, canceller, ghosts, examined, failed, calls, faults>>

\* The process dies: its transaction is rolled back, the row stays RUNNING.
Crash(r) ==
    /\ Running(r)
    /\ faults < MaxFaults
    /\ faults' = faults + 1
    /\ Goes(r, Idle)
    /\ UNCHANGED <<present, scan, signals, canceller, ghosts, examined, failed, calls>>

RunStep(r) ==
    \/ CommitResume(r) \/ RunResumed(r) \/ StartRun(r)
    \/ Look(r) \/ MarkPhaseDone(r) \/ Examine(r) \/ CommitBatch(r)
    \/ Finish(r) \/ Deadlocked(r) \/ FailRun(r)

ScanNext ==
    \/ \E k \in Kinds, i \in Ids : Record(k, i)
    \/ \E s \in Scans, type \in ScanTypes : CreateScan(s, type)
    \/ \E c \in Cancellers, s \in Scans : BeginCancel(c, s)
    \/ \E c \in Cancellers : CommitCancel(c)
    \/ \E r \in Runners, s \in Scans : BeginRun(r, s) \/ BeginResume(r, s)
    \/ \E r \in Runners : RunStep(r) \/ DatabaseFails(r) \/ Crash(r)

ScanSpec == ScanInit /\ [][ScanNext]_vars

\* A request that is being served goes on: each of its statements returns.
ScanFairSpec == ScanSpec /\ \A r \in Runners : WF_vars(RunStep(r))

-----------------------------------------------------------------------------
(* Properties.                                                             *)

\* What the cursor of a scan has passed.
Passed(row) ==
    {e \in Kinds \X Ids :
        /\ e[1] \in Phases[row.type]
        /\ \/ e[1] = row.cursor.phase /\ (row.cursor.done \/ e[2] <= row.cursor.after)
           \/ e[1] = "invoice" /\ row.cursor.phase = "vendor"}

\* "resume_scan continues from last_cursor": whatever runs, crashes, failures
\* and cancellations came before, nothing that existed when the scan was
\* created lies behind its cursor unexamined, except what is counted in
\* error_count; nor is it missing when the scan says COMPLETED.  The counters
\* speak of the same entities, unless two requests ran the scan at the same time.
CheckpointIsSound ==
    ScanTypeOK /\ \A s \in Scans :
        LET due == IF scan[s].status = "COMPLETED" THEN target[s]
                   ELSE target[s] \intersect Passed(scan[s])
        IN  /\ due \subseteq examined[s] \union failed[s]
            /\ alone[s] => /\ scan[s].processed = Cardinality(examined[s] \union failed[s])
                           /\ scan[s].errors = Cardinality(failed[s])

\* "Signals created before failure/cancel are retained", and none is lost with
\* a batch that is rolled back: what a scan counts as examined has its signals.
ExaminedHasSignals ==
    \A s \in Scans : \A e \in examined[s] : Detects[e[1]][e[2]] \subseteq signals

\* Two requests that run one scan move its cursor forth and back, and wait for
\* each other's signals; each of them returns all the same.
EveryRunReturns == \A r \in Runners : Running(r) ~> ~Running(r)

=============================================================================
