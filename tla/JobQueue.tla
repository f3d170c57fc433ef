------------------------------ MODULE JobQueue ------------------------------
(***************************************************************************)
(* The background job queue: JobService (app/services/job_service.py), the *)
(* worker process (app/workers/) and the /jobs and /documents/{id}/...     *)
(* requests that queue, retry and cancel a job.                            *)
(*                                                                         *)
(* One row of processing_jobs is a record of `job'.  A request and a       *)
(* worker hold, between the SELECT and the COMMIT of one handler, the row  *)
(* they loaded; what they commit is OrmSession!Flush of it.  Only the      *)
(* claim is a statement that locks and increments in the database.         *)
(*                                                                         *)
(* Time is what the code compares with now(): a lease is live or expired,  *)
(* a row is due or it is not.                                              *)
(***************************************************************************)
EXTENDS Naturals, FiniteSets, OrmSession

CONSTANTS
    Keys,           \* idempotency keys "type:resource"
    NoKey,          \* the key of a row that is not inserted yet
    MaxJobs,        \* bound: rows ever inserted
    Workers,        \* worker processes
    Requests,       \* HTTP requests being served at the same time
    Operations,     \* what clients call: subset of {"enqueue", "retry", "cancel"}
    MaxCalls,       \* bound: requests that change state
    MaxCrashes,     \* bound: worker processes that die
    MaxAttempts,    \* max_attempts of a new row: 3 in the code
    SlowJobs,       \* may a dispatch run longer than the lease?
    SlowSessions    \* may a lease or a backoff pass between a worker's SELECT and
                    \* its next statement?

ASSUME JobQueueAssumption ==
    /\ MaxJobs \in Nat /\ MaxCalls \in Nat /\ MaxCrashes \in Nat
    /\ MaxAttempts \in Nat \ {0}
    /\ NoKey \notin Keys
    /\ Operations \subseteq {"enqueue", "retry", "cancel"}
    /\ SlowJobs \in BOOLEAN /\ SlowSessions \in BOOLEAN

Jobs == 1 .. MaxJobs      \* in the order of created_at

Waiting  == {"QUEUED", "RETRY_SCHEDULED"}          \* what claim selects
Active   == Waiting \union {"RUNNING"}
Terminal == {"SUCCEEDED", "FAILED", "CANCELLED"}
Statuses == Active \union Terminal \union {"ABSENT"}

\* leased_until: NULL, in the future, or in the past.
Leases == {"none", "live", "expired"}

\* error_category, which the other error columns follow.
Errors == {"none", "transient", "permanent"}

Row == [status : Statuses, key : Keys \union {NoKey}, attempts : Nat,
        lease : Leases, due : BOOLEAN, error : Errors]

NoRow == [status |-> "ABSENT", key |-> NoKey, attempts |-> 0,
          lease |-> "none", due |-> FALSE, error |-> "none"]

VARIABLES
    job,        \* the committed rows
    request,    \* request r: the operation, and what its SELECT returned
    worker,     \* worker w: where it is, the job it claimed, the row it loaded
    expired,    \* worker w: the rows its recovery loaded, NoRow elsewhere
    calls,      \* requests made so far
    crashes     \* worker crashes so far

vars == <<job, request, worker, expired, calls, crashes>>

IdleRequest == [op |-> "none", job |-> 0, key |-> NoKey, row |-> NoRow]
IdleWorker  == [pc |-> "idle", job |-> 0, attempt |-> 0, row |-> NoRow]
NothingExpired == [j \in Jobs |-> NoRow]

RequestState == [op : {"none", "enqueue", "retry", "cancel"}, job : Nat,
                 key : Keys \union {NoKey}, row : Row]
\* `attempt' is the attempt number the claim wrote; the worker logs it.
WorkerState == [pc : {"idle", "recovering", "polled", "claimed", "running"},
                job : Nat, attempt : Nat, row : Row]

TypeOK ==
    /\ job \in [Jobs -> Row]
    /\ request \in [Requests -> RequestState]
    /\ worker \in [Workers -> WorkerState]
    /\ expired \in [Workers -> [Jobs -> Row]]
    /\ calls \in Nat
    /\ crashes \in Nat

Init ==
    /\ job = [j \in Jobs |-> NoRow]
    /\ request = [r \in Requests |-> IdleRequest]
    /\ worker = [w \in Workers |-> IdleWorker]
    /\ expired = [w \in Workers |-> NothingExpired]
    /\ calls = 0
    /\ crashes = 0

-----------------------------------------------------------------------------
(* Columns a handler assigns to the row it loaded.                         *)

\* JobService._fail_or_retry: the attempt limit is judged on the loaded row.
FailOrRetry(row) ==
    [row EXCEPT !.status = IF row.attempts >= MaxAttempts THEN "FAILED"
                                                          ELSE "RETRY_SCHEDULED",
                !.lease = "none",
                !.error = "transient"]

\* The commit of a _fail_or_retry.  A backoff starts now, whatever run_after was.
FlushFailOrRetry(stored, loaded) ==
    LET assigned == FailOrRetry(loaded)
        new == Flush(stored, loaded, assigned)
    IN  IF assigned.status = "RETRY_SCHEDULED" THEN [new EXCEPT !.due = FALSE] ELSE new

FlushSucceeded(stored, loaded) ==
    Flush(stored, loaded,
          [loaded EXCEPT !.status = "SUCCEEDED", !.lease = "none", !.error = "none"])

FlushPermanent(stored, loaded) ==
    Flush(stored, loaded,
          [loaded EXCEPT !.status = "FAILED", !.lease = "none", !.error = "permanent"])

\* Mutant: a retry starts counting attempts again.
FlushRetryResetsAttempts(stored, loaded) ==
    [Flush(stored, loaded,
           [loaded EXCEPT !.status = "QUEUED", !.lease = "none", !.error = "none"])
        EXCEPT !.due = TRUE, !.attempts = 0]

FlushRetry(stored, loaded) ==
    [Flush(stored, loaded,
           [loaded EXCEPT !.status = "QUEUED", !.lease = "none", !.error = "none"])
        EXCEPT !.due = TRUE]

FlushCancel(stored, loaded) ==
    Flush(stored, loaded, [loaded EXCEPT !.status = "CANCELLED"])

-----------------------------------------------------------------------------
(* Requests.  A request whose SELECT shows there is nothing to do answers  *)
(* with the row it read and changes nothing.                               *)

Begin(r, op, state) ==
    /\ op \in Operations
    /\ request[r].op = "none"
    /\ calls < MaxCalls
    /\ request' = [request EXCEPT ![r] = state]
    /\ calls' = calls + 1
    /\ UNCHANGED <<job, worker, expired, crashes>>

Finish(r) == request' = [request EXCEPT ![r] = IdleRequest]

\* enqueue: no active row has this key.
EnqueueRead(r, k) ==
    /\ ~ \E j \in Jobs : job[j].key = k /\ job[j].status \in Active
    /\ Begin(r, "enqueue", [IdleRequest EXCEPT !.op = "enqueue", !.key = k])

\* enqueue: the insert.  No constraint makes an active key unique.
EnqueueInsert(r) ==
    /\ request[r].op = "enqueue"
    /\ \E j \in Jobs :
        /\ job[j].status = "ABSENT"
        /\ \A i \in 1 .. (j - 1) : job[i].status # "ABSENT"
        /\ job' = [job EXCEPT ![j] =
                    [NoRow EXCEPT !.status = "QUEUED", !.key = request[r].key,
                                  !.due = TRUE]]
    /\ Finish(r)
    /\ UNCHANGED <<worker, expired, calls, crashes>>

RetryRead(r, j) ==
    /\ job[j].status = "FAILED"
    /\ Begin(r, "retry", [IdleRequest EXCEPT !.op = "retry", !.job = j, !.row = job[j]])

RetryWrite(r) ==
    /\ request[r].op = "retry"
    /\ job' = [job EXCEPT ![request[r].job] = FlushRetry(@, request[r].row)]
    /\ Finish(r)
    /\ UNCHANGED <<worker, expired, calls, crashes>>

CancelRead(r, j) ==
    /\ job[j].status \in Waiting
    /\ Begin(r, "cancel", [IdleRequest EXCEPT !.op = "cancel", !.job = j, !.row = job[j]])

CancelWrite(r) ==
    /\ request[r].op = "cancel"
    /\ job' = [job EXCEPT ![request[r].job] = FlushCancel(@, request[r].row)]
    /\ Finish(r)
    /\ UNCHANGED <<worker, expired, calls, crashes>>

\* The request dies before its commit; the session is closed and rolls back.
RequestFails(r) ==
    /\ request[r].op # "none"
    /\ Finish(r)
    /\ UNCHANGED <<job, worker, expired, calls, crashes>>

-----------------------------------------------------------------------------
(* The worker: one poll of app/workers/__main__.main.                      *)

\* Mutant: the WHERE clause forgets leased_until < now.
OverdueIgnoresLease(j) == job[j].status = "RUNNING" /\ job[j].lease # "none"

\* The WHERE clause of recover_expired_leases.
Overdue(j) == job[j].status = "RUNNING" /\ job[j].lease = "expired"

\* Mutant: a row on its last attempt is not recovered.
RecoverReadRetryableOnly(w) ==
    LET overdue == {j \in Jobs : Overdue(j) /\ job[j].attempts < MaxAttempts}
    IN  /\ worker[w].pc = "idle"
        /\ expired' = [expired EXCEPT ![w] =
                        [j \in Jobs |-> IF j \in overdue THEN job[j] ELSE NoRow]]
        /\ worker' = [worker EXCEPT ![w].pc = IF overdue = {} THEN "polled" ELSE "recovering"]
        /\ UNCHANGED <<job, request, calls, crashes>>

\* claim starts with recover_expired_leases: SELECT, without a lock.
RecoverRead(w) ==
    LET overdue == {j \in Jobs : Overdue(j)}
    IN  /\ worker[w].pc = "idle"
        /\ expired' = [expired EXCEPT ![w] =
                        [j \in Jobs |-> IF j \in overdue THEN job[j] ELSE NoRow]]
        /\ worker' = [worker EXCEPT ![w].pc = IF overdue = {} THEN "polled" ELSE "recovering"]
        /\ UNCHANGED <<job, request, calls, crashes>>

\* Every loaded row is failed or rescheduled, in one commit.
RecoverWrite(w) ==
    /\ worker[w].pc = "recovering"
    /\ job' = [j \in Jobs |-> IF expired[w][j].status = "ABSENT" THEN job[j]
                              ELSE FlushFailOrRetry(job[j], expired[w][j])]
    /\ expired' = [expired EXCEPT ![w] = NothingExpired]
    /\ worker' = [worker EXCEPT ![w].pc = "polled"]
    /\ UNCHANGED <<request, calls, crashes>>

\* Mutant: everything that has not failed or been cancelled is selected.
ClaimableNotFailed(j) ==
    job[j].status \notin {"ABSENT", "RUNNING", "FAILED", "CANCELLED"} /\ job[j].due

\* The WHERE clauses of claim.
Claimable(j) == job[j].status \in Waiting /\ job[j].due

\* SELECT ... FOR UPDATE SKIP LOCKED of the oldest due row, and the
\* compare-and-swap that increments attempt_count in the database.
Claim(w, j) ==
    /\ worker[w].pc = "polled"
    /\ Claimable(j)
    /\ \A i \in 1 .. (j - 1) : ~ Claimable(i)
    /\ job' = [job EXCEPT ![j].status = "RUNNING", ![j].lease = "live",
                          ![j].attempts = @ + 1]
    /\ worker' = [worker EXCEPT ![w] = [pc |-> "claimed", job |-> j,
                                        attempt |-> job[j].attempts + 1, row |-> NoRow]]
    /\ UNCHANGED <<request, expired, calls, crashes>>

ClaimNothing(w) ==
    /\ worker[w].pc = "polled"
    /\ \A j \in Jobs : ~ Claimable(j)
    /\ worker' = [worker EXCEPT ![w] = IdleWorker]
    /\ UNCHANGED <<job, request, expired, calls, crashes>>

\* _execute expires the session, so the row is loaded once more, and then
\* stays in the identity map for as long as the dispatch runs.
StartJob(w) ==
    /\ worker[w].pc = "claimed"
    /\ worker' = [worker EXCEPT ![w].pc = "running", ![w].row = job[worker[w].job]]
    /\ UNCHANGED <<job, request, expired, calls, crashes>>

\* The dispatch returned or raised: mark_succeeded or mark_failed commits over
\* the row, whoever owns it now.
EndJob(w, row) ==
    /\ worker[w].pc = "running"
    /\ job' = [job EXCEPT ![worker[w].job] = row]
    /\ worker' = [worker EXCEPT ![w] = IdleWorker]
    /\ UNCHANGED <<request, expired, calls, crashes>>

JobSucceeds(w)         == EndJob(w, FlushSucceeded(job[worker[w].job], worker[w].row))
JobFailsPermanently(w) == EndJob(w, FlushPermanent(job[worker[w].job], worker[w].row))
JobFailsTransiently(w) == EndJob(w, FlushFailOrRetry(job[worker[w].job], worker[w].row))

\* The process dies, or leaves run_available with an exception: main has no
\* handler, so a database error in mark_failed ends it too.  It is restarted.
Crash(w) ==
    /\ worker[w].pc # "idle"
    /\ crashes < MaxCrashes
    /\ crashes' = crashes + 1
    /\ worker' = [worker EXCEPT ![w] = IdleWorker]
    /\ expired' = [expired EXCEPT ![w] = NothingExpired]
    /\ UNCHANGED <<job, request, calls>>

-----------------------------------------------------------------------------
(* The clock.                                                              *)

Executes(w, j) == worker[w].pc = "running" /\ worker[w].job = j
Holds(w, j)    == worker[w].pc \in {"claimed", "running"} /\ worker[w].job = j

\* Five minutes pass.  A worker never renews a lease, so nothing but the length
\* of the dispatch keeps a live worker inside it.
LeaseExpires(j) ==
    /\ job[j].status = "RUNNING" /\ job[j].lease = "live"
    /\ SlowJobs \/ \A w \in Workers : ~ Executes(w, j)
    /\ SlowSessions \/ \A w \in Workers : Holds(w, j) => Executes(w, j)
    /\ job' = [job EXCEPT ![j].lease = "expired"]
    /\ UNCHANGED <<request, worker, expired, calls, crashes>>

\* Five to sixty seconds pass.
BackoffElapses(j) ==
    /\ job[j].status = "RETRY_SCHEDULED" /\ ~ job[j].due
    /\ SlowSessions \/ \A w \in Workers : expired[w][j].status = "ABSENT"
    /\ job' = [job EXCEPT ![j].due = TRUE]
    /\ UNCHANGED <<request, worker, expired, calls, crashes>>

-----------------------------------------------------------------------------
RequestStep(r) ==
    \/ \E k \in Keys : EnqueueRead(r, k)
    \/ EnqueueInsert(r)
    \/ \E j \in Jobs : RetryRead(r, j) \/ CancelRead(r, j)
    \/ RetryWrite(r) \/ CancelWrite(r) \/ RequestFails(r)

Poll(w) == RecoverRead(w) \/ RecoverWrite(w) \/ (\E j \in Jobs : Claim(w, j)) \/ ClaimNothing(w)

WorkerEnds(w) == JobSucceeds(w) \/ JobFailsPermanently(w) \/ JobFailsTransiently(w)

WorkerStep(w) == Poll(w) \/ StartJob(w) \/ WorkerEnds(w) \/ Crash(w)

Tick == \E j \in Jobs : LeaseExpires(j) \/ BackoffElapses(j)

Next ==
    \/ \E r \in Requests : RequestStep(r)
    \/ \E w \in Workers : WorkerStep(w)
    \/ Tick

Spec == Init /\ [][Next]_vars

\* The worker loop never stops polling and every dispatch ends, one way or
\* another; time passes.  Requests, crashes and outcomes are owed nothing.
Fairness ==
    /\ \A w \in Workers : WF_vars(Poll(w)) /\ WF_vars(StartJob(w)) /\ WF_vars(WorkerEnds(w))
    /\ \A j \in Jobs : WF_vars(LeaseExpires(j)) /\ WF_vars(BackoffElapses(j))

FairSpec == Spec /\ Fairness

-----------------------------------------------------------------------------
(* Properties.                                                             *)

\* However rows are overwritten, a claim takes an attempt number nobody else
\* holds: two workers that execute the same job are in different attempts, none
\* beyond the row's attempt_count.  The row lock and the increment in the
\* database (claim, lines 113-130) promise it.
AttemptsAreDistinct ==
    \A w \in Workers :
        \A v \in Workers : \A j \in Jobs :
            Holds(w, j) => /\ worker[w].attempt <= job[j].attempts
                           /\ Holds(v, j) /\ worker[v].attempt = worker[w].attempt => v = w

\* While leases outlast what they are for and no operator retries, a job is
\* executed by one worker at a time and claimed max_attempts times at most.
OneWorkerPerJob ==
    \A j \in Jobs :
        /\ \A w, v \in Workers : Holds(w, j) /\ Holds(v, j) => w = v
        /\ job[j].attempts <= MaxAttempts

\* At most one active row per idempotency key.
OneActivePerKey ==
    \A i, j \in Jobs :
        /\ job[i].status \in Active /\ job[j].status \in Active
        /\ job[i].key = job[j].key
        => i = j

Retries(j)  == \E r \in Requests : request[r].op = "retry" /\ request[r].job = j
Recovers(j) == \E w \in Workers : expired[w][j].status # "ABSENT"

\* What has ended stays ended: a success is never put back to work, and a permanent
\* failure only by an operator's retry.  A cancellation stands, too, unless it
\* overtook a claim (the row has a lease: the worker's end then overwrites it), or a
\* retry or a recovery had loaded the row before.
EndStays ==
    [][\A j \in Jobs :
        /\ job'[j].status \in Active =>
              /\ job[j].status # "SUCCEEDED"
              /\ job[j].status = "FAILED" /\ job[j].error = "permanent" => Retries(j)
        /\ job[j].status = "CANCELLED" /\ job'[j].status # "CANCELLED" =>
              job[j].lease # "none" \/ Retries(j) \/ Recovers(j)]_vars

\* Every accepted job reaches an end: it succeeds, fails or is cancelled.
EveryJobEnds ==
    \A j \in Jobs : job[j].status \in Active ~> job[j].status \in Terminal

=============================================================================
