--------------------------- MODULE JobQueueProofs ---------------------------
(***************************************************************************)
(* Theorems about JobQueue, for every number of jobs, workers, requests    *)
(* and crashes.                                                            *)
(*                                                                         *)
(* Attempt numbers are distinct whatever the timing: a handler commits     *)
(* over the row it read, so the proof must know that what it holds is a    *)
(* job, that attempt numbers are only written by the claim, and that a     *)
(* flush of any stale row leaves attempt_count as it is stored.            *)
(*                                                                         *)
(* One worker at a time needs the timing the code relies on (Timely), and  *)
(* an invariant that ties the rows which workers and recoveries have in    *)
(* hand to the rows of the table.                                          *)
(***************************************************************************)
EXTENDS JobQueue, TLAPS

\* A request or worker in the middle of a handler names a job.
NamesAJob ==
    /\ \A r \in Requests : request[r].op \in {"retry", "cancel"} => request[r].job \in Jobs
    /\ \A w \in Workers : worker[w].pc \in {"claimed", "running"} => worker[w].job \in Jobs

\* A row nobody inserted was never claimed.
AbsentIsUnclaimed == \A j \in Jobs : job[j].status = "ABSENT" => job[j].attempts = 0

\* The inductive invariant.
Inv == TypeOK /\ NamesAJob /\ AbsentIsUnclaimed /\ AttemptsAreDistinct

\* What every commit but the claim's does to a stored row.
Keeps(stored, new) ==
    /\ new \in Row
    /\ new.attempts = stored.attempts
    /\ new.status = "ABSENT" => stored.status = "ABSENT"

\* What every step but the claim does to the table.
KeepsTable ==
    /\ job' \in [Jobs -> Row]
    /\ \A j \in Jobs : Keeps(job[j], job'[j])

-----------------------------------------------------------------------------
(* What a commit may write.                                                *)

\* A commit of attributes of the right type leaves a row of the right type; if
\* attempt_count was not assigned, the stored one stays (OrmSession!Flush).
LEMMA FlushKeeps ==
    ASSUME NEW stored \in Row, NEW loaded \in Row, NEW assigned \in Row,
           assigned.attempts = loaded.attempts, assigned.status # "ABSENT"
    PROVE  Keeps(stored, Flush(stored, loaded, assigned))
  BY DEF Flush, Row, Keeps

\* No handler but the claim writes attempt_count, however stale its row.
LEMMA HandlersKeep ==
    ASSUME NEW stored \in Row, NEW loaded \in Row
    PROVE  /\ Keeps(stored, FlushFailOrRetry(stored, loaded))
           /\ Keeps(stored, FlushSucceeded(stored, loaded))
           /\ Keeps(stored, FlushPermanent(stored, loaded))
           /\ Keeps(stored, FlushRetry(stored, loaded))
           /\ Keeps(stored, FlushCancel(stored, loaded))
<1> DEFINE ok == [loaded EXCEPT !.status = "SUCCEEDED", !.lease = "none", !.error = "none"]
           bad == [loaded EXCEPT !.status = "FAILED", !.lease = "none", !.error = "permanent"]
           again == [loaded EXCEPT !.status = "QUEUED", !.lease = "none", !.error = "none"]
           stop == [loaded EXCEPT !.status = "CANCELLED"]
           Assigned(row) == row \in Row /\ row.attempts = loaded.attempts /\ row.status # "ABSENT"
<1>1. Assigned(FailOrRetry(loaded)) /\ Assigned(ok) /\ Assigned(bad) /\ Assigned(again) /\ Assigned(stop)
  <2> USE DEF Row, Statuses, Active, Waiting, Terminal, Leases, Errors
  <2>1. Assigned(FailOrRetry(loaded))
    BY DEF FailOrRetry
  <2>2. Assigned(ok) /\ Assigned(bad)
    OBVIOUS
  <2>3. Assigned(again) /\ Assigned(stop)
    OBVIOUS
  <2> HIDE DEF Assigned
  <2> QED BY <2>1, <2>2, <2>3
<1>2. ASSUME NEW row, Keeps(stored, row), NEW b \in BOOLEAN
      PROVE  Keeps(stored, [row EXCEPT !.due = b])
  BY <1>2 DEF Keeps, Row
<1> HIDE DEF ok, bad, again, stop
<1>3. Keeps(stored, FlushFailOrRetry(stored, loaded))
  <2> DEFINE new == Flush(stored, loaded, FailOrRetry(loaded))
  <2>1. Keeps(stored, new)
    BY <1>1, FlushKeeps
  <2>2. FlushFailOrRetry(stored, loaded) \in {new, [new EXCEPT !.due = FALSE]}
    BY DEF FlushFailOrRetry
  <2> HIDE DEF new
  <2> QED BY <1>2, <2>1, <2>2
<1>4. Keeps(stored, FlushSucceeded(stored, loaded))
  BY <1>1, FlushKeeps DEF FlushSucceeded, ok
<1>5. Keeps(stored, FlushPermanent(stored, loaded))
  BY <1>1, FlushKeeps DEF FlushPermanent, bad
<1>6. Keeps(stored, FlushRetry(stored, loaded))
  <2> DEFINE new == Flush(stored, loaded, again)
  <2>1. Keeps(stored, new)
    BY <1>1, FlushKeeps
  <2>2. FlushRetry(stored, loaded) = [new EXCEPT !.due = TRUE]
    BY DEF FlushRetry, again
  <2> HIDE DEF new
  <2> QED BY <1>2, <2>1, <2>2
<1>7. Keeps(stored, FlushCancel(stored, loaded))
  BY <1>1, FlushKeeps DEF FlushCancel, stop
<1> QED BY <1>3, <1>4, <1>5, <1>6, <1>7

-----------------------------------------------------------------------------
(* Steps that do not claim.                                                *)

\* If the table is kept and nobody starts to hold a job, the row part of the
\* invariant stays.
LEMMA KeptWithoutClaim ==
    ASSUME Inv, TypeOK', KeepsTable,
           \A w \in Workers, j \in Jobs :
               Holds(w, j)' => Holds(w, j) /\ worker'[w].attempt = worker[w].attempt
    PROVE  AbsentIsUnclaimed' /\ AttemptsAreDistinct'
  BY DEF Inv, AbsentIsUnclaimed, AttemptsAreDistinct, Holds, KeepsTable, Keeps

\* Leaving a row alone keeps it.
LEMMA UnchangedKeepsTable ==
    ASSUME Inv, UNCHANGED job
    PROVE  KeepsTable
  BY DEF Inv, TypeOK, KeepsTable, Keeps

\* A handler that commits over one row.
LEMMA OneRowKeepsTable ==
    ASSUME Inv, NEW x \in Jobs, NEW row, Keeps(job[x], row), job' = [job EXCEPT ![x] = row]
    PROVE  KeepsTable
<1>1. row \in Row
  BY DEF Keeps
<1>2. job' \in [Jobs -> Row]
  BY <1>1 DEF Inv, TypeOK
<1>3. ASSUME NEW j \in Jobs PROVE Keeps(job[j], job'[j])
  BY DEF Inv, TypeOK, Keeps
<1> QED BY <1>2, <1>3 DEF KeepsTable

\* The rows and records the actions write are of their type.
LEMMA ConstantRows ==
    /\ NoRow \in Row
    /\ NothingExpired \in [Jobs -> Row]
    /\ IdleRequest \in RequestState
    /\ IdleWorker \in WorkerState
  BY DEF NoRow, Row, NothingExpired, IdleRequest, IdleWorker, RequestState, WorkerState,
         Statuses, Active, Waiting, Terminal, Leases, Errors

LEMMA JobsAreNaturals == Jobs \subseteq Nat
  BY JobQueueAssumption DEF Jobs

LEMMA InitInv == Init => Inv
<1> SUFFICES ASSUME Init PROVE Inv
  OBVIOUS
<1>1. TypeOK
  BY ConstantRows DEF Init, TypeOK
<1>2. NamesAJob
  BY DEF Init, NamesAJob, IdleRequest, IdleWorker
<1>3. AbsentIsUnclaimed /\ AttemptsAreDistinct
  BY DEF Init, AbsentIsUnclaimed, AttemptsAreDistinct, Holds, IdleWorker, NoRow
<1> QED BY <1>1, <1>2, <1>3 DEF Inv

-----------------------------------------------------------------------------
(* Requests.                                                               *)

\* A SELECT changes the request's own state and nothing else.
LEMMA BeginInv ==
    ASSUME Inv, NEW r \in Requests, NEW op, NEW state \in RequestState,
           state.op \in {"retry", "cancel"} => state.job \in Jobs, Begin(r, op, state)
    PROVE  Inv'
<1>1. TypeOK'
  BY DEF Inv, TypeOK, Begin
<1>2. NamesAJob'
  BY DEF Inv, TypeOK, NamesAJob, Begin
<1>3. KeepsTable
  BY UnchangedKeepsTable DEF Begin
<1>4. AbsentIsUnclaimed' /\ AttemptsAreDistinct'
  BY <1>1, <1>3, KeptWithoutClaim DEF Begin, Holds
<1> QED BY <1>1, <1>2, <1>4 DEF Inv

\* A request that ends leaves the workers alone; what it committed, if
\* anything, kept every attempt_count.
LEMMA FinishInv ==
    ASSUME Inv, NEW r \in Requests, Finish(r), UNCHANGED <<worker, expired, calls, crashes>>,
           KeepsTable
    PROVE  Inv'
<1>1. TypeOK'
  BY ConstantRows DEF Inv, TypeOK, Finish, KeepsTable
<1>2. NamesAJob'
  BY DEF Inv, TypeOK, NamesAJob, Finish, IdleRequest
<1>3. AbsentIsUnclaimed' /\ AttemptsAreDistinct'
  BY <1>1, KeptWithoutClaim DEF Holds
<1> QED BY <1>1, <1>2, <1>3 DEF Inv

LEMMA RequestInv ==
    ASSUME Inv, NEW r \in Requests, RequestStep(r)
    PROVE  Inv'
<1>1. CASE \E k \in Keys : EnqueueRead(r, k)
  <2> PICK k \in Keys : EnqueueRead(r, k) BY <1>1
  <2>1. [IdleRequest EXCEPT !.op = "enqueue", !.key = k] \in RequestState
    BY ConstantRows DEF RequestState
  <2>2. [IdleRequest EXCEPT !.op = "enqueue", !.key = k].op = "enqueue"
    BY DEF IdleRequest
  <2> QED BY <2>1, <2>2, BeginInv DEF EnqueueRead
<1>2. CASE EnqueueInsert(r)
  <2> DEFINE new == [NoRow EXCEPT !.status = "QUEUED", !.key = request[r].key, !.due = TRUE]
  <2>1. PICK x \in Jobs : job[x].status = "ABSENT" /\ job' = [job EXCEPT ![x] = new]
    BY <1>2 DEF EnqueueInsert
  <2>2. job[x].attempts = 0
    BY <2>1 DEF Inv, AbsentIsUnclaimed
  <2>3. Keeps(job[x], new)
    BY <2>2, ConstantRows
       DEF Inv, TypeOK, RequestState, Row, Statuses, Active, Waiting, Keeps, NoRow
  <2>4. Finish(r) /\ UNCHANGED <<worker, expired, calls, crashes>>
    BY <1>2 DEF EnqueueInsert
  <2> QED BY <2>1, <2>3, <2>4, OneRowKeepsTable, FinishInv
<1>3. CASE \E j \in Jobs : RetryRead(r, j) \/ CancelRead(r, j)
  <2> PICK j \in Jobs : RetryRead(r, j) \/ CancelRead(r, j) BY <1>3
  <2>1. ASSUME NEW op \in {"retry", "cancel"}
        PROVE  /\ [IdleRequest EXCEPT !.op = op, !.job = j, !.row = job[j]] \in RequestState
               /\ [IdleRequest EXCEPT !.op = op, !.job = j, !.row = job[j]].job = j
    BY ConstantRows, JobsAreNaturals DEF Inv, TypeOK, RequestState, IdleRequest
  <2> QED BY <2>1, BeginInv DEF RetryRead, CancelRead
<1>4. CASE RetryWrite(r) \/ CancelWrite(r)
  <2> DEFINE x == request[r].job
  <2>1. x \in Jobs /\ job[x] \in Row /\ request[r].row \in Row
    BY <1>4 DEF RetryWrite, CancelWrite, Inv, NamesAJob, TypeOK, RequestState
  <2>2. PICK row : /\ row \in {FlushRetry(job[x], request[r].row), FlushCancel(job[x], request[r].row)}
                   /\ job' = [job EXCEPT ![x] = row]
    BY <1>4 DEF RetryWrite, CancelWrite
  <2>3. Keeps(job[x], row)
    BY <2>1, <2>2, HandlersKeep
  <2>4. KeepsTable
    BY <2>1, <2>2, <2>3, OneRowKeepsTable
  <2> QED BY <1>4, <2>4, FinishInv DEF RetryWrite, CancelWrite
<1>5. CASE RequestFails(r)
  BY <1>5, FinishInv, UnchangedKeepsTable DEF RequestFails
<1> QED BY <1>1, <1>2, <1>3, <1>4, <1>5 DEF RequestStep

-----------------------------------------------------------------------------
(* Workers and the clock.                                                  *)

\* A worker step that is no claim: the table is kept, the worker has a state of
\* its type, holds what it held before or nothing, and others are left alone.
LEMMA WorkerMovesInv ==
    ASSUME Inv, NEW w \in Workers, NEW state \in WorkerState,
           worker' = [worker EXCEPT ![w] = state],
           state.pc \in {"claimed", "running"} =>
               /\ worker[w].pc \in {"claimed", "running"}
               /\ state.job = worker[w].job
               /\ state.attempt = worker[w].attempt,
           KeepsTable, expired' \in [Workers -> [Jobs -> Row]], crashes' \in Nat,
           UNCHANGED <<request, calls>>
    PROVE  Inv'
<1>1. TypeOK'
  BY DEF Inv, TypeOK, KeepsTable
<1>2. NamesAJob'
  BY DEF Inv, TypeOK, NamesAJob
<1>3. AbsentIsUnclaimed' /\ AttemptsAreDistinct'
  <2>1. ASSUME NEW v \in Workers, NEW j \in Jobs, Holds(v, j)'
        PROVE  Holds(v, j) /\ worker'[v].attempt = worker[v].attempt
    BY <2>1 DEF Inv, TypeOK, Holds
  <2> QED BY <1>1, <2>1, KeptWithoutClaim
<1> QED BY <1>1, <1>2, <1>3 DEF Inv

\* The claim: the new holder's attempt number is one beyond every other's.
LEMMA ClaimInv ==
    ASSUME Inv, NEW w \in Workers, NEW j \in Jobs, Claim(w, j)
    PROVE  Inv'
<1> DEFINE state == [pc |-> "claimed", job |-> j, attempt |-> job[j].attempts + 1, row |-> NoRow]
<1>1. /\ job \in [Jobs -> Row]
      /\ worker \in [Workers -> WorkerState]
      /\ job[j].attempts \in Nat
      /\ j \in Nat
  BY JobsAreNaturals DEF Inv, TypeOK, Row
<1>2. worker' = [worker EXCEPT ![w] = state] /\ state \in WorkerState
  BY <1>1, ConstantRows DEF Claim, WorkerState
<1>3. /\ job' \in [Jobs -> Row]
      /\ job'[j].attempts = job[j].attempts + 1 /\ job'[j].status = "RUNNING"
      /\ \A i \in Jobs \ {j} : job'[i] = job[i]
  BY <1>1 DEF Claim, Row, Statuses, Active, Leases
<1>4. TypeOK'
  BY <1>2, <1>3 DEF Inv, TypeOK, Claim
<1>5. NamesAJob'
  BY <1>1, <1>2 DEF Inv, NamesAJob, Claim
<1>6. AbsentIsUnclaimed'
  BY <1>3 DEF Inv, AbsentIsUnclaimed
<1>7. AttemptsAreDistinct'
  <2> SUFFICES ASSUME NEW u \in Workers, NEW v \in Workers, NEW i \in Jobs, Holds(u, i)'
               PROVE  /\ worker'[u].attempt <= job'[i].attempts
                      /\ Holds(v, i)' /\ worker'[v].attempt = worker'[u].attempt => v = u
    BY DEF AttemptsAreDistinct, Holds
  <2>1. \A x \in Workers \ {w} :
            /\ worker'[x] = worker[x]
            /\ Holds(x, i)' <=> Holds(x, i)
            /\ Holds(x, i) => worker[x].attempt <= job[i].attempts /\ worker[x].attempt \in Nat
    BY <1>1, <1>2 DEF Inv, AttemptsAreDistinct, Holds, WorkerState
  <2>2. worker'[w] = state /\ (Holds(w, i)' => i = j /\ worker'[w].attempt = job[j].attempts + 1)
    BY <1>1, <1>2 DEF Holds
  <2>3. job[i].attempts \in Nat /\ job'[i].attempts \in Nat /\ job[i].attempts <= job'[i].attempts
    BY <1>1, <1>3 DEF Row
  <2>4. CASE u = w
    BY <1>1, <1>3, <2>1, <2>2, <2>4
  <2>5. CASE u # w /\ v = w
    BY <1>1, <1>3, <2>1, <2>2, <2>3, <2>5
  <2>6. CASE u # w /\ v # w
    <3>1. worker'[u].attempt <= job'[i].attempts
      BY <2>1, <2>3, <2>6
    <3>2. Holds(v, i)' /\ worker'[v].attempt = worker'[u].attempt => v = u
      BY <2>1, <2>6 DEF Inv, AttemptsAreDistinct
    <3> QED BY <3>1, <3>2
  <2> QED BY <2>4, <2>5, <2>6
<1> QED BY <1>4, <1>5, <1>6, <1>7 DEF Inv

LEMMA WorkerInv ==
    ASSUME Inv, NEW w \in Workers, WorkerStep(w)
    PROVE  Inv'
<1>1. /\ worker \in [Workers -> WorkerState]
      /\ worker[w] \in WorkerState
      /\ expired \in [Workers -> [Jobs -> Row]]
      /\ job \in [Jobs -> Row]
      /\ crashes \in Nat
      /\ IdleWorker \in WorkerState /\ IdleWorker.pc = "idle"
      /\ NoRow \in Row /\ NothingExpired \in [Jobs -> Row]
  BY ConstantRows DEF Inv, TypeOK, IdleWorker
<1>2. ASSUME NEW p \in {"idle", "recovering", "polled"}
      PROVE  [worker[w] EXCEPT !.pc = p] \in WorkerState /\ [worker[w] EXCEPT !.pc = p].pc = p
  BY <1>1 DEF WorkerState
<1>3. CASE RecoverRead(w)
  <2> DEFINE overdue == {j \in Jobs : Overdue(j)}
             p == IF overdue = {} THEN "polled" ELSE "recovering"
             state == [worker[w] EXCEPT !.pc = p]
  <2>1. worker' = [worker EXCEPT ![w] = state] /\ p \in {"polled", "recovering"}
    BY <1>1, <1>3 DEF RecoverRead
  <2>2. state \in WorkerState /\ state.pc \in {"polled", "recovering"}
    BY <1>2, <2>1
  <2>3. expired' \in [Workers -> [Jobs -> Row]]
    BY <1>1, <1>3 DEF RecoverRead
  <2>4. KeepsTable /\ UNCHANGED <<request, calls, crashes>>
    BY <1>3, UnchangedKeepsTable DEF RecoverRead
  <2> HIDE DEF state
  <2> QED BY <1>1, <2>1, <2>2, <2>3, <2>4, WorkerMovesInv
<1>4. CASE RecoverWrite(w)
  <2> DEFINE state == [worker[w] EXCEPT !.pc = "polled"]
  <2>1. worker' = [worker EXCEPT ![w] = state] /\ state \in WorkerState /\ state.pc = "polled"
    BY <1>1, <1>2, <1>4 DEF RecoverWrite
  <2>2. expired' \in [Workers -> [Jobs -> Row]]
    BY <1>1, <1>4 DEF RecoverWrite
  <2>3. ASSUME NEW j \in Jobs PROVE Keeps(job[j], job'[j])
    <3>1. CASE expired[w][j].status = "ABSENT"
      BY <1>1, <1>4, <3>1 DEF RecoverWrite, Keeps
    <3>2. CASE expired[w][j].status # "ABSENT"
      <4>1. job'[j] = FlushFailOrRetry(job[j], expired[w][j])
        BY <1>4, <3>2 DEF RecoverWrite
      <4> QED BY <1>1, <4>1, HandlersKeep
    <3> QED BY <3>1, <3>2
  <2>4. KeepsTable
    <3>1. job' = [j \in Jobs |-> job'[j]]
      BY <1>4 DEF RecoverWrite
    <3>2. \A j \in Jobs : job'[j] \in Row
      BY <2>3 DEF Keeps
    <3> QED BY <2>3, <3>1, <3>2 DEF KeepsTable
  <2>5. UNCHANGED <<request, calls, crashes>>
    BY <1>4 DEF RecoverWrite
  <2> HIDE DEF state
  <2> QED BY <1>1, <2>1, <2>2, <2>4, <2>5, WorkerMovesInv
<1>5. CASE \E j \in Jobs : Claim(w, j)
  BY <1>5, ClaimInv
<1>6. CASE ClaimNothing(w)
  BY <1>1, <1>6, UnchangedKeepsTable, WorkerMovesInv DEF ClaimNothing
<1>7. CASE StartJob(w)
  <2> DEFINE state == [worker[w] EXCEPT !.pc = "running", !.row = job[worker[w].job]]
  <2>1. worker' = [worker EXCEPT ![w] = state]
    BY <1>1, <1>7 DEF StartJob
  <2>2. /\ state \in WorkerState
        /\ state.job = worker[w].job /\ state.attempt = worker[w].attempt
        /\ worker[w].pc = "claimed"
    BY <1>1, <1>7 DEF StartJob, WorkerState, Inv, NamesAJob
  <2>3. KeepsTable /\ UNCHANGED <<request, expired, calls, crashes>>
    BY <1>7, UnchangedKeepsTable DEF StartJob
  <2> HIDE DEF state
  <2> QED BY <1>1, <2>1, <2>2, <2>3, WorkerMovesInv
<1>8. CASE WorkerEnds(w)
  <2> DEFINE x == worker[w].job
  <2>1. /\ worker[w].pc = "running"
        /\ worker' = [worker EXCEPT ![w] = IdleWorker]
        /\ UNCHANGED <<request, expired, calls, crashes>>
    BY <1>8 DEF WorkerEnds, JobSucceeds, JobFailsPermanently, JobFailsTransiently, EndJob
  <2>2. x \in Jobs /\ job[x] \in Row /\ worker[w].row \in Row
    BY <1>1, <2>1 DEF Inv, NamesAJob, WorkerState
  <2>3. PICK row : /\ row \in {FlushSucceeded(job[x], worker[w].row),
                                FlushPermanent(job[x], worker[w].row),
                                FlushFailOrRetry(job[x], worker[w].row)}
                   /\ job' = [job EXCEPT ![x] = row]
    BY <1>8 DEF WorkerEnds, JobSucceeds, JobFailsPermanently, JobFailsTransiently, EndJob
  <2>4. Keeps(job[x], row)
    BY <2>2, <2>3, HandlersKeep
  <2>5. KeepsTable
    BY <2>2, <2>3, <2>4, OneRowKeepsTable
  <2> QED BY <1>1, <2>1, <2>5, WorkerMovesInv
<1>9. CASE Crash(w)
  <2>1. /\ worker' = [worker EXCEPT ![w] = IdleWorker]
        /\ expired' \in [Workers -> [Jobs -> Row]]
        /\ crashes' \in Nat
        /\ UNCHANGED <<request, calls>>
    BY <1>1, <1>9 DEF Crash
  <2>2. KeepsTable
    BY <1>9, UnchangedKeepsTable DEF Crash
  <2> QED BY <1>1, <2>1, <2>2, WorkerMovesInv
<1> QED BY <1>3, <1>4, <1>5, <1>6, <1>7, <1>8, <1>9 DEF WorkerStep, Poll

\* A tick of the clock changes one row's lease or due flag.
LEMMA TickInv ==
    ASSUME Inv, Tick
    PROVE  Inv'
<1>1. PICK j \in Jobs : LeaseExpires(j) \/ BackoffElapses(j)
  BY DEF Tick
<1>2. PICK row : /\ row \in {[job[j] EXCEPT !.lease = "expired"], [job[j] EXCEPT !.due = TRUE]}
                 /\ job' = [job EXCEPT ![j] = row]
  BY <1>1 DEF LeaseExpires, BackoffElapses
<1>3. Keeps(job[j], row)
  BY <1>2 DEF Inv, TypeOK, Keeps, Row, Leases
<1>4. KeepsTable
  BY <1>2, <1>3, OneRowKeepsTable
<1>5. UNCHANGED <<request, worker, expired, calls, crashes>>
  BY <1>1 DEF LeaseExpires, BackoffElapses
<1>6. TypeOK' /\ NamesAJob'
  BY <1>4, <1>5 DEF Inv, TypeOK, NamesAJob, KeepsTable
<1>7. AbsentIsUnclaimed' /\ AttemptsAreDistinct'
  BY <1>4, <1>5, <1>6, KeptWithoutClaim DEF Holds
<1> QED BY <1>6, <1>7 DEF Inv

\* Inv is inductive.
LEMMA NextInv == Inv /\ [Next]_vars => Inv'
<1> SUFFICES ASSUME Inv, [Next]_vars PROVE Inv'
  OBVIOUS
<1>1. CASE \E r \in Requests : RequestStep(r)
  BY <1>1, RequestInv
<1>2. CASE \E w \in Workers : WorkerStep(w)
  BY <1>2, WorkerInv
<1>3. CASE Tick
  BY <1>3, TickInv
<1>4. CASE UNCHANGED vars
  BY <1>4 DEF vars, Inv, TypeOK, NamesAJob, AbsentIsUnclaimed, AttemptsAreDistinct, Holds
<1> QED BY <1>1, <1>2, <1>3, <1>4 DEF Next

\* Every reachable state has the declared types, whatever is overwritten: no
\* lost update in JobService writes a value outside a column's range.
THEOREM TypeCorrect == Spec => []TypeOK
<1>1. Inv => TypeOK
  BY DEF Inv
<1> QED BY InitInv, NextInv, <1>1, PTL DEF Spec

\* Two workers that execute one job, which stale writes of the queue can bring
\* about, are always in different attempts, none beyond attempt_count: the
\* claim hands out every attempt number once (JobService.claim).
THEOREM AttemptNumbersUnique == Spec => []AttemptsAreDistinct
<1>1. Inv => AttemptsAreDistinct
  BY DEF Inv
<1> QED BY InitInv, NextInv, <1>1, PTL DEF Spec

-----------------------------------------------------------------------------
(* One worker per job, while leases outlast what they are for.             *)

\* A dispatch ends within its lease, and a lease or a backoff within none of a
\* worker's statements; no operator retries a job.
Timely == ~ SlowJobs /\ ~ SlowSessions /\ "retry" \notin Operations

\* No operator retries a job by hand.
NothingIsRetried == \A r \in Requests : request[r].op # "retry"

\* A cancellation under way has loaded a row that was waiting.
CancelsSawWaiting ==
    \A r \in Requests : request[r].op = "cancel" => request[r].row.status \in Waiting

\* A job somebody holds has a live lease that no recovery has in hand.
HeldIsLeased ==
    \A w \in Workers : \A j \in Jobs : Holds(w, j) =>
        /\ job[j].status \in {"RUNNING", "CANCELLED"} /\ job[j].lease = "live"
        /\ \A v \in Workers : (Holds(v, j) => v = w) /\ expired[v][j].status = "ABSENT"

\* The row a worker loaded for its dispatch still has the attempt of the table.
DispatchIsCurrent ==
    \A w \in Workers : worker[w].pc = "running" =>
        /\ worker[w].row.status \in {"RUNNING", "CANCELLED"}
        /\ worker[w].row.lease = "live"
        /\ worker[w].row.attempts = job[worker[w].job].attempts

\* A row that cannot be claimed, and that a late recovery may write over.
Released(row) ==
    \/ row.status = "CANCELLED"
    \/ row.status = "FAILED" /\ row.error = "transient"
    \/ row.status = "RUNNING" /\ row.lease = "expired"
    \/ row.status = "RETRY_SCHEDULED" /\ ~ row.due

\* What a recovery has loaded is still to be recovered, or somebody else did so
\* or cancelled it.
RecoveryIsHarmless ==
    \A v \in Workers : \A j \in Jobs : expired[v][j].status # "ABSENT" =>
        /\ expired[v][j].status = "RUNNING" /\ expired[v][j].lease = "expired"
        /\ expired[v][j].attempts = job[j].attempts
        /\ job[j].error \in {expired[v][j].error, "transient"}
        /\ Released(job[j])

\* A row that waits has an attempt left.
WaitingHasAttempts ==
    \A j \in Jobs : /\ job[j].attempts <= MaxAttempts
                    /\ job[j].status \in Waiting => job[j].attempts < MaxAttempts

\* The inductive invariant of a queue whose leases outlast what they are for.
TimelyInv ==
    /\ Inv
    /\ NothingIsRetried /\ CancelsSawWaiting
    /\ HeldIsLeased /\ DispatchIsCurrent
    /\ RecoveryIsHarmless /\ WaitingHasAttempts

\* What a step does to sessions, unless it claims: nobody starts to hold a job, a
\* dispatch has loaded the row of the table, a recovery what is overdue.
SessionsGoOn ==
    /\ \A w \in Workers : \A j \in Jobs : Holds(w, j)' => Holds(w, j)
    /\ \A v \in Workers : \A j \in Jobs : expired'[v][j].status # "ABSENT" =>
          \/ expired'[v][j] = expired[v][j]
          \/ expired'[v][j] = job[j] /\ job'[j] = job[j] /\ Overdue(j)
    /\ \A w \in Workers : worker'[w].pc = "running" =>
          \/ worker'[w] = worker[w]
          \/ /\ worker[w].pc = "claimed" /\ worker'[w].job = worker[w].job
             /\ worker'[w].row = job[worker[w].job]

\* No success is put back to work, nor a permanent failure, and no cancellation
\* of a row that nobody had claimed or loaded as overdue is overwritten.
StaysEnded(j) ==
    /\ job'[j].status \in Active =>
          job[j].status # "SUCCEEDED" /\ ~ (job[j].status = "FAILED" /\ job[j].error = "permanent")
    /\ job[j].status = "CANCELLED" /\ job'[j].status # "CANCELLED" =>
          job[j].lease # "none" \/ Recovers(j)

\* What a step does to a row, unless it claims it.
RowGoesOn(j) ==
    /\ job'[j].attempts = job[j].attempts
    /\ job'[j].status \in Waiting => job'[j].attempts < MaxAttempts
    /\ (\E w \in Workers : Holds(w, j)') =>
          job'[j].status \in {"RUNNING", "CANCELLED"} /\ job'[j].lease = "live"
    /\ (\E v \in Workers : expired'[v][j].status # "ABSENT") =>
          Released(job'[j]) /\ job'[j].error \in {job[j].error, "transient"}
    /\ StaysEnded(j)

\* A row that is left alone.
LEMMA SameRow ==
    ASSUME TimelyInv, SessionsGoOn, NEW j \in Jobs, job'[j] = job[j]
    PROVE  RowGoesOn(j)
<1>1. job'[j].status \in Waiting => job'[j].attempts < MaxAttempts
  BY DEF TimelyInv, WaitingHasAttempts
<1>2. ASSUME NEW w \in Workers, Holds(w, j)'
      PROVE  job'[j].status \in {"RUNNING", "CANCELLED"} /\ job'[j].lease = "live"
  BY <1>2 DEF TimelyInv, HeldIsLeased, SessionsGoOn
<1>3. ASSUME NEW v \in Workers, expired'[v][j].status # "ABSENT"
      PROVE  Released(job'[j])
  <2>1. CASE expired'[v][j] = expired[v][j]
    BY <1>3, <2>1 DEF TimelyInv, RecoveryIsHarmless
  <2>2. CASE Overdue(j)
    BY <2>2 DEF Overdue, Released
  <2> QED BY <1>3, <2>1, <2>2 DEF SessionsGoOn
<1>4. StaysEnded(j)
  BY DEF StaysEnded, Active, Waiting
<1> QED BY <1>1, <1>2, <1>3, <1>4 DEF RowGoesOn

\* Steps that do not claim keep the invariant.
LEMMA TimelyStep ==
    ASSUME TimelyInv, Inv', NothingIsRetried', CancelsSawWaiting', SessionsGoOn,
           \A j \in Jobs : RowGoesOn(j)
    PROVE  TimelyInv' /\ \A j \in Jobs : StaysEnded(j)
<1>1. HeldIsLeased'
  <2> SUFFICES ASSUME NEW w \in Workers, NEW j \in Jobs, Holds(w, j)'
               PROVE  /\ job'[j].status \in {"RUNNING", "CANCELLED"} /\ job'[j].lease = "live"
                      /\ \A v \in Workers : (Holds(v, j)' => v = w)
                                            /\ expired'[v][j].status = "ABSENT"
    BY DEF HeldIsLeased, Holds
  <2>1. job'[j].status \in {"RUNNING", "CANCELLED"} /\ job'[j].lease = "live"
    BY DEF RowGoesOn
  <2>2. Holds(w, j) /\ \A v \in Workers : Holds(v, j)' => Holds(v, j)
    BY DEF SessionsGoOn
  <2>3. /\ \A v \in Workers : Holds(v, j) => v = w
        /\ \A v \in Workers : expired[v][j].status = "ABSENT"
        /\ job[j].lease = "live"
    BY <2>2 DEF TimelyInv, HeldIsLeased
  <2>4. ASSUME NEW v \in Workers PROVE expired'[v][j].status = "ABSENT"
    BY <2>3 DEF SessionsGoOn, Overdue
  <2> QED BY <2>1, <2>2, <2>3, <2>4
<1>2. DispatchIsCurrent'
  <2> SUFFICES ASSUME NEW w \in Workers, worker'[w].pc = "running"
               PROVE  /\ worker'[w].row.status \in {"RUNNING", "CANCELLED"}
                      /\ worker'[w].row.lease = "live"
                      /\ worker'[w].row.attempts = job'[worker'[w].job].attempts
    BY DEF DispatchIsCurrent
  <2> DEFINE x == worker'[w].job
  <2>1. x \in Jobs
    BY DEF Inv, NamesAJob
  <2>2. job'[x].attempts = job[x].attempts
    BY <2>1 DEF RowGoesOn
  <2>3. CASE worker'[w] = worker[w]
    BY <2>2, <2>3 DEF TimelyInv, DispatchIsCurrent
  <2>4. CASE /\ worker[w].pc = "claimed" /\ worker'[w].job = worker[w].job
             /\ worker'[w].row = job[worker[w].job]
    <3>1. Holds(w, x)
      BY <2>4 DEF Holds
    <3>2. job[x].status \in {"RUNNING", "CANCELLED"} /\ job[x].lease = "live"
      BY <2>1, <3>1 DEF TimelyInv, HeldIsLeased
    <3> QED BY <2>2, <2>4, <3>2
  <2> QED BY <2>3, <2>4 DEF SessionsGoOn
<1>3. RecoveryIsHarmless'
  <2> SUFFICES ASSUME NEW v \in Workers, NEW j \in Jobs, expired'[v][j].status # "ABSENT"
               PROVE  /\ expired'[v][j].status = "RUNNING" /\ expired'[v][j].lease = "expired"
                      /\ expired'[v][j].attempts = job'[j].attempts
                      /\ job'[j].error \in {expired'[v][j].error, "transient"}
                      /\ Released(job'[j])
    BY DEF RecoveryIsHarmless, Released
  <2>1. /\ Released(job'[j]) /\ job'[j].error \in {job[j].error, "transient"}
        /\ job'[j].attempts = job[j].attempts
    BY DEF RowGoesOn
  <2>2. CASE expired'[v][j] = expired[v][j]
    BY <2>1, <2>2 DEF TimelyInv, RecoveryIsHarmless
  <2>3. CASE expired'[v][j] = job[j] /\ Overdue(j)
    BY <2>1, <2>3 DEF Overdue
  <2> QED BY <2>2, <2>3 DEF SessionsGoOn
<1>4. WaitingHasAttempts'
  BY DEF TimelyInv, WaitingHasAttempts, RowGoesOn
<1>5. \A j \in Jobs : StaysEnded(j)
  BY DEF RowGoesOn
<1> QED BY <1>1, <1>2, <1>3, <1>4, <1>5 DEF TimelyInv

-----------------------------------------------------------------------------
(* Rows as timely handlers leave them.                                     *)

LEMMA MaxAttemptsIsPositive == MaxAttempts \in Nat /\ 0 < MaxAttempts
  BY JobQueueAssumption

\* A commit of _fail_or_retry that assigns the status fails the row or backs off,
\* by the attempt it loaded.
LEMMA FailedOrBacksOff ==
    ASSUME NEW stored \in Row, NEW loaded \in Row,
           loaded.status \notin {"FAILED", "RETRY_SCHEDULED"},
           loaded.attempts = stored.attempts
    PROVE  LET new == FlushFailOrRetry(stored, loaded)
           IN  /\ \/ new.status = "FAILED"
                  \/ new.status = "RETRY_SCHEDULED" /\ ~ new.due /\ new.attempts < MaxAttempts
               /\ loaded.error = "transient" => new.error = stored.error
               /\ loaded.error # "transient" => new.error = "transient"
<1> DEFINE assigned == FailOrRetry(loaded)
           new == Flush(stored, loaded, assigned)
           row == FlushFailOrRetry(stored, loaded)
<1>1. /\ assigned.status \in {"FAILED", "RETRY_SCHEDULED"}
      /\ assigned.status = "RETRY_SCHEDULED" => loaded.attempts < MaxAttempts
      /\ assigned.error = "transient"
      /\ assigned.attempts = loaded.attempts
  BY MaxAttemptsIsPositive DEF FailOrRetry, Row
<1>2. /\ new.status = assigned.status
      /\ new.attempts = stored.attempts
      /\ new.error = IF assigned.error = loaded.error THEN stored.error ELSE assigned.error
      /\ new = [f \in {"status", "key", "attempts", "lease", "due", "error"} |-> new[f]]
  BY <1>1 DEF Flush, Row
<1>3. row = IF assigned.status = "RETRY_SCHEDULED" THEN [new EXCEPT !.due = FALSE] ELSE new
  BY DEF FlushFailOrRetry
<1> HIDE DEF assigned, new, row
<1>4. /\ row.status = new.status /\ row.attempts = new.attempts /\ row.error = new.error
      /\ assigned.status = "RETRY_SCHEDULED" => row.due = FALSE
  BY <1>2, <1>3
<1>5. CASE assigned.status = "FAILED"
  BY <1>1, <1>2, <1>4, <1>5 DEF row
<1>6. CASE assigned.status = "RETRY_SCHEDULED"
  <2>1. row.status = "RETRY_SCHEDULED" /\ ~ row.due
    BY <1>2, <1>4, <1>6
  <2>2. row.attempts < MaxAttempts
    BY <1>1, <1>2, <1>4, <1>6
  <2> QED BY <1>1, <1>2, <1>4, <2>1, <2>2 DEF row
<1> QED BY <1>1, <1>5, <1>6

\* A dispatch that ended leaves a row that waits only with an attempt left.
LEMMA EndedRow ==
    ASSUME NEW stored \in Row, NEW loaded \in Row,
           loaded.status \in {"RUNNING", "CANCELLED"}, loaded.attempts = stored.attempts,
           NEW new \in {FlushSucceeded(stored, loaded), FlushPermanent(stored, loaded),
                        FlushFailOrRetry(stored, loaded)}
    PROVE  new.status \in Waiting => new.attempts < MaxAttempts
<1>1. FlushSucceeded(stored, loaded).status = "SUCCEEDED"
  BY DEF FlushSucceeded, Flush, Row
<1>2. FlushPermanent(stored, loaded).status = "FAILED"
  BY DEF FlushPermanent, Flush, Row
<1>3. CASE new = FlushFailOrRetry(stored, loaded)
  BY <1>3, FailedOrBacksOff DEF Waiting
<1> QED BY <1>1, <1>2, <1>3 DEF Waiting

\* A cancellation of a row that waited assigns the status alone.
LEMMA CancelledRow ==
    ASSUME NEW stored \in Row, NEW loaded \in Row, loaded.status \in Waiting
    PROVE  FlushCancel(stored, loaded) = [stored EXCEPT !.status = "CANCELLED"]
  BY DEF FlushCancel, Flush, Row, Waiting

-----------------------------------------------------------------------------
(* The steps of a timely queue.                                            *)

\* A SELECT of a request.
LEMMA TimelyBegin ==
    ASSUME TimelyInv, Inv', NEW r \in Requests, NEW op, NEW state \in RequestState,
           state.op # "retry", state.op = "cancel" => state.row.status \in Waiting,
           Begin(r, op, state)
    PROVE  TimelyInv' /\ \A j \in Jobs : StaysEnded(j)
<1>1. NothingIsRetried' /\ CancelsSawWaiting'
  BY DEF TimelyInv, Inv, TypeOK, NothingIsRetried, CancelsSawWaiting, Begin
<1>2. SessionsGoOn
  BY DEF Begin, SessionsGoOn, Holds
<1>3. \A j \in Jobs : RowGoesOn(j)
  BY <1>2, SameRow DEF Begin
<1> QED BY <1>1, <1>2, <1>3, TimelyStep

\* A request that ends, having written one row or none.
LEMMA TimelyFinish ==
    ASSUME TimelyInv, Inv', NEW r \in Requests, Finish(r),
           UNCHANGED <<worker, expired, calls, crashes>>,
           \A j \in Jobs : job'[j] = job[j] \/ RowGoesOn(j)
    PROVE  TimelyInv' /\ \A j \in Jobs : StaysEnded(j)
<1>1. NothingIsRetried' /\ CancelsSawWaiting'
  BY DEF TimelyInv, Inv, TypeOK, NothingIsRetried, CancelsSawWaiting, Finish, IdleRequest
<1>2. SessionsGoOn
  BY DEF SessionsGoOn, Holds
<1>3. \A j \in Jobs : RowGoesOn(j)
  BY <1>2, SameRow
<1> QED BY <1>1, <1>2, <1>3, TimelyStep

LEMMA TimelyRequest ==
    ASSUME Timely, TimelyInv, Inv', NEW r \in Requests, RequestStep(r)
    PROVE  TimelyInv' /\ \A j \in Jobs : StaysEnded(j)
<1>0. job \in [Jobs -> Row] /\ request \in [Requests -> RequestState]
  BY DEF TimelyInv, Inv, TypeOK
<1>1. CASE \E k \in Keys : EnqueueRead(r, k)
  <2> PICK k \in Keys : EnqueueRead(r, k) BY <1>1
  <2> DEFINE state == [IdleRequest EXCEPT !.op = "enqueue", !.key = k]
  <2>1. state \in RequestState /\ state.op = "enqueue"
    BY ConstantRows DEF RequestState, IdleRequest
  <2>2. Begin(r, "enqueue", state)
    BY DEF EnqueueRead
  <2> HIDE DEF state
  <2> QED BY <2>1, <2>2, TimelyBegin
<1>2. CASE EnqueueInsert(r)
  <2> DEFINE new == [NoRow EXCEPT !.status = "QUEUED", !.key = request[r].key, !.due = TRUE]
  <2>1. PICK x \in Jobs : job[x].status = "ABSENT" /\ job' = [job EXCEPT ![x] = new]
    BY <1>2 DEF EnqueueInsert
  <2>2. /\ job'[x].status = "QUEUED" /\ job'[x].attempts = 0
        /\ \A j \in Jobs \ {x} : job'[j] = job[j]
    BY <1>0, <2>1 DEF NoRow
  <2>3. Finish(r) /\ UNCHANGED <<worker, expired, calls, crashes>>
    BY <1>2 DEF EnqueueInsert
  <2>4. RowGoesOn(x)
    <3>1. job[x].attempts = 0
      BY <2>1 DEF TimelyInv, Inv, AbsentIsUnclaimed
    <3>2. ~ \E w \in Workers : Holds(w, x)'
      BY <2>1, <2>3 DEF TimelyInv, HeldIsLeased, Holds
    <3>3. ~ \E v \in Workers : expired'[v][x].status # "ABSENT"
      BY <2>1, <2>3 DEF TimelyInv, RecoveryIsHarmless, Released
    <3>4. StaysEnded(x)
      BY <2>1 DEF StaysEnded
    <3> QED BY <2>2, <3>1, <3>2, <3>3, <3>4, MaxAttemptsIsPositive DEF RowGoesOn
  <2> QED BY <2>2, <2>3, <2>4, TimelyFinish
<1>3. CASE \E j \in Jobs : RetryRead(r, j) \/ CancelRead(r, j)
  <2>1. ~ \E j \in Jobs : RetryRead(r, j)
    BY DEF RetryRead, Begin, Timely
  <2> PICK j \in Jobs : CancelRead(r, j) BY <1>3, <2>1
  <2> DEFINE state == [IdleRequest EXCEPT !.op = "cancel", !.job = j, !.row = job[j]]
  <2>2. state \in RequestState /\ state.op = "cancel" /\ state.row = job[j]
    BY <1>0, ConstantRows, JobsAreNaturals DEF RequestState, IdleRequest
  <2>3. Begin(r, "cancel", state) /\ job[j].status \in Waiting
    BY DEF CancelRead
  <2> HIDE DEF state
  <2> QED BY <2>2, <2>3, TimelyBegin
<1>4. CASE RetryWrite(r) \/ CancelWrite(r)
  <2>1. CancelWrite(r)
    BY <1>4 DEF RetryWrite, TimelyInv, NothingIsRetried
  <2>0. PICK x : x = request[r].job
    OBVIOUS
  <2>2. /\ x \in Jobs /\ job[x] \in Row /\ request[r].row \in Row
        /\ request[r].row.status \in Waiting
    BY <1>0, <2>0, <2>1 DEF CancelWrite, TimelyInv, Inv, NamesAJob, CancelsSawWaiting, RequestState
  <2>3. job' = [job EXCEPT ![x] = [job[x] EXCEPT !.status = "CANCELLED"]]
    BY <2>0, <2>1, <2>2, CancelledRow DEF CancelWrite
  <2>4. /\ job'[x].status = "CANCELLED"
        /\ job'[x].attempts = job[x].attempts
        /\ job'[x].lease = job[x].lease /\ job'[x].error = job[x].error
        /\ \A j \in Jobs \ {x} : job'[j] = job[j]
    BY <1>0, <2>2, <2>3 DEF Row
  <2>5. Finish(r) /\ UNCHANGED <<worker, expired, calls, crashes>>
    BY <2>1 DEF CancelWrite
  <2>6. RowGoesOn(x)
    <3>1. (\E w \in Workers : Holds(w, x)') => job[x].lease = "live"
      BY <2>2, <2>5 DEF TimelyInv, HeldIsLeased, Holds
    <3>2. StaysEnded(x)
      BY <2>4 DEF StaysEnded, Active, Waiting
    <3> QED BY <2>2, <2>4, <3>1, <3>2 DEF RowGoesOn, Released, Waiting
  <2> QED BY <2>2, <2>4, <2>5, <2>6, TimelyFinish
<1>5. CASE RequestFails(r)
  BY <1>5, TimelyFinish DEF RequestFails
<1> QED BY <1>1, <1>2, <1>3, <1>4, <1>5 DEF RequestStep

\* The claim: its row was waiting, so nobody held it or had it in hand.
LEMMA TimelyClaim ==
    ASSUME TimelyInv, Inv', NEW w \in Workers, NEW x \in Jobs, Claim(w, x)
    PROVE  TimelyInv' /\ \A j \in Jobs : StaysEnded(j)
<1> DEFINE state == [pc |-> "claimed", job |-> x, attempt |-> job[x].attempts + 1, row |-> NoRow]
<1>1. job \in [Jobs -> Row] /\ worker \in [Workers -> WorkerState] /\ job[x].attempts \in Nat
  BY DEF TimelyInv, Inv, TypeOK, Row
<1>2. /\ job'[x].status = "RUNNING" /\ job'[x].lease = "live"
      /\ job'[x].attempts = job[x].attempts + 1
      /\ \A j \in Jobs \ {x} : job'[j] = job[j]
  BY <1>1 DEF Claim, Row
<1>3. /\ worker[w].pc = "polled"
      /\ worker'[w].pc = "claimed" /\ worker'[w].job = x
      /\ \A v \in Workers \ {w} : worker'[v] = worker[v]
      /\ UNCHANGED <<request, expired>>
  BY <1>1 DEF Claim
<1>4. job[x].status \in Waiting /\ job[x].due
  BY DEF Claim, Claimable
<1>5. \A v \in Workers : ~ Holds(v, x) /\ expired[v][x].status = "ABSENT"
  <2> TAKE v \in Workers
  <2>1. ~ Holds(v, x)
    BY <1>4 DEF TimelyInv, HeldIsLeased, Waiting
  <2>2. ~ Released(job[x])
    BY <1>4 DEF Released, Waiting
  <2> QED BY <2>1, <2>2 DEF TimelyInv, RecoveryIsHarmless
<1>6. HeldIsLeased'
  <2> SUFFICES ASSUME NEW u \in Workers, NEW j \in Jobs, Holds(u, j)'
               PROVE  /\ job'[j].status \in {"RUNNING", "CANCELLED"} /\ job'[j].lease = "live"
                      /\ \A v \in Workers : (Holds(v, j)' => v = u)
                                            /\ expired'[v][j].status = "ABSENT"
    BY DEF HeldIsLeased, Holds
  <2>1. CASE j = x
    BY <1>2, <1>3, <1>5, <2>1 DEF Holds
  <2>2. CASE j # x
    <3>1. \A v \in Workers : Holds(v, j)' => Holds(v, j)
      BY <1>3, <2>2 DEF Holds
    <3> QED BY <1>2, <1>3, <2>2, <3>1 DEF TimelyInv, HeldIsLeased
  <2> QED BY <2>1, <2>2
<1>7. DispatchIsCurrent'
  <2> SUFFICES ASSUME NEW v \in Workers, worker'[v].pc = "running"
               PROVE  /\ worker'[v].row.status \in {"RUNNING", "CANCELLED"}
                      /\ worker'[v].row.lease = "live"
                      /\ worker'[v].row.attempts = job'[worker'[v].job].attempts
    BY DEF DispatchIsCurrent
  <2>1. v # w /\ worker'[v] = worker[v]
    BY <1>3
  <2>2. worker[v].job \in Jobs /\ worker[v].job # x
    BY <1>5, <2>1 DEF TimelyInv, Inv, NamesAJob, Holds
  <2> QED BY <1>2, <2>1, <2>2 DEF TimelyInv, DispatchIsCurrent
<1>8. RecoveryIsHarmless'
  <2> SUFFICES ASSUME NEW v \in Workers, NEW j \in Jobs, expired'[v][j].status # "ABSENT"
               PROVE  /\ expired'[v][j].status = "RUNNING" /\ expired'[v][j].lease = "expired"
                      /\ expired'[v][j].attempts = job'[j].attempts
                      /\ job'[j].error \in {expired'[v][j].error, "transient"}
                      /\ Released(job'[j])
    BY DEF RecoveryIsHarmless, Released
  <2>1. j # x
    BY <1>3, <1>5
  <2> QED BY <1>2, <1>3, <2>1 DEF TimelyInv, RecoveryIsHarmless
<1>9. WaitingHasAttempts'
  <2>1. job[x].attempts + 1 <= MaxAttempts
    BY <1>1, <1>4, MaxAttemptsIsPositive DEF TimelyInv, WaitingHasAttempts
  <2> QED BY <1>2, <2>1 DEF TimelyInv, WaitingHasAttempts, Waiting
<1>10. NothingIsRetried' /\ CancelsSawWaiting'
  BY <1>3 DEF TimelyInv, NothingIsRetried, CancelsSawWaiting
<1>11. \A j \in Jobs : StaysEnded(j)
  BY <1>2, <1>4 DEF StaysEnded, Active, Waiting
<1> QED BY <1>6, <1>7, <1>8, <1>9, <1>10, <1>11 DEF TimelyInv

\* A step of a worker that leaves requests alone.
LEMMA TimelyWorks ==
    ASSUME TimelyInv, Inv', UNCHANGED request, SessionsGoOn,
           \A j \in Jobs : job'[j] = job[j] \/ RowGoesOn(j)
    PROVE  TimelyInv' /\ \A j \in Jobs : StaysEnded(j)
<1>1. NothingIsRetried' /\ CancelsSawWaiting'
  BY DEF TimelyInv, NothingIsRetried, CancelsSawWaiting
<1>2. \A j \in Jobs : RowGoesOn(j)
  BY SameRow
<1> QED BY <1>1, <1>2, TimelyStep

LEMMA TimelyWorker ==
    ASSUME TimelyInv, Inv', NEW w \in Workers, WorkerStep(w)
    PROVE  TimelyInv' /\ \A j \in Jobs : StaysEnded(j)
<1>1. /\ worker \in [Workers -> WorkerState]
      /\ expired \in [Workers -> [Jobs -> Row]]
      /\ job \in [Jobs -> Row]
      /\ IdleWorker.pc = "idle" /\ NoRow.status = "ABSENT"
      /\ \A j \in Jobs : NothingExpired[j].status = "ABSENT"
  BY DEF TimelyInv, Inv, TypeOK, IdleWorker, NoRow, NothingExpired
<1>2. CASE RecoverRead(w)
  <2>1. /\ UNCHANGED <<job, request>>
        /\ \A v \in Workers \ {w} : worker'[v] = worker[v] /\ expired'[v] = expired[v]
        /\ worker'[w].pc \in {"polled", "recovering"}
    BY <1>1, <1>2 DEF RecoverRead, WorkerState
  <2>2. \A j \in Jobs : expired'[w][j] = IF Overdue(j) THEN job[j] ELSE NoRow
    BY <1>1, <1>2 DEF RecoverRead
  <2>3. SessionsGoOn
    BY <1>1, <2>1, <2>2 DEF SessionsGoOn, Holds
  <2> QED BY <2>1, <2>3, TimelyWorks
<1>3. CASE RecoverWrite(w)
  <2>1. /\ UNCHANGED request
        /\ \A v \in Workers \ {w} : worker'[v] = worker[v] /\ expired'[v] = expired[v]
        /\ worker'[w].pc = "polled" /\ expired'[w] = NothingExpired
    BY <1>1, <1>3 DEF RecoverWrite, WorkerState
  <2>2. SessionsGoOn
    BY <1>1, <2>1 DEF SessionsGoOn, Holds
  <2>3. ASSUME NEW j \in Jobs, expired[w][j].status # "ABSENT"
        PROVE  RowGoesOn(j)
    <3> DEFINE loaded == expired[w][j]
    <3>1. job'[j] = FlushFailOrRetry(job[j], loaded)
      BY <1>3, <2>3 DEF RecoverWrite
    <3>2. /\ loaded \in Row /\ job[j] \in Row /\ loaded.status = "RUNNING"
          /\ loaded.attempts = job[j].attempts
          /\ job[j].error \in {loaded.error, "transient"}
          /\ Released(job[j])
      BY <1>1, <2>3 DEF TimelyInv, RecoveryIsHarmless
    <3> HIDE DEF loaded
    <3>3. job'[j].attempts = job[j].attempts
      BY <3>1, <3>2, HandlersKeep DEF Keeps
    <3>4. /\ \/ job'[j].status = "FAILED"
             \/ job'[j].status = "RETRY_SCHEDULED" /\ ~ job'[j].due
                /\ job'[j].attempts < MaxAttempts
          /\ job'[j].error = "transient"
      BY <3>1, <3>2, FailedOrBacksOff
    <3>5. ~ \E v \in Workers : Holds(v, j)'
      BY <2>2, <2>3 DEF SessionsGoOn, TimelyInv, HeldIsLeased
    <3>6. StaysEnded(j)
      BY <2>3, <3>2 DEF StaysEnded, Released, Recovers
    <3> QED BY <3>3, <3>4, <3>5, <3>6 DEF RowGoesOn, Released, Waiting
  <2>4. \A j \in Jobs : job'[j] = job[j] \/ RowGoesOn(j)
    BY <1>3, <2>3 DEF RecoverWrite
  <2> QED BY <2>1, <2>2, <2>4, TimelyWorks
<1>4. CASE \E j \in Jobs : Claim(w, j)
  BY <1>4, TimelyClaim
<1>5. CASE ClaimNothing(w) \/ Crash(w)
  <2>1. /\ UNCHANGED <<job, request>> /\ worker' = [worker EXCEPT ![w] = IdleWorker]
        /\ expired' = expired \/ expired' = [expired EXCEPT ![w] = NothingExpired]
    BY <1>5 DEF ClaimNothing, Crash
  <2>2. SessionsGoOn
    BY <1>1, <2>1 DEF SessionsGoOn, Holds
  <2> QED BY <2>1, <2>2, TimelyWorks
<1>6. CASE StartJob(w)
  <2>1. /\ UNCHANGED <<job, request, expired>> /\ worker[w].pc = "claimed"
        /\ worker'[w].job = worker[w].job /\ worker'[w].row = job[worker[w].job]
        /\ \A v \in Workers \ {w} : worker'[v] = worker[v]
    BY <1>1, <1>6 DEF StartJob, WorkerState
  <2>2. SessionsGoOn
    BY <2>1 DEF SessionsGoOn, Holds
  <2> QED BY <2>1, <2>2, TimelyWorks
<1>7. CASE WorkerEnds(w)
  <2>0. PICK x, loaded : x = worker[w].job /\ loaded = worker[w].row
    OBVIOUS
  <2>1. /\ worker[w].pc = "running"
        /\ worker' = [worker EXCEPT ![w] = IdleWorker]
        /\ UNCHANGED <<request, expired>>
    BY <1>7 DEF WorkerEnds, JobSucceeds, JobFailsPermanently, JobFailsTransiently, EndJob
  <2>2. SessionsGoOn
    BY <1>1, <2>1 DEF SessionsGoOn, Holds
  <2>3. x \in Jobs /\ job[x] \in Row /\ loaded \in Row /\ Holds(w, x)
    BY <1>1, <2>0, <2>1 DEF TimelyInv, Inv, NamesAJob, WorkerState, Holds
  <2>4. PICK row : /\ row \in {FlushSucceeded(job[x], loaded), FlushPermanent(job[x], loaded),
                                FlushFailOrRetry(job[x], loaded)}
                   /\ job' = [job EXCEPT ![x] = row]
    BY <1>7, <2>0
       DEF WorkerEnds, JobSucceeds, JobFailsPermanently, JobFailsTransiently, EndJob
  <2>5. loaded.status \in {"RUNNING", "CANCELLED"} /\ loaded.attempts = job[x].attempts
    BY <2>0, <2>1 DEF TimelyInv, DispatchIsCurrent
  <2>6. /\ job[x].status \in {"RUNNING", "CANCELLED"} /\ job[x].lease = "live"
        /\ \A v \in Workers : (Holds(v, x) => v = w) /\ expired[v][x].status = "ABSENT"
    BY <2>3 DEF TimelyInv, HeldIsLeased
  <2>7. job'[x] = row /\ \A j \in Jobs \ {x} : job'[j] = job[j]
    BY <1>1, <2>3, <2>4
  <2>8. RowGoesOn(x)
    <3>1. row.attempts = job[x].attempts
      BY <2>3, <2>4, HandlersKeep DEF Keeps
    <3>2. row.status \in Waiting => row.attempts < MaxAttempts
      BY <2>3, <2>4, <2>5, EndedRow
    <3>3. ~ \E v \in Workers : Holds(v, x)'
      <4>1. ~ Holds(w, x)'
        BY <1>1, <2>1 DEF Holds
      <4> QED BY <2>2, <2>3, <2>6, <4>1 DEF SessionsGoOn
    <3>4. ~ \E v \in Workers : expired'[v][x].status # "ABSENT"
      BY <2>1, <2>6
    <3>5. StaysEnded(x)
      BY <2>6 DEF StaysEnded
    <3> QED BY <2>7, <3>1, <3>2, <3>3, <3>4, <3>5 DEF RowGoesOn
  <2> QED BY <2>1, <2>2, <2>7, <2>8, TimelyWorks
<1> QED BY <1>2, <1>3, <1>4, <1>5, <1>6, <1>7 DEF WorkerStep, Poll

\* The clock passes no lease that is held and no backoff that is in hand.
LEMMA TimelyTick ==
    ASSUME Timely, TimelyInv, Inv', Tick
    PROVE  TimelyInv' /\ \A j \in Jobs : StaysEnded(j)
<1>1. PICK x \in Jobs : LeaseExpires(x) \/ BackoffElapses(x)
  BY DEF Tick
<1>2. UNCHANGED <<request, worker, expired, calls, crashes>> /\ job \in [Jobs -> Row]
  BY <1>1 DEF LeaseExpires, BackoffElapses, TimelyInv, Inv, TypeOK
<1>3. SessionsGoOn
  BY <1>2 DEF SessionsGoOn, Holds
<1>4. CASE LeaseExpires(x)
  <2>1. /\ job'[x].status = "RUNNING" /\ job[x].status = "RUNNING" /\ job'[x].lease = "expired"
        /\ job'[x].attempts = job[x].attempts /\ job'[x].error = job[x].error
        /\ \A j \in Jobs \ {x} : job'[j] = job[j]
    BY <1>2, <1>4 DEF LeaseExpires, Row
  <2>2. ~ \E w \in Workers : Holds(w, x)'
    BY <1>2, <1>4 DEF LeaseExpires, Timely, Holds
  <2>3. RowGoesOn(x)
    BY <2>1, <2>2 DEF RowGoesOn, Released, StaysEnded, Waiting
  <2> QED BY <1>2, <1>3, <2>1, <2>3, TimelyWorks
<1>5. CASE BackoffElapses(x)
  <2>1. /\ job'[x].status = "RETRY_SCHEDULED" /\ job[x].status = "RETRY_SCHEDULED"
        /\ job'[x].attempts = job[x].attempts
        /\ \A j \in Jobs \ {x} : job'[j] = job[j]
    BY <1>2, <1>5 DEF BackoffElapses, Row
  <2>2. ~ \E v \in Workers : expired'[v][x].status # "ABSENT"
    BY <1>2, <1>5 DEF BackoffElapses, Timely
  <2>3. ~ \E w \in Workers : Holds(w, x)'
    BY <1>3, <2>1 DEF SessionsGoOn, TimelyInv, HeldIsLeased
  <2>4. job'[x].attempts < MaxAttempts
    BY <2>1 DEF TimelyInv, WaitingHasAttempts, Waiting
  <2>5. RowGoesOn(x)
    BY <2>1, <2>2, <2>3, <2>4 DEF RowGoesOn, StaysEnded
  <2> QED BY <1>2, <1>3, <2>1, <2>5, TimelyWorks
<1> QED BY <1>1, <1>4, <1>5

LEMMA TimelyInit == Init => TimelyInv
<1> SUFFICES ASSUME Init PROVE TimelyInv
  OBVIOUS
<1>1. Inv
  BY InitInv
<1>2. NothingIsRetried /\ CancelsSawWaiting
  BY DEF Init, NothingIsRetried, CancelsSawWaiting, IdleRequest
<1>3. HeldIsLeased /\ DispatchIsCurrent
  BY DEF Init, HeldIsLeased, DispatchIsCurrent, Holds, IdleWorker
<1>4. RecoveryIsHarmless
  BY DEF Init, RecoveryIsHarmless, NothingExpired, NoRow
<1>5. WaitingHasAttempts
  BY MaxAttemptsIsPositive DEF Init, WaitingHasAttempts, NoRow, Waiting
<1> QED BY <1>1, <1>2, <1>3, <1>4, <1>5 DEF TimelyInv

\* TimelyInv is inductive when Timely, and no step of it puts an end back to work.
LEMMA TimelyNext ==
    Timely /\ TimelyInv /\ [Next]_vars => TimelyInv' /\ \A j \in Jobs : StaysEnded(j)
<1> SUFFICES ASSUME Timely, TimelyInv, [Next]_vars
             PROVE  TimelyInv' /\ \A j \in Jobs : StaysEnded(j)
  OBVIOUS
<1>1. Inv'
  BY NextInv DEF TimelyInv
<1>2. CASE \E r \in Requests : RequestStep(r)
  BY <1>1, <1>2, TimelyRequest
<1>3. CASE \E w \in Workers : WorkerStep(w)
  BY <1>1, <1>3, TimelyWorker
<1>4. CASE Tick
  BY <1>1, <1>4, TimelyTick
<1>5. CASE UNCHANGED vars
  <2>1. SessionsGoOn
    BY <1>5 DEF vars, SessionsGoOn, Holds
  <2> QED BY <1>1, <1>5, <2>1, TimelyWorks DEF vars
<1> QED BY <1>2, <1>3, <1>4, <1>5 DEF Next

\* While a dispatch ends within its lease, no worker stalls between two statements
\* and no operator retries, no job is executed by two workers, and none is claimed
\* more often than max_attempts, for any number of workers, requests and crashes:
\* recover_expired_leases, claim and the ends of a dispatch need no lock between
\* them (JobService, app/workers/runner.py).
THEOREM OneWorkerAtATime == Timely /\ Spec => []OneWorkerPerJob
<1>1. TimelyInv => OneWorkerPerJob
  BY DEF TimelyInv, HeldIsLeased, WaitingHasAttempts, OneWorkerPerJob
<1>2. ASSUME Timely PROVE Spec => []OneWorkerPerJob
  <2>1. TimelyInv /\ [Next]_vars => TimelyInv'
    BY TimelyNext, <1>2
  <2> QED BY <1>1, <2>1, TimelyInit, PTL DEF Spec
<1> QED BY <1>2

\* Under the same assumptions no commit of a worker, a recovery or a request,
\* however stale the row it loaded, puts a success or a permanent failure back to
\* work, and a cancellation is overwritten only by the worker that had claimed the
\* job before, or by a recovery that had loaded it.
THEOREM EndsStay == Timely /\ Spec => EndStays
<1> DEFINE Step == \A j \in Jobs :
        /\ job'[j].status \in Active =>
              /\ job[j].status # "SUCCEEDED"
              /\ job[j].status = "FAILED" /\ job[j].error = "permanent" => Retries(j)
        /\ job[j].status = "CANCELLED" /\ job'[j].status # "CANCELLED" =>
              job[j].lease # "none" \/ Retries(j) \/ Recovers(j)
<1>1. ASSUME Timely PROVE Spec => EndStays
  <2>1. TimelyInv /\ [Next]_vars => TimelyInv'
    BY TimelyNext, <1>1
  <2>2. TimelyInv /\ [Next]_vars => [Step]_vars
    BY TimelyNext, <1>1 DEF StaysEnded
  <2> QED BY <2>1, <2>2, TimelyInit, PTL DEF Spec, EndStays
<1> QED BY <1>1
=============================================================================
