-------------------------- MODULE ResolutionProofs --------------------------
(***************************************************************************)
(* Theorems about Resolution, for every number of plans, actions, keys and *)
(* concurrent sessions.                                                    *)
(*                                                                         *)
(* That an action has one workflow record, and only after an approval,     *)
(* rests on four facts.  The row lock keeps executions of an action apart; *)
(* so what an execution found, no success and an approval in the log, is   *)
(* still true when it commits.  The log only grows.  A record is made in   *)
(* the commit that stores the success.  And a key is used once, so two     *)
(* successes never share a row.  The statuses of plans and actions, which  *)
(* concurrent sessions do overwrite, play no part in it.                   *)
(*                                                                         *)
(* Order, aggregation and what is settled are about statuses.  A session   *)
(* that has loaded a settled action finds it disposed of: rejected in the  *)
(* log, or with its record.  Both are for good, whatever is later written  *)
(* over the status (DisposalInv).                                          *)
(***************************************************************************)
EXTENDS Resolution, FiniteSetTheorems, TLAPS

-----------------------------------------------------------------------------
(* Type correctness.                                                       *)

\* What a session carries, by what it does.
SessionIsComplete(q) ==
    /\ q.op \in {"decide", "execute"} => q.plan \in Plans /\ q.order \in Orders
    /\ q.op = "decide" => q.decision \in Verdicts
    /\ q.op = "execute" => q.key \in Keys

TypeInv == TypeOK /\ \A r \in Requests : SessionIsComplete(request[r])

LEMMA AbsentRowsTyped ==
    /\ NoPlan \in PlanRow
    /\ NoActions \in [Orders -> ActionStatus]
    /\ NoExecution \in ExecutionRow
    /\ Idle \in RequestState
    /\ Idle.op = "none" /\ SessionIsComplete(Idle)
<1>1. NoPlan \in PlanRow /\ NoExecution \in ExecutionRow
  BY DEF NoPlan, PlanRow, NoExecution, ExecutionRow
<1>2. NoActions \in [Orders -> ActionStatus]
  BY DEF NoActions, ActionStatus
<1>3. Idle \in RequestState
  BY <1>1, <1>2 DEF Idle, RequestState
<1>4. Idle.op = "none"
  BY DEF Idle
<1> QED BY <1>1, <1>2, <1>3, <1>4 DEF SessionIsComplete

LEMMA SnapshotTyped ==
    ASSUME TypeOK, NEW p \in Plans
    PROVE  Snapshot(p) \in [plan : PlanRow, action : [Orders -> ActionStatus]]
  BY DEF TypeOK, Snapshot

\* What a session holds.
LEMMA SessionTyped ==
    ASSUME TypeInv, NEW r \in Requests
    PROVE  /\ request[r].loaded.plan \in PlanRow
           /\ request[r].loaded.action \in [Orders -> ActionStatus]
           /\ SessionIsComplete(request[r])
<1>1. request[r] \in RequestState
  BY DEF TypeInv, TypeOK
<1> QED BY <1>1 DEF RequestState, TypeInv

LEMMA FlushPlanTyped ==
    ASSUME NEW s \in PlanRow, NEW l \in PlanRow, NEW a \in PlanRow
    PROVE  Flush(s, l, a) \in PlanRow
  BY DEF Flush, PlanRow

LEMMA SupersededTyped ==
    ASSUME NEW row \in PlanRow
    PROVE  Superseded(row) \in PlanRow
  BY DEF Superseded, PlanRow

LEMMA RefreshedTyped ==
    ASSUME NEW row \in PlanRow, NEW actions
    PROVE  [row EXCEPT !.status = Refreshed(row.status, actions)] \in PlanRow
<1>1. Refreshed(row.status, actions) \in {row.status, "REJECTED", "APPROVED"}
  BY DEF Refreshed
<1> QED BY <1>1 DEF PlanRow

LEMMA AggregateTyped ==
    ASSUME NEW actions
    PROVE  Aggregate(actions) \in
             {"APPROVAL_REQUIRED", "FAILED", "REJECTED", "COMPLETED", "APPROVED"}
  BY DEF Aggregate

\* A session that starts holds a snapshot; one that ends holds nothing.
LEMMA RequestKeepsType ==
    ASSUME TypeInv, NEW r \in Requests, NEW q \in RequestState, SessionIsComplete(q),
           request' = [request EXCEPT ![r] = q]
    PROVE  /\ request' \in [Requests -> RequestState]
           /\ \A s \in Requests : SessionIsComplete(request'[s])
  BY DEF TypeInv, TypeOK

LEMMA BeginsKeepsType ==
    ASSUME TypeInv, NEW r \in Requests, Begins(r)
    PROVE  TypeInv'
<1>1. SUFFICES ASSUME NEW q \in RequestState, SessionIsComplete(q),
                      request' = [request EXCEPT ![r] = q], UNCHANGED rows
               PROVE  TypeInv'
  <2>1. CASE BeginPlanning(r)
    <3>1. CASE request' = [request EXCEPT ![r] = [Idle EXCEPT !.op = "plan"]]
      <4>1. [Idle EXCEPT !.op = "plan"] \in RequestState
        BY AbsentRowsTyped DEF RequestState
      <4>2. SessionIsComplete([Idle EXCEPT !.op = "plan"])
        BY DEF SessionIsComplete, Idle
      <4> QED BY <1>1, <2>1, <3>1, <4>1, <4>2 DEF BeginPlanning
    <3>2. ASSUME NEW p \in Plans, request' = [request EXCEPT ![r] =
                    [Idle EXCEPT !.op = "plan", !.plan = p, !.loaded = Snapshot(p)]]
          PROVE  TypeInv'
      <4> DEFINE q == [Idle EXCEPT !.op = "plan", !.plan = p, !.loaded = Snapshot(p)]
      <4>1. q \in RequestState
        BY AbsentRowsTyped, SnapshotTyped DEF RequestState, TypeInv
      <4>2. SessionIsComplete(q)
        BY DEF SessionIsComplete, Idle
      <4> QED BY <1>1, <2>1, <3>2, <4>1, <4>2 DEF BeginPlanning
    <3> QED BY <2>1, <3>1, <3>2 DEF BeginPlanning
  <2>2. ASSUME NEW p \in Plans, NEW i \in Orders, NEW decision \in Verdicts,
               BeginDecision(r, p, i, decision)
        PROVE  TypeInv'
    <3> DEFINE q == [Idle EXCEPT !.op = "decide", !.plan = p, !.order = i,
                                 !.decision = decision, !.loaded = Snapshot(p)]
    <3>1. q \in RequestState
      BY AbsentRowsTyped, SnapshotTyped DEF RequestState, TypeInv
    <3>2. SessionIsComplete(q)
      BY DEF SessionIsComplete, Idle
    <3> QED BY <1>1, <2>2, <3>1, <3>2 DEF BeginDecision
  <2>3. ASSUME NEW p \in Plans, NEW i \in Orders, NEW k \in Keys, BeginExecution(r, p, i, k)
        PROVE  TypeInv'
    <3> DEFINE q == [Idle EXCEPT !.op = "execute", !.plan = p, !.order = i, !.key = k,
                                 !.loaded = Snapshot(p)]
    <3>1. q \in RequestState
      BY AbsentRowsTyped, SnapshotTyped DEF RequestState, TypeInv
    <3>2. SessionIsComplete(q)
      BY DEF SessionIsComplete, Idle
    <3> QED BY <1>1, <2>3, <3>1, <3>2 DEF BeginExecution
  <2> QED BY <2>1, <2>2, <2>3 DEF Begins
<1>2. /\ request' \in [Requests -> RequestState]
      /\ \A s \in Requests : SessionIsComplete(request'[s])
  BY <1>1, RequestKeepsType
<1> QED BY <1>1, <1>2 DEF TypeInv, TypeOK, rows

\* The end of a session.
LEMMA IdleKeepsType ==
    ASSUME TypeInv, NEW r \in Requests, request' = [request EXCEPT ![r] = Idle]
    PROVE  /\ request' \in [Requests -> RequestState]
           /\ \A s \in Requests : SessionIsComplete(request'[s])
  BY AbsentRowsTyped, RequestKeepsType

LEMMA PersistPlanKeepsType ==
    ASSUME TypeInv, NEW r \in Requests, NEW p \in Plans, NEW n \in 0..MaxActions,
           PersistPlan(r, p, n)
    PROVE  TypeInv'
<1> DEFINE l == request[r].loaded.plan
           new == [keyed |-> TRUE, status |-> IF n = 0 THEN "NO_ACTION_RECOMMENDED"
                                              ELSE "APPROVAL_REQUIRED"]
           old == Superseded(l)
<1>1. new \in PlanRow
  BY DEF PlanRow
<1>2. l \in PlanRow /\ old \in PlanRow
  BY SessionTyped, SupersededTyped
<1>3. \A q \in Plans : Flush(plan[q], l, old) \in PlanRow
  BY <1>2, FlushPlanTyped DEF TypeInv, TypeOK
<1>4. plan' = [q \in Plans |-> CASE q = p -> new
                                 [] q = request[r].plan -> Flush(plan[q], l, old)
                                 [] OTHER -> plan[q]]
  BY DEF PersistPlan
<1> HIDE DEF new, old, l
<1>5. plan' \in [Plans -> PlanRow]
  BY <1>1, <1>3, <1>4 DEF TypeInv, TypeOK
<1>6. action' \in [Plans -> [Orders -> ActionStatus]]
  BY DEF PersistPlan, TypeInv, TypeOK, ActionStatus
<1> QED BY <1>5, <1>6, IdleKeepsType DEF PersistPlan, TypeInv, TypeOK

LEMMA DecideKeepsType ==
    ASSUME TypeInv, NEW r \in Requests, Decide(r)
    PROVE  TypeInv'
<1> DEFINE p == request[r].plan
           i == request[r].order
           l == request[r].loaded
           decision == request[r].decision
           new == [l.plan EXCEPT !.status =
                    Refreshed(l.plan.status, [l.action EXCEPT ![i] = decision])]
           row == Flush(plan[p], l.plan, new)
<1>1. p \in Plans /\ i \in Orders /\ decision \in Verdicts /\ l.plan \in PlanRow
  BY SessionTyped DEF Decide, SessionIsComplete
<1>2. new \in PlanRow
  BY <1>1, RefreshedTyped
<1>3. row \in PlanRow
  BY <1>1, <1>2, FlushPlanTyped DEF TypeInv, TypeOK
<1>4. /\ plan' = [plan EXCEPT ![p] = row]
      /\ action' = [action EXCEPT ![p][i] = decision]
      /\ approvals' = [approvals EXCEPT ![p][i] = @ \union {decision}]
      /\ \E d \in {decision, latest[p][i]} \ {None} : latest' = [latest EXCEPT ![p][i] = d]
  BY <1>1 DEF Decide, TypeInv, TypeOK
<1>5. latest[p][i] \in Verdicts \union {None}
  BY <1>1 DEF TypeInv, TypeOK
<1> HIDE DEF p, i, l, decision, new, row
<1>6. plan' \in [Plans -> PlanRow]
  BY <1>3, <1>4 DEF TypeInv, TypeOK
<1>7. action' \in [Plans -> [Orders -> ActionStatus]]
  BY <1>1, <1>4 DEF TypeInv, TypeOK, Verdicts, ActionStatus
<1>8. approvals' \in [Plans -> [Orders -> SUBSET Verdicts]]
  BY <1>1, <1>4 DEF TypeInv, TypeOK
<1>9. latest' \in [Plans -> [Orders -> Verdicts \union {None}]]
  BY <1>1, <1>4, <1>5 DEF TypeInv, TypeOK
<1> QED BY <1>6, <1>7, <1>8, <1>9, IdleKeepsType DEF Decide, TypeInv, TypeOK

LEMMA EndsKeepsType ==
    ASSUME TypeInv, NEW r \in Requests, NEW outcome \in {"SUCCEEDED", "FAILED"},
           Ends(r, outcome)
    PROVE  /\ executions' \in [Keys -> ExecutionRow]
           /\ UNCHANGED <<approvals, latest>>
           /\ request' \in [Requests -> RequestState]
           /\ \A s \in Requests : SessionIsComplete(request'[s])
<1> DEFINE x == [plan |-> request[r].plan, order |-> request[r].order, status |-> outcome]
<1>1. x \in ExecutionRow
  BY SessionTyped DEF Ends, SessionIsComplete, ExecutionRow
<1>2. executions' = [executions EXCEPT ![request[r].key] = x]
  BY DEF Ends
<1> HIDE DEF x
<1>3. executions' \in [Keys -> ExecutionRow]
  BY <1>1, <1>2 DEF TypeInv, TypeOK
<1> QED BY <1>3, IdleKeepsType DEF Ends

LEMMA SucceedOrFailKeepsType ==
    ASSUME TypeInv, NEW r \in Requests, Succeed(r) \/ Fail(r)
    PROVE  TypeInv'
<1> DEFINE p == request[r].plan
           i == request[r].order
<1>1. PICK outcome \in {"SUCCEEDED", "FAILED"} : Ends(r, outcome)
  BY DEF Succeed, Fail
<1>2. p \in Plans /\ i \in Orders
  BY <1>1, SessionTyped DEF Ends, SessionIsComplete
<1>3. PICK a \in {"COMPLETED", "FAILED"} : action' = [action EXCEPT ![p][i] = a]
  BY DEF Succeed, Fail
<1>4. PICK status \in {"APPROVAL_REQUIRED", "FAILED", "REJECTED", "COMPLETED", "APPROVED"} :
            plan' = [plan EXCEPT ![p].status = status]
  BY AggregateTyped DEF Succeed, Fail
<1>5. workflow' \subseteq workflow \union {<<p, i>>}
  BY DEF Succeed, Fail
<1> HIDE DEF p, i
<1>6. plan' \in [Plans -> PlanRow]
  BY <1>2, <1>4 DEF TypeInv, TypeOK, PlanRow
<1>7. action' \in [Plans -> [Orders -> ActionStatus]]
  BY <1>2, <1>3 DEF TypeInv, TypeOK, ActionStatus
<1>8. workflow' \subseteq Plans \X Orders
  BY <1>2, <1>5 DEF TypeInv, TypeOK
<1> QED BY <1>1, <1>6, <1>7, <1>8, EndsKeepsType DEF TypeInv, TypeOK

LEMMA InitTyped == Init => TypeInv
  BY AbsentRowsTyped DEF Init, TypeInv, TypeOK

LEMMA StepTyped == TypeInv /\ [Next]_vars => TypeInv'
<1> SUFFICES ASSUME TypeInv, [Next]_vars PROVE TypeInv'
  OBVIOUS
<1>1. ASSUME NEW r \in Requests, Begins(r) PROVE TypeInv'
  BY <1>1, BeginsKeepsType
<1>2. ASSUME NEW r \in Requests, Commits(r) PROVE TypeInv'
  BY <1>2, PersistPlanKeepsType, DecideKeepsType, SucceedOrFailKeepsType DEF Commits
<1>3. ASSUME NEW r \in Requests, RolledBack(r) PROVE TypeInv'
  BY <1>3, IdleKeepsType DEF RolledBack, rows, TypeInv, TypeOK
<1>4. CASE UNCHANGED vars
  BY <1>4 DEF vars, TypeInv, TypeOK
<1> QED BY <1>1, <1>2, <1>3, <1>4 DEF Next

\* Every row, and every row a session loaded, is well typed.
THEOREM TypeCorrect == Spec => []TypeOK
<1>1. TypeInv => TypeOK
  BY DEF TypeInv
<1> QED BY <1>1, InitTyped, StepTyped, PTL DEF Spec

-----------------------------------------------------------------------------
(* One workflow record per approved action.                                *)

Executing(r, p, i) ==
    request[r].op = "execute" /\ request[r].plan = p /\ request[r].order = i

\* The row lock: an action is executed by one session at a time.
LockIsExclusive ==
    \A r, s \in Requests, p \in Plans, i \in Orders :
        Executing(r, p, i) /\ Executing(s, p, i) => r = s

\* What an execution found under the lock is still true.
ExecutionIsCleared ==
    \A r \in Requests, p \in Plans, i \in Orders :
        Executing(r, p, i) =>
            Attempts(p, i, "SUCCEEDED") = {} /\ "APPROVED" \in approvals[p][i]

LatestIsLogged ==
    \A p \in Plans, i \in Orders :
        latest[p][i] = "APPROVED" => "APPROVED" \in approvals[p][i]

\* The record and the success are made in one commit.
RecordIsSuccess ==
    \A p \in Plans, i \in Orders :
        <<p, i>> \in workflow <=> Attempts(p, i, "SUCCEEDED") # {}

OneSuccess ==
    \A p \in Plans, i \in Orders : \A k, l \in Attempts(p, i, "SUCCEEDED") : k = l

GateInv ==
    /\ LockIsExclusive
    /\ ExecutionIsCleared
    /\ LatestIsLogged
    /\ RecordIsSuccess
    /\ OneSuccess

\* Rows that the invariant reads are left alone and no execution starts.
LEMMA QuietStepKeepsGate ==
    ASSUME GateInv, UNCHANGED <<approvals, latest, executions, workflow>>,
           \A r \in Requests : request'[r].op = "execute" => request'[r] = request[r]
    PROVE  GateInv'
<1>1. \A p \in Plans, i \in Orders : Attempts(p, i, "SUCCEEDED")' = Attempts(p, i, "SUCCEEDED")
  BY DEF Attempts
<1>2. \A r \in Requests, p \in Plans, i \in Orders :
            Executing(r, p, i)' => Executing(r, p, i)
  BY DEF Executing
<1>3. LockIsExclusive' /\ ExecutionIsCleared'
  BY <1>1, <1>2 DEF GateInv, LockIsExclusive, ExecutionIsCleared
<1>4. LatestIsLogged' /\ RecordIsSuccess' /\ OneSuccess'
  BY <1>1 DEF GateInv, LatestIsLogged, RecordIsSuccess, OneSuccess
<1> QED BY <1>3, <1>4 DEF GateInv

LEMMA BeginExecutionKeepsGate ==
    ASSUME TypeInv, GateInv, NEW r \in Requests, NEW p \in Plans, NEW i \in Orders,
           NEW k \in Keys, BeginExecution(r, p, i, k)
    PROVE  GateInv'
<1>1. /\ ~Locked(p, i) /\ MayExecute(p, i)
      /\ UNCHANGED <<approvals, latest, executions, workflow>>
  BY DEF BeginExecution, rows
<1>2. /\ request'[r].op = "execute" /\ request'[r].plan = p /\ request'[r].order = i
      /\ \A s \in Requests \ {r} : request'[s] = request[s]
  BY DEF BeginExecution, TypeInv, TypeOK, Idle
<1>3. \A q \in Plans, j \in Orders : Attempts(q, j, "SUCCEEDED")' = Attempts(q, j, "SUCCEEDED")
  BY <1>1 DEF Attempts
<1>4. ASSUME NEW s \in Requests, NEW q \in Plans, NEW j \in Orders, Executing(s, q, j)'
      PROVE  IF s = r THEN q = p /\ j = i ELSE Executing(s, q, j)
  BY <1>2, <1>4 DEF Executing
<1>5. LockIsExclusive'
  BY <1>1, <1>4 DEF GateInv, LockIsExclusive, Locked, Executing
<1>6. ExecutionIsCleared'
  BY <1>1, <1>3, <1>4 DEF GateInv, ExecutionIsCleared, LatestIsLogged, MayExecute
<1>7. LatestIsLogged' /\ RecordIsSuccess' /\ OneSuccess'
  BY <1>1, <1>3 DEF GateInv, LatestIsLogged, RecordIsSuccess, OneSuccess
<1> QED BY <1>5, <1>6, <1>7 DEF GateInv

LEMMA DecideKeepsGate ==
    ASSUME TypeInv, GateInv, NEW r \in Requests, Decide(r)
    PROVE  GateInv'
<1> DEFINE p == request[r].plan
           i == request[r].order
           decision == request[r].decision
<1>1. p \in Plans /\ i \in Orders
  BY SessionTyped DEF Decide, SessionIsComplete
<1>2. /\ approvals' = [approvals EXCEPT ![p][i] = @ \union {decision}]
      /\ \E d \in {decision, latest[p][i]} \ {None} : latest' = [latest EXCEPT ![p][i] = d]
      /\ request' = [request EXCEPT ![r] = Idle]
      /\ UNCHANGED <<executions, workflow>>
  BY DEF Decide
<1> HIDE DEF p, i, decision
<1>3. \A q \in Plans, j \in Orders :
            approvals'[q][j] = IF q = p /\ j = i THEN approvals[p][i] \union {decision}
                               ELSE approvals[q][j]
  BY <1>1, <1>2 DEF TypeInv, TypeOK
<1>4. PICK d \in {decision, latest[p][i]} : latest' = [latest EXCEPT ![p][i] = d]
  BY <1>2
<1>5. \A q \in Plans, j \in Orders :
            latest'[q][j] = IF q = p /\ j = i THEN d ELSE latest[q][j]
  BY <1>1, <1>4 DEF TypeInv, TypeOK
<1>6. LatestIsLogged'
  BY <1>1, <1>3, <1>4, <1>5 DEF GateInv, LatestIsLogged
<1>7. \A q \in Plans, j \in Orders : Attempts(q, j, "SUCCEEDED")' = Attempts(q, j, "SUCCEEDED")
  BY <1>2 DEF Attempts
<1>8. \A s \in Requests, q \in Plans, j \in Orders : Executing(s, q, j)' => Executing(s, q, j)
  BY <1>2, AbsentRowsTyped DEF Executing, TypeInv, TypeOK
<1>9. LockIsExclusive' /\ ExecutionIsCleared'
  BY <1>3, <1>7, <1>8 DEF GateInv, LockIsExclusive, ExecutionIsCleared
<1>10. RecordIsSuccess' /\ OneSuccess'
  BY <1>2, <1>7 DEF GateInv, RecordIsSuccess, OneSuccess
<1> QED BY <1>6, <1>9, <1>10 DEF GateInv

\* The end of an execution adds one attempt, with a key that had none.
LEMMA EndsAddsAttempt ==
    ASSUME TypeInv, NEW r \in Requests, NEW outcome \in {"SUCCEEDED", "FAILED"},
           Ends(r, outcome)
    PROVE  /\ request[r].plan \in Plans /\ request[r].order \in Orders
           /\ Executing(r, request[r].plan, request[r].order)
           /\ \A s \in Requests, q \in Plans, j \in Orders :
                    Executing(s, q, j)' => s # r /\ Executing(s, q, j)
           /\ \A q \in Plans, j \in Orders :
                    Attempts(q, j, "SUCCEEDED")' =
                        IF Executing(r, q, j) /\ outcome = "SUCCEEDED"
                        THEN Attempts(q, j, "SUCCEEDED") \union {request[r].key}
                        ELSE Attempts(q, j, "SUCCEEDED")
           /\ UNCHANGED <<approvals, latest>>
<1> DEFINE k == request[r].key
           x == [plan |-> request[r].plan, order |-> request[r].order, status |-> outcome]
<1>1. /\ request[r].plan \in Plans /\ request[r].order \in Orders /\ k \in Keys
      /\ request[r].op = "execute"
  BY SessionTyped DEF Ends, SessionIsComplete
<1>2. /\ executions[k] = NoExecution /\ executions' = [executions EXCEPT ![k] = x]
      /\ request' = [request EXCEPT ![r] = Idle]
  BY DEF Ends
<1>3. \A s \in Requests : request'[s] = IF s = r THEN Idle ELSE request[s]
  BY <1>2 DEF TypeInv, TypeOK
<1>4. \A s \in Requests, q \in Plans, j \in Orders :
            Executing(s, q, j)' => s # r /\ Executing(s, q, j)
  BY <1>3, AbsentRowsTyped DEF Executing
<1>5. \A l \in Keys : executions'[l] = IF l = k THEN x ELSE executions[l]
  BY <1>2 DEF TypeInv, TypeOK
<1>6. ASSUME NEW q \in Plans, NEW j \in Orders
      PROVE  Attempts(q, j, "SUCCEEDED")' =
                IF Executing(r, q, j) /\ outcome = "SUCCEEDED"
                THEN Attempts(q, j, "SUCCEEDED") \union {k}
                ELSE Attempts(q, j, "SUCCEEDED")
  <2>1. NoExecution # [plan |-> q, order |-> j, status |-> "SUCCEEDED"]
    BY DEF NoExecution
  <2>2. x = [plan |-> q, order |-> j, status |-> "SUCCEEDED"]
            <=> Executing(r, q, j) /\ outcome = "SUCCEEDED"
    BY <1>1 DEF Executing
  <2> HIDE DEF x, k
  <2> QED BY <1>1, <1>2, <1>5, <2>1, <2>2 DEF Attempts
<1>7. UNCHANGED <<approvals, latest>>
  BY DEF Ends
<1> QED BY <1>1, <1>4, <1>6, <1>7 DEF Executing

LEMMA SucceedKeepsGate ==
    ASSUME TypeInv, GateInv, NEW r \in Requests, Succeed(r)
    PROVE  GateInv'
<1> DEFINE p == request[r].plan
           i == request[r].order
<1>1. Ends(r, "SUCCEEDED") /\ workflow' = workflow \union {<<p, i>>}
  BY DEF Succeed
<1>2. \A q \in Plans, j \in Orders : Executing(r, q, j) <=> q = p /\ j = i
  BY <1>1, EndsAddsAttempt DEF Executing
<1>3. /\ p \in Plans /\ i \in Orders /\ Executing(r, p, i)
      /\ \A s \in Requests, q \in Plans, j \in Orders :
               Executing(s, q, j)' => s # r /\ Executing(s, q, j)
      /\ \A q \in Plans, j \in Orders :
               Attempts(q, j, "SUCCEEDED")' =
                   IF q = p /\ j = i THEN Attempts(q, j, "SUCCEEDED") \union {request[r].key}
                   ELSE Attempts(q, j, "SUCCEEDED")
      /\ UNCHANGED <<approvals, latest>>
  BY <1>1, <1>2, EndsAddsAttempt
<1>4. Attempts(p, i, "SUCCEEDED") = {}
  BY <1>3 DEF GateInv, ExecutionIsCleared
<1> HIDE DEF p, i
<1>5. LockIsExclusive' /\ LatestIsLogged'
  BY <1>3 DEF GateInv, LockIsExclusive, LatestIsLogged
<1>6. ExecutionIsCleared'
  <2> SUFFICES ASSUME NEW s \in Requests, NEW q \in Plans, NEW j \in Orders, Executing(s, q, j)'
               PROVE  Attempts(q, j, "SUCCEEDED")' = {} /\ "APPROVED" \in approvals'[q][j]
    BY DEF ExecutionIsCleared
  <2>1. s # r /\ Executing(s, q, j)
    BY <1>3
  <2>2. ~(q = p /\ j = i)
    BY <1>3, <2>1 DEF GateInv, LockIsExclusive
  <2> QED BY <1>3, <2>1, <2>2 DEF GateInv, ExecutionIsCleared
<1>7. RecordIsSuccess'
  <2> SUFFICES ASSUME NEW q \in Plans, NEW j \in Orders
               PROVE  <<q, j>> \in workflow' <=> Attempts(q, j, "SUCCEEDED")' # {}
    BY DEF RecordIsSuccess
  <2>1. <<q, j>> \in workflow' <=> <<q, j>> \in workflow \/ (q = p /\ j = i)
    BY <1>1 DEF p, i
  <2> QED BY <1>3, <2>1 DEF GateInv, RecordIsSuccess
<1>8. OneSuccess'
  BY <1>3, <1>4 DEF GateInv, OneSuccess
<1> QED BY <1>5, <1>6, <1>7, <1>8 DEF GateInv

LEMMA FailKeepsGate ==
    ASSUME TypeInv, GateInv, NEW r \in Requests, Fail(r)
    PROVE  GateInv'
<1>1. Ends(r, "FAILED") /\ UNCHANGED workflow
  BY DEF Fail
<1>2. /\ \A s \in Requests, q \in Plans, j \in Orders :
               Executing(s, q, j)' => Executing(s, q, j)
      /\ \A q \in Plans, j \in Orders :
               Attempts(q, j, "SUCCEEDED")' = Attempts(q, j, "SUCCEEDED")
      /\ UNCHANGED <<approvals, latest, workflow>>
  BY <1>1, EndsAddsAttempt
<1>3. LockIsExclusive' /\ ExecutionIsCleared'
  BY <1>2 DEF GateInv, LockIsExclusive, ExecutionIsCleared
<1>4. LatestIsLogged' /\ RecordIsSuccess' /\ OneSuccess'
  BY <1>2 DEF GateInv, LatestIsLogged, RecordIsSuccess, OneSuccess
<1> QED BY <1>3, <1>4 DEF GateInv

\* What neither decides nor executes: planning, the start of a decision, and
\* the rollback of any session.
OtherStep ==
    \/ \E r \in Requests :
        \/ BeginPlanning(r) \/ RolledBack(r)
        \/ \E p \in Plans, n \in 0..MaxActions : PersistPlan(r, p, n)
        \/ \E p \in Plans, i \in Orders, decision \in Verdicts :
                BeginDecision(r, p, i, decision)
    \/ UNCHANGED vars

LEMMA StepCases ==
    [Next]_vars =>
        \/ OtherStep
        \/ \E r \in Requests :
            \/ \E p \in Plans, i \in Orders, k \in Keys : BeginExecution(r, p, i, k)
            \/ Decide(r) \/ Succeed(r) \/ Fail(r)
<1> SUFFICES ASSUME NEW r \in Requests, Begins(r)
             PROVE  \/ OtherStep
                    \/ \E p \in Plans, i \in Orders, k \in Keys : BeginExecution(r, p, i, k)
  BY DEF Next, Commits, OtherStep
<1> QED BY DEF Begins, OtherStep

LEMMA OtherStepIsQuiet ==
    ASSUME TypeInv, OtherStep
    PROVE  /\ UNCHANGED <<approvals, latest, executions, workflow>>
           /\ \A s \in Requests : request'[s].op = "execute" => request'[s] = request[s]
<1>1. ASSUME NEW r \in Requests, NEW q, q.op # "execute",
             request' = [request EXCEPT ![r] = q]
      PROVE  \A s \in Requests : request'[s].op = "execute" => request'[s] = request[s]
  BY <1>1 DEF TypeInv, TypeOK
<1>2. ASSUME NEW r \in Requests, BeginPlanning(r)
      PROVE  \E q : q.op # "execute" /\ request' = [request EXCEPT ![r] = q]
  <2>1. CASE request' = [request EXCEPT ![r] = [Idle EXCEPT !.op = "plan"]]
    <3>1. [Idle EXCEPT !.op = "plan"].op # "execute"
      BY DEF Idle
    <3> QED BY <2>1, <3>1
  <2>2. ASSUME NEW p \in Plans, request' = [request EXCEPT ![r] =
                    [Idle EXCEPT !.op = "plan", !.plan = p, !.loaded = Snapshot(p)]]
        PROVE  \E q : q.op # "execute" /\ request' = [request EXCEPT ![r] = q]
    <3>1. [Idle EXCEPT !.op = "plan", !.plan = p, !.loaded = Snapshot(p)].op # "execute"
      BY DEF Idle
    <3> QED BY <2>2, <3>1
  <2> QED BY <1>2, <2>1, <2>2 DEF BeginPlanning
<1>3. ASSUME NEW r \in Requests, NEW p \in Plans, NEW i \in Orders, NEW decision \in Verdicts,
             BeginDecision(r, p, i, decision)
      PROVE  \E q : q.op # "execute" /\ request' = [request EXCEPT ![r] = q]
  <2>1. [Idle EXCEPT !.op = "decide", !.plan = p, !.order = i,
                     !.decision = decision, !.loaded = Snapshot(p)].op # "execute"
    BY DEF Idle
  <2> QED BY <1>3, <2>1 DEF BeginDecision
<1>4. ASSUME NEW r \in Requests, request' = [request EXCEPT ![r] = Idle]
      PROVE  \E q : q.op # "execute" /\ request' = [request EXCEPT ![r] = q]
  BY <1>4, AbsentRowsTyped
<1>5. \A s \in Requests : request'[s].op = "execute" => request'[s] = request[s]
  <2>1. CASE UNCHANGED vars
    BY <2>1 DEF vars
  <2>2. CASE ~ UNCHANGED vars
    <3>1. PICK r \in Requests :
            \/ BeginPlanning(r) \/ RolledBack(r)
            \/ \E p \in Plans, n \in 0..MaxActions : PersistPlan(r, p, n)
            \/ \E p \in Plans, i \in Orders, decision \in Verdicts :
                    BeginDecision(r, p, i, decision)
      BY <2>2 DEF OtherStep
    <3>2. \E q : q.op # "execute" /\ request' = [request EXCEPT ![r] = q]
      BY <1>2, <1>3, <1>4, <3>1 DEF PersistPlan, RolledBack
    <3> QED BY <1>1, <3>2
  <2> QED BY <2>1, <2>2
<1>6. UNCHANGED <<approvals, latest, executions, workflow>>
  BY DEF OtherStep, BeginPlanning, BeginDecision, PersistPlan, RolledBack, rows, vars
<1> QED BY <1>5, <1>6

LEMMA InitGate == Init => GateInv
<1> SUFFICES ASSUME Init PROVE GateInv
  OBVIOUS
<1>1. \A p \in Plans, i \in Orders : Attempts(p, i, "SUCCEEDED") = {}
  BY DEF Init, Attempts, NoExecution
<1>2. \A r \in Requests, p \in Plans, i \in Orders : ~Executing(r, p, i)
  BY AbsentRowsTyped DEF Init, Executing
<1>3. \A p \in Plans, i \in Orders : latest[p][i] = None /\ <<p, i>> \notin workflow
  BY DEF Init
<1> QED BY <1>1, <1>2, <1>3, ResolutionAssumption
      DEF GateInv, LockIsExclusive, ExecutionIsCleared, LatestIsLogged, RecordIsSuccess,
          OneSuccess

LEMMA StepGate == TypeInv /\ GateInv /\ [Next]_vars => GateInv'
  BY StepCases, OtherStepIsQuiet, QuietStepKeepsGate, BeginExecutionKeepsGate,
     DecideKeepsGate, SucceedKeepsGate, FailKeepsGate

LEMMA GateInvariant == Spec => []GateInv
  BY InitTyped, StepTyped, InitGate, StepGate, PTL DEF Spec

\* "Concurrent same key: one successful workflow row", "Different key after
\* success: reject": an action has one successful execution when its workflow
\* record exists, and none before, whatever sessions and keys compete for it.
THEOREM OneSuccessPerRecord == Spec => []ExecutedOnce
<1>1. ASSUME GateInv, NEW p \in Plans, NEW i \in Orders
      PROVE  Cardinality(Attempts(p, i, "SUCCEEDED")) = IF <<p, i>> \in workflow THEN 1 ELSE 0
  <2> DEFINE S == Attempts(p, i, "SUCCEEDED")
  <2>1. CASE <<p, i>> \in workflow
    <3>1. S # {} /\ \A k, l \in S : k = l
      BY <1>1, <2>1 DEF GateInv, RecordIsSuccess, OneSuccess
    <3> HIDE DEF S
    <3>2. PICK k \in S : TRUE
      BY <3>1
    <3>3. S = {k}
      BY <3>1, <3>2
    <3>4. Cardinality({k}) = 1
      BY FS_Singleton
    <3> QED BY <2>1, <3>3, <3>4 DEF S
  <2>2. CASE <<p, i>> \notin workflow
    <3>1. S = {}
      BY <1>1, <2>2 DEF GateInv, RecordIsSuccess
    <3> QED BY <2>2, <3>1, FS_EmptySet
  <2> QED BY <2>1, <2>2
<1>2. GateInv => ExecutedOnce
  BY <1>1 DEF ExecutedOnce
<1> QED BY <1>2, GateInvariant, PTL

\* An approval authorises, a success performs, the rest is a stutter.
LEMMA StepSimulates ==
    TypeInv /\ GateInv /\ [Next]_vars => [Gate!GateNext]_(Gate!gateVars)
<1> SUFFICES ASSUME TypeInv, GateInv, [Next]_vars
             PROVE  Gate!GateNext \/ UNCHANGED Gate!gateVars
  OBVIOUS
<1>1. ASSUME UNCHANGED <<approvals, workflow>> PROVE UNCHANGED Gate!gateVars
  BY <1>1 DEF Gate!gateVars, Authorized
<1>2. ASSUME NEW r \in Requests, Decide(r) PROVE Gate!GateNext \/ UNCHANGED Gate!gateVars
  <2> DEFINE p == request[r].plan
             i == request[r].order
             decision == request[r].decision
  <2>1. /\ p \in Plans /\ i \in Orders
        /\ approvals' = [approvals EXCEPT ![p][i] = @ \union {decision}]
        /\ UNCHANGED workflow
    BY <1>2, SessionTyped DEF Decide, SessionIsComplete
  <2> HIDE DEF p, i, decision
  <2>2. \A q \in Plans, j \in Orders :
            approvals'[q][j] = IF q = p /\ j = i THEN approvals[p][i] \union {decision}
                               ELSE approvals[q][j]
    BY <2>1 DEF TypeInv, TypeOK
  <2>3. CASE decision = "APPROVED"
    <3>1. Authorized' = Authorized \union {<<p, i>>}
      BY <2>1, <2>2, <2>3 DEF Authorized
    <3> QED BY <2>1, <3>1 DEF Gate!GateNext, Gate!Authorize
  <2>4. CASE decision # "APPROVED"
    <3>1. Authorized' = Authorized
      BY <2>1, <2>2, <2>4 DEF Authorized
    <3> QED BY <2>1, <3>1 DEF Gate!gateVars
  <2> QED BY <2>3, <2>4
<1>3. ASSUME NEW r \in Requests, Succeed(r) PROVE Gate!GateNext
  <2> DEFINE a == <<request[r].plan, request[r].order>>
  <2>1. Ends(r, "SUCCEEDED") /\ workflow' = workflow \union {a}
    BY <1>3 DEF Succeed
  <2>2. /\ request[r].plan \in Plans /\ request[r].order \in Orders
        /\ Executing(r, request[r].plan, request[r].order)
        /\ UNCHANGED approvals
    BY <2>1, EndsAddsAttempt
  <2>3. a \notin workflow /\ a \in Authorized /\ Authorized' = Authorized
    BY <2>2 DEF GateInv, ExecutionIsCleared, RecordIsSuccess, Authorized
  <2> HIDE DEF a
  <2>4. Gate!Perform(a)
    BY <2>1, <2>3 DEF Gate!Perform
  <2> QED BY <2>3, <2>4 DEF Gate!GateNext
<1>4. ASSUME NEW r \in Requests, Fail(r) PROVE UNCHANGED Gate!gateVars
  BY <1>1, <1>4 DEF Fail, Ends
<1>5. ASSUME NEW r \in Requests, NEW p \in Plans, NEW i \in Orders, NEW k \in Keys,
             BeginExecution(r, p, i, k)
      PROVE  UNCHANGED Gate!gateVars
  BY <1>1, <1>5 DEF BeginExecution, rows
<1>6. CASE OtherStep
  BY <1>1, <1>6, OtherStepIsQuiet
<1> QED BY <1>2, <1>3, <1>4, <1>5, <1>6, StepCases

\* "only an authorized human decision unlocks execution": planning, decisions
\* and executions, however they interleave, create the workflow record of an
\* action once, after an approval, and never take it back.
THEOREM ImplementsApprovalGate == Spec => KeepsApprovalGate
<1>1. Init => Gate!GateInit
  BY DEF Init, Gate!GateInit, Authorized
<1> QED BY <1>1, InitTyped, StepTyped, InitGate, StepGate, StepSimulates, PTL
      DEF Spec, KeepsApprovalGate, Gate!GateSpec

-----------------------------------------------------------------------------
(* What the statuses may still be trusted for.  Concurrent sessions        *)
(* overwrite the statuses of plans and actions, so none of them says that  *)
(* an action is rejected or executed now.  But the log and the workflow    *)
(* records only grow: a status that was once settled left its mark there,  *)
(* and so did every status a session loaded.                               *)

SettledIsDisposed ==
    \A p \in Plans, i \in Orders : action[p][i] \in Settled => Disposed(p, i)

\* A plan that is not made has no actions.
AbsentIsEmpty ==
    \A p \in Plans : plan[p].status = "ABSENT" => \A i \in Orders : action[p][i] = "ABSENT"

\* The key of the exception is carried by a plan that is made.
KeyedIsMade == \A p \in Plans : plan[p].keyed => plan[p].status # "ABSENT"

\* What session q loaded and found admissible, as far as it is still true.
IsBacked(q) ==
    /\ q.plan # None =>
        /\ plan[q.plan].status # "ABSENT"
        /\ \A i \in Orders :
            /\ q.loaded.action[i] \in Settled => Disposed(q.plan, i)
            /\ q.loaded.action[i] = "ABSENT" <=> action[q.plan][i] = "ABSENT"
    /\ q.op = "decide" => q.loaded.action[q.order] = "PENDING"
    /\ q.op = "execute" =>
        /\ action[q.plan][q.order] \in {"APPROVED", "FAILED"}
        /\ \A j \in 1..q.order-1 : Disposed(q.plan, j)

SessionsAreBacked == \A r \in Requests : IsBacked(request[r])

DisposalInv ==
    /\ SettledIsDisposed /\ AbsentIsEmpty /\ KeyedIsMade
    /\ SessionsAreBacked
    /\ PartialIsNotCompleted /\ ExecutedInOrder

\* No action leaves a settled status but by a decision that loaded it pending.
OpenedByStale ==
    \A p \in Plans, i \in Orders :
        action[p][i] \in Settled /\ action'[p][i] # action[p][i]
            => \E r \in Requests : DecidesStale(r, p, i) /\ action'[p][i] = request[r].decision

LEMMA SameRowsDisposal ==
    ASSUME DisposalInv, UNCHANGED rows, \A r \in Requests : IsBacked(request'[r])
    PROVE  DisposalInv' /\ OpenedByStale
<1>1. \A p \in Plans, i \in Orders : Disposed(p, i)' <=> Disposed(p, i)
  BY DEF rows, Disposed
<1>2. /\ SettledIsDisposed' /\ AbsentIsEmpty' /\ KeyedIsMade'
      /\ PartialIsNotCompleted' /\ ExecutedInOrder'
  BY DEF DisposalInv, rows, SettledIsDisposed, AbsentIsEmpty, KeyedIsMade, PartialIsNotCompleted,
         ExecutedInOrder, Disposed, Attempts
<1>3. ASSUME NEW q, IsBacked(q) PROVE IsBacked(q)'
  BY <1>3 DEF IsBacked, rows, Disposed
<1>4. SessionsAreBacked'
  BY <1>3 DEF SessionsAreBacked
<1>5. OpenedByStale
  BY DEF OpenedByStale, rows
<1> QED BY <1>2, <1>4, <1>5 DEF DisposalInv

\* What a session loads is backed by what is there.
LEMMA SnapshotIsBacked ==
    ASSUME DisposalInv, NEW p \in Plans, NEW q, q.loaded = Snapshot(p), q.plan = p,
           plan[p].status # "ABSENT",
           q.op = "decide" => action[p][q.order] = "PENDING",
           q.op = "execute" => q.order \in Orders /\ MayExecute(p, q.order)
    PROVE  IsBacked(q)
<1>1. q.loaded.action = action[p]
  BY DEF Snapshot
<1>2. ASSUME q.op = "execute", NEW j \in 1..q.order-1 PROVE Disposed(p, j)
  <2>1. j \in Orders
    BY <1>2, ResolutionAssumption DEF Orders
  <2>2. action[p][j] \in Settled
    BY <1>2 DEF MayExecute
  <2> QED BY <2>1, <2>2 DEF DisposalInv, SettledIsDisposed
<1>3. q.op = "execute" => action[p][q.order] \in {"APPROVED", "FAILED"}
  BY DEF MayExecute
<1> QED BY <1>1, <1>2, <1>3 DEF IsBacked, DisposalInv, SettledIsDisposed

LEMMA BeginKeepsDisposal ==
    ASSUME TypeInv, DisposalInv, NEW r \in Requests, Begins(r)
    PROVE  DisposalInv' /\ OpenedByStale
<1>1. ASSUME NEW q, request' = [request EXCEPT ![r] = q], IsBacked(q), UNCHANGED rows
      PROVE  DisposalInv' /\ OpenedByStale
  <2>1. \A s \in Requests : request'[s] = IF s = r THEN q ELSE request[s]
    BY <1>1 DEF TypeInv, TypeOK
  <2>2. \A s \in Requests : IsBacked(request'[s])
    BY <1>1, <2>1 DEF DisposalInv, SessionsAreBacked
  <2> QED BY <1>1, <2>2, SameRowsDisposal
<1>2. ASSUME NEW p \in Plans, NEW i \in Orders, action[p][i] # "ABSENT"
      PROVE  plan[p].status # "ABSENT"
  BY <1>2 DEF DisposalInv, AbsentIsEmpty
<1>3. CASE BeginPlanning(r)
  <2>1. CASE request' = [request EXCEPT ![r] = [Idle EXCEPT !.op = "plan"]]
    <3>1. IsBacked([Idle EXCEPT !.op = "plan"])
      BY DEF IsBacked, Idle
    <3> QED BY <1>1, <1>3, <2>1, <3>1 DEF BeginPlanning
  <2>2. ASSUME NEW p \in Plans, plan[p].keyed, request' = [request EXCEPT ![r] =
                    [Idle EXCEPT !.op = "plan", !.plan = p, !.loaded = Snapshot(p)]]
        PROVE  DisposalInv' /\ OpenedByStale
    <3> DEFINE q == [Idle EXCEPT !.op = "plan", !.plan = p, !.loaded = Snapshot(p)]
    <3>1. q.loaded = Snapshot(p) /\ q.plan = p /\ q.op = "plan"
      BY DEF Idle
    <3>2. plan[p].status # "ABSENT"
      BY <2>2 DEF DisposalInv, KeyedIsMade
    <3> HIDE DEF q
    <3>3. IsBacked(q)
      BY <3>1, <3>2, SnapshotIsBacked
    <3> QED BY <1>1, <1>3, <2>2, <3>3 DEF BeginPlanning, q
  <2> QED BY <1>3, <2>1, <2>2 DEF BeginPlanning
<1>4. ASSUME NEW p \in Plans, NEW i \in Orders, NEW decision \in Verdicts,
             BeginDecision(r, p, i, decision)
      PROVE  DisposalInv' /\ OpenedByStale
  <2> DEFINE q == [Idle EXCEPT !.op = "decide", !.plan = p, !.order = i,
                               !.decision = decision, !.loaded = Snapshot(p)]
  <2>1. q.loaded = Snapshot(p) /\ q.plan = p /\ q.op = "decide" /\ q.order = i
    BY DEF Idle
  <2>2. request' = [request EXCEPT ![r] = q] /\ UNCHANGED rows /\ action[p][i] = "PENDING"
    BY <1>4 DEF BeginDecision, MayDecide
  <2> HIDE DEF q
  <2>3. IsBacked(q)
    BY <1>2, <2>1, <2>2, SnapshotIsBacked
  <2> QED BY <1>1, <2>2, <2>3
<1>5. ASSUME NEW p \in Plans, NEW i \in Orders, NEW k \in Keys, BeginExecution(r, p, i, k)
      PROVE  DisposalInv' /\ OpenedByStale
  <2> DEFINE q == [Idle EXCEPT !.op = "execute", !.plan = p, !.order = i, !.key = k,
                               !.loaded = Snapshot(p)]
  <2>1. q.loaded = Snapshot(p) /\ q.plan = p /\ q.op = "execute" /\ q.order = i
    BY DEF Idle
  <2>2. request' = [request EXCEPT ![r] = q] /\ UNCHANGED rows /\ MayExecute(p, i)
    BY <1>5 DEF BeginExecution
  <2>3. action[p][i] # "ABSENT"
    BY <2>2 DEF MayExecute
  <2> HIDE DEF q
  <2>4. IsBacked(q)
    BY <1>2, <2>1, <2>2, <2>3, SnapshotIsBacked
  <2> QED BY <1>1, <2>2, <2>4
<1> QED BY <1>3, <1>4, <1>5 DEF Begins

\* One action of a made plan changes, and its plan with it.
LEMMA OneActionKeepsDisposal ==
    ASSUME TypeInv, DisposalInv, NEW r \in Requests, NEW p \in Plans, NEW i \in Orders,
           request' = [request EXCEPT ![r] = Idle],
           \A q \in Plans, j \in Orders : Disposed(q, j) => Disposed(q, j)',
           \A q \in Plans, j \in Orders : ~ (q = p /\ j = i) => action'[q][j] = action[q][j],
           action[p][i] # "ABSENT", action'[p][i] # "ABSENT",
           action'[p][i] \in Settled => Disposed(p, i)',
           \A q \in Plans \ {p} : plan'[q] = plan[q],
           plan'[p].status # "ABSENT",
           plan'[p].status = "COMPLETED" =>
                \/ plan[p].status = "COMPLETED"
                \/ \A j \in Orders : action[p][j] # "ABSENT" => Disposed(p, j)',
           \A q \in Plans, j \in Orders : Attempts(q, j, "SUCCEEDED")' # {} =>
                \/ Attempts(q, j, "SUCCEEDED") # {}
                \/ q = p /\ j = i /\ \A h \in 1..i-1 : Disposed(p, h),
           \A s \in Requests \ {r} : ~ Executing(s, p, i),
           \A q \in Plans : plan'[q].keyed => plan[q].keyed
    PROVE  DisposalInv'
<1>1. SettledIsDisposed'
  BY DEF DisposalInv, SettledIsDisposed
<1>2. AbsentIsEmpty'
  BY DEF DisposalInv, AbsentIsEmpty
<1>3. PartialIsNotCompleted'
  BY DEF DisposalInv, PartialIsNotCompleted
<1>4. ExecutedInOrder'
  <2> SUFFICES ASSUME NEW q \in Plans, NEW j \in Orders, Attempts(q, j, "SUCCEEDED")' # {},
                      NEW h \in 1..j-1
               PROVE  Disposed(q, h)'
    BY DEF ExecutedInOrder, Disposed
  <2>1. h \in Orders
    BY ResolutionAssumption DEF Orders
  <2>2. Disposed(q, h)
    BY DEF DisposalInv, ExecutedInOrder
  <2> QED BY <2>1, <2>2
<1>5. SessionsAreBacked'
  <2> SUFFICES ASSUME NEW s \in Requests PROVE IsBacked(request[s])'
    BY DEF SessionsAreBacked
  <2>1. CASE s = r
    <3>1. request'[s] = Idle
      BY <2>1 DEF TypeInv, TypeOK
    <3> QED BY <3>1 DEF IsBacked, Idle
  <2>2. CASE s # r
    <3>1. PICK q : q = request[s] /\ request'[s] = q
      BY <2>2 DEF TypeInv, TypeOK
    <3>2. IsBacked(q) /\ q \in RequestState /\ SessionIsComplete(q)
      BY <3>1 DEF DisposalInv, SessionsAreBacked, TypeInv, TypeOK
    <3>3. ASSUME q.plan # None
          PROVE  /\ plan'[q.plan].status # "ABSENT"
                 /\ \A j \in Orders :
                      /\ q.loaded.action[j] \in Settled => Disposed(q.plan, j)'
                      /\ q.loaded.action[j] = "ABSENT" <=> action'[q.plan][j] = "ABSENT"
      <4>1. q.plan \in Plans
        BY <3>2, <3>3 DEF RequestState
      <4> QED BY <3>2, <3>3, <4>1 DEF IsBacked
    <3>4. q.op = "decide" => q.loaded.action[q.order] = "PENDING"
      BY <3>2 DEF IsBacked
    <3>5. ASSUME q.op = "execute"
          PROVE  /\ action'[q.plan][q.order] \in {"APPROVED", "FAILED"}
                 /\ \A j \in 1..q.order-1 : Disposed(q.plan, j)'
      <4>1. q.plan \in Plans /\ q.order \in Orders /\ ~ (q.plan = p /\ q.order = i)
        BY <2>2, <3>1, <3>2, <3>5 DEF SessionIsComplete, Executing
      <4>2. \A j \in 1..q.order-1 : j \in Orders
        BY <4>1, ResolutionAssumption DEF Orders
      <4> QED BY <3>2, <3>5, <4>1, <4>2 DEF IsBacked
    <3> QED BY <3>1, <3>3, <3>4, <3>5 DEF IsBacked
  <2> QED BY <2>1, <2>2
<1>6. KeyedIsMade'
  BY DEF DisposalInv, KeyedIsMade
<1> QED BY <1>1, <1>2, <1>3, <1>4, <1>5, <1>6 DEF DisposalInv

LEMMA DecideKeepsDisposal ==
    ASSUME TypeInv, DisposalInv, NEW r \in Requests, Decide(r)
    PROVE  DisposalInv' /\ OpenedByStale
<1>0. PICK p, i, l, decision : /\ p = request[r].plan /\ i = request[r].order
                               /\ l = request[r].loaded /\ decision = request[r].decision
  OBVIOUS
<1>1. p \in Plans /\ i \in Orders /\ decision \in Verdicts /\ l.plan \in PlanRow
  BY <1>0, SessionTyped DEF Decide, SessionIsComplete
<1>2. /\ plan[p].status # "ABSENT" /\ l.action[i] = "PENDING"
      /\ l.action[i] = "ABSENT" <=> action[p][i] = "ABSENT"
  BY <1>0, <1>1, ResolutionAssumption DEF Decide, DisposalInv, SessionsAreBacked, IsBacked
<1>3. PICK status : /\ status \in {l.plan.status, "REJECTED", "APPROVED"}
                    /\ plan' = [plan EXCEPT ![p] =
                            Flush(plan[p], l.plan, [l.plan EXCEPT !.status = status])]
  <2> DEFINE status == Refreshed(l.plan.status, [l.action EXCEPT ![i] = decision])
  <2>1. status \in {l.plan.status, "REJECTED", "APPROVED"}
    BY DEF Refreshed
  <2>2. plan' = [plan EXCEPT ![p] = Flush(plan[p], l.plan, [l.plan EXCEPT !.status = status])]
    BY <1>0, <1>1 DEF Decide, TypeInv, TypeOK
  <2> QED BY <2>1, <2>2
<1>4. /\ plan'[p].status \in {plan[p].status, "REJECTED", "APPROVED"}
      /\ plan'[p].keyed = plan[p].keyed
      /\ \A q \in Plans \ {p} : plan'[q] = plan[q]
  BY <1>1, <1>3 DEF TypeInv, TypeOK, PlanRow, Flush
<1>5. /\ \A q \in Plans, j \in Orders : ~ (q = p /\ j = i) => action'[q][j] = action[q][j]
      /\ action'[p][i] = decision
      /\ approvals' = [approvals EXCEPT ![p][i] = @ \union {decision}]
      /\ request' = [request EXCEPT ![r] = Idle]
      /\ ~ Locked(p, i)
      /\ UNCHANGED <<executions, workflow>>
  BY <1>0, <1>1 DEF Decide, TypeInv, TypeOK
<1>6. \A q \in Plans, j \in Orders :
            approvals'[q][j] = IF q = p /\ j = i THEN approvals[p][i] \union {decision}
                               ELSE approvals[q][j]
  BY <1>1, <1>5 DEF TypeInv, TypeOK
<1>7. \A q \in Plans, j \in Orders : Disposed(q, j) => Disposed(q, j)'
  BY <1>5, <1>6 DEF Disposed
<1>8. decision # "ABSENT" /\ (decision \in Settled => Disposed(p, i)')
  BY <1>1, <1>6 DEF Verdicts, Settled, Disposed
<1>9. \A q \in Plans, j \in Orders : Attempts(q, j, "SUCCEEDED")' = Attempts(q, j, "SUCCEEDED")
  BY <1>5 DEF Attempts
<1>10. \A s \in Requests : ~ Executing(s, p, i)
  BY <1>5 DEF Locked, Executing
<1>11. action[p][i] # "ABSENT" /\ action'[p][i] # "ABSENT"
  BY <1>2, <1>5, <1>8
<1>12. DisposalInv'
  <2>1. plan'[p].status # "ABSENT" /\ (plan'[p].status = "COMPLETED" => plan[p].status = "COMPLETED")
    BY <1>2, <1>4
  <2>2. \A q \in Plans : plan'[q].keyed => plan[q].keyed
    BY <1>4
  <2>3. action'[p][i] \in Settled => Disposed(p, i)'
    BY <1>5, <1>8
  <2>4. \A q \in Plans, j \in Orders : Attempts(q, j, "SUCCEEDED")' # {} =>
            \/ Attempts(q, j, "SUCCEEDED") # {}
            \/ q = p /\ j = i /\ \A h \in 1..i-1 : Disposed(p, h)
    BY <1>9
  <2>5. \A q \in Plans \ {p} : plan'[q] = plan[q]
    BY <1>4
  <2>6. \A q \in Plans, j \in Orders : ~ (q = p /\ j = i) => action'[q][j] = action[q][j]
    BY <1>5
  <2>7. request' = [request EXCEPT ![r] = Idle] /\ \A s \in Requests \ {r} : ~ Executing(s, p, i)
    BY <1>5, <1>10
  <2> QED BY <1>1, <1>7, <1>11, <2>1, <2>2, <2>3, <2>4, <2>5, <2>6, <2>7, OneActionKeepsDisposal
<1>13. OpenedByStale
  <2>1. DecidesStale(r, p, i)
    BY <1>0, <1>2 DEF DecidesStale, Decide
  <2> QED BY <1>0, <1>5, <2>1 DEF OpenedByStale
<1> QED BY <1>12, <1>13

\* aggregate_plan_status says COMPLETED of settled actions only.
LEMMA AggregateIsSettled ==
    ASSUME NEW actions, Aggregate(actions) = "COMPLETED"
    PROVE  Statuses(actions) \subseteq Settled
<1>1. PICK S : S = Statuses(actions)
  OBVIOUS
<1> QED BY <1>1 DEF Aggregate

LEMMA ExecuteKeepsDisposal ==
    ASSUME TypeInv, GateInv, DisposalInv, NEW r \in Requests, Succeed(r) \/ Fail(r)
    PROVE  DisposalInv' /\ OpenedByStale
<1>0. PICK p, i, l : p = request[r].plan /\ i = request[r].order /\ l = request[r].loaded.action
  OBVIOUS
<1>1. PICK outcome \in {"SUCCEEDED", "FAILED"} : Ends(r, outcome)
  BY DEF Succeed, Fail
<1>2. /\ p \in Plans /\ i \in Orders /\ request[r].op = "execute"
      /\ l \in [Orders -> ActionStatus]
  BY <1>0, <1>1, SessionTyped DEF Ends, SessionIsComplete
<1>3. /\ plan[p].status # "ABSENT"
      /\ action[p][i] \in {"APPROVED", "FAILED"}
      /\ \A j \in 1..i-1 : Disposed(p, j)
      /\ \A j \in Orders : /\ l[j] \in Settled => Disposed(p, j)
                           /\ l[j] = "ABSENT" <=> action[p][j] = "ABSENT"
  BY <1>0, <1>2, ResolutionAssumption DEF DisposalInv, SessionsAreBacked, IsBacked
<1>4. PICK a \in {"COMPLETED", "FAILED"},
           status \in {"APPROVAL_REQUIRED", "FAILED", "REJECTED", "COMPLETED", "APPROVED"} :
        /\ action' = [action EXCEPT ![p][i] = a]
        /\ plan' = [plan EXCEPT ![p].status = status]
        /\ workflow \subseteq workflow'
        /\ a = "COMPLETED" => <<p, i>> \in workflow'
        /\ status = "COMPLETED" =>
              a = "COMPLETED" /\ Aggregate([l EXCEPT ![i] = a]) = "COMPLETED"
  BY <1>0, AggregateTyped DEF Succeed, Fail
<1>5. /\ \A q \in Plans, j \in Orders : ~ (q = p /\ j = i) => action'[q][j] = action[q][j]
      /\ action'[p][i] = a
      /\ \A q \in Plans \ {p} : plan'[q] = plan[q]
      /\ plan'[p].status = status
      /\ \A q \in Plans : plan'[q].keyed = plan[q].keyed
      /\ request' = [request EXCEPT ![r] = Idle]
      /\ UNCHANGED approvals
  BY <1>1, <1>2, <1>4 DEF TypeInv, TypeOK, PlanRow, Ends
<1>6. \A q \in Plans, j \in Orders : Disposed(q, j) => Disposed(q, j)'
  BY <1>4, <1>5 DEF Disposed
<1>7. a = "COMPLETED" => Disposed(p, i)'
  BY <1>4 DEF Disposed
<1>8. ASSUME status = "COMPLETED", NEW j \in Orders, action[p][j] # "ABSENT"
      PROVE  Disposed(p, j)'
  <2>1. CASE j = i
    BY <1>4, <1>7, <1>8, <2>1
  <2>2. CASE j # i
    <3>1. [l EXCEPT ![i] = a][j] = l[j]
      BY <1>2, <2>2
    <3>2. l[j] # "ABSENT"
      BY <1>3, <1>8
    <3>3. l[j] \in Statuses([l EXCEPT ![i] = a])
      BY <3>1, <3>2 DEF Statuses
    <3>4. Statuses([l EXCEPT ![i] = a]) \subseteq Settled
      BY <1>4, <1>8, AggregateIsSettled
    <3> QED BY <1>2, <1>3, <1>6, <3>3, <3>4
  <2> QED BY <2>1, <2>2
<1>9. \A q \in Plans, j \in Orders : Attempts(q, j, "SUCCEEDED")' # {} =>
            Attempts(q, j, "SUCCEEDED") # {} \/ (q = p /\ j = i)
  <2>1. ASSUME NEW q \in Plans, NEW j \in Orders, ~ (q = p /\ j = i)
        PROVE  Attempts(q, j, "SUCCEEDED")' = Attempts(q, j, "SUCCEEDED")
    <3>1. ~ Executing(r, q, j)
      BY <1>0, <2>1 DEF Executing
    <3> QED BY <1>1, <3>1, EndsAddsAttempt
  <2> QED BY <2>1
<1>10. \A s \in Requests \ {r} : ~ Executing(s, p, i)
  <2>1. Executing(r, p, i)
    BY <1>0, <1>2 DEF Executing
  <2> QED BY <1>2, <2>1 DEF GateInv, LockIsExclusive
<1>11. DisposalInv'
  <2>1. /\ action[p][i] # "ABSENT" /\ action'[p][i] # "ABSENT"
        /\ action'[p][i] \in Settled => Disposed(p, i)'
        /\ plan'[p].status # "ABSENT"
        /\ \A q \in Plans : plan'[q].keyed => plan[q].keyed
    BY <1>3, <1>4, <1>5, <1>7 DEF Settled
  <2>2. plan'[p].status = "COMPLETED" =>
            \A j \in Orders : action[p][j] # "ABSENT" => Disposed(p, j)'
    BY <1>5, <1>8
  <2>3. \A q \in Plans, j \in Orders : Attempts(q, j, "SUCCEEDED")' # {} =>
            \/ Attempts(q, j, "SUCCEEDED") # {}
            \/ q = p /\ j = i /\ \A h \in 1..i-1 : Disposed(p, h)
    BY <1>3, <1>9
  <2> QED BY <1>2, <1>5, <1>6, <1>10, <2>1, <2>2, <2>3, OneActionKeepsDisposal
<1>12. OpenedByStale
  BY <1>3, <1>5 DEF OpenedByStale, Settled
<1> QED BY <1>11, <1>12

\* A plan is stored under a name that had no actions and that no session holds.
LEMMA PersistPlanKeepsDisposal ==
    ASSUME TypeInv, DisposalInv, NEW r \in Requests, NEW p \in Plans, NEW n \in 0..MaxActions,
           PersistPlan(r, p, n)
    PROVE  DisposalInv' /\ OpenedByStale
<1>0. PICK prior, l : prior = request[r].plan /\ l = request[r].loaded.plan
  OBVIOUS
<1>1. plan[p].status = "ABSENT" /\ \A i \in Orders : action[p][i] = "ABSENT"
  BY DEF PersistPlan, NoPlan, DisposalInv, AbsentIsEmpty
<1>2. \A s \in Requests : request[s].plan # p
  <2>1. p # None
    BY ResolutionAssumption
  <2> QED BY <1>1, <2>1 DEF DisposalInv, SessionsAreBacked, IsBacked
<1>3. /\ \A q \in Plans \ {p} : action'[q] = action[q]
      /\ \A i \in Orders : action'[p][i] \in {"PENDING", "ABSENT"}
      /\ request' = [request EXCEPT ![r] = Idle]
      /\ UNCHANGED <<approvals, executions, workflow>>
  BY DEF PersistPlan, TypeInv, TypeOK
<1>4. /\ plan'[p].status \in {"NO_ACTION_RECOMMENDED", "APPROVAL_REQUIRED"}
      /\ \A q \in Plans \ {p} :
            plan'[q] = IF q = prior THEN Flush(plan[q], l, Superseded(l)) ELSE plan[q]
  <2> DEFINE new == [keyed |-> TRUE, status |-> IF n = 0 THEN "NO_ACTION_RECOMMENDED"
                                                ELSE "APPROVAL_REQUIRED"]
  <2>1. new.status \in {"NO_ACTION_RECOMMENDED", "APPROVAL_REQUIRED"}
    OBVIOUS
  <2>2. plan' = [q \in Plans |-> CASE q = p -> new
                                   [] q = prior -> Flush(plan[q], l, Superseded(l))
                                   [] OTHER -> plan[q]]
    BY <1>0 DEF PersistPlan
  <2>3. prior # p
    BY <1>0, <1>2
  <2> HIDE DEF new
  <2>4. plan'[p] = new
    BY <2>2, <2>3
  <2> QED BY <2>1, <2>2, <2>3, <2>4
<1>5. \A q \in Plans : Flush(plan[q], l, Superseded(l)).status \in {plan[q].status, "CANCELLED"}
  <2>1. l \in PlanRow
    BY <1>0, SessionTyped
  <2> QED BY <2>1 DEF Flush, Superseded, PlanRow, TypeInv, TypeOK
<1>6. \A q \in Plans \ {p} : plan'[q].status \in {plan[q].status, "CANCELLED"}
  BY <1>4, <1>5
<1>7. \A q \in Plans \ {p} : plan'[q].keyed => plan[q].keyed
  <2>1. l \in PlanRow
    BY <1>0, SessionTyped
  <2>2. \A q \in Plans : Flush(plan[q], l, Superseded(l)).keyed => plan[q].keyed
    BY <2>1 DEF Flush, Superseded, PlanRow, TypeInv, TypeOK
  <2> QED BY <1>4, <2>2
<1>8. \A q \in Plans, j \in Orders : Disposed(q, j)' <=> Disposed(q, j)
  BY <1>3 DEF Disposed
<1>9. SettledIsDisposed'
  BY <1>3, <1>8 DEF DisposalInv, SettledIsDisposed, Settled
<1>10. AbsentIsEmpty' /\ KeyedIsMade'
  BY <1>3, <1>4, <1>6, <1>7 DEF DisposalInv, AbsentIsEmpty, KeyedIsMade
<1>11. PartialIsNotCompleted'
  BY <1>3, <1>4, <1>6, <1>8 DEF DisposalInv, PartialIsNotCompleted
<1>12. ExecutedInOrder'
  <2> SUFFICES ASSUME NEW q \in Plans, NEW j \in Orders, Attempts(q, j, "SUCCEEDED")' # {},
                      NEW h \in 1..j-1
               PROVE  Disposed(q, h)'
    BY DEF ExecutedInOrder, Disposed
  <2>1. h \in Orders
    BY ResolutionAssumption DEF Orders
  <2>2. Disposed(q, h)
    BY <1>3 DEF DisposalInv, ExecutedInOrder, Attempts
  <2> QED BY <1>8, <2>1, <2>2
<1>13. SessionsAreBacked'
  <2> SUFFICES ASSUME NEW s \in Requests PROVE IsBacked(request[s])'
    BY DEF SessionsAreBacked
  <2>1. CASE s = r
    <3>1. request'[s] = Idle
      BY <1>3, <2>1 DEF TypeInv, TypeOK
    <3> QED BY <3>1 DEF IsBacked, Idle
  <2>2. CASE s # r
    <3>1. PICK q : q = request[s] /\ request'[s] = q
      BY <1>3, <2>2 DEF TypeInv, TypeOK
    <3>2. IsBacked(q) /\ q \in RequestState /\ SessionIsComplete(q) /\ q.plan # p
      BY <1>2, <3>1 DEF DisposalInv, SessionsAreBacked, TypeInv, TypeOK
    <3>3. ASSUME q.plan # None
          PROVE  /\ plan'[q.plan].status # "ABSENT"
                 /\ \A j \in Orders :
                      /\ q.loaded.action[j] \in Settled => Disposed(q.plan, j)'
                      /\ q.loaded.action[j] = "ABSENT" <=> action'[q.plan][j] = "ABSENT"
      <4>1. q.plan \in Plans \ {p}
        BY <3>2, <3>3 DEF RequestState
      <4> QED BY <1>3, <1>6, <1>8, <3>2, <3>3, <4>1 DEF IsBacked
    <3>4. q.op = "decide" => q.loaded.action[q.order] = "PENDING"
      BY <3>2 DEF IsBacked
    <3>5. ASSUME q.op = "execute"
          PROVE  /\ action'[q.plan][q.order] \in {"APPROVED", "FAILED"}
                 /\ \A j \in 1..q.order-1 : Disposed(q.plan, j)'
      <4>1. q.plan \in Plans \ {p} /\ q.order \in Orders
        BY <3>2, <3>5 DEF SessionIsComplete
      <4>2. \A j \in 1..q.order-1 : j \in Orders
        BY <4>1, ResolutionAssumption DEF Orders
      <4> QED BY <1>3, <1>8, <3>2, <3>5, <4>1, <4>2 DEF IsBacked
    <3> QED BY <3>1, <3>3, <3>4, <3>5 DEF IsBacked
  <2> QED BY <2>1, <2>2
<1>14. OpenedByStale
  BY <1>1, <1>3 DEF OpenedByStale, Settled
<1> QED BY <1>9, <1>10, <1>11, <1>12, <1>13, <1>14 DEF DisposalInv

LEMMA InitDisposal == Init => DisposalInv
<1> SUFFICES ASSUME Init PROVE DisposalInv
  OBVIOUS
<1>1. \A r \in Requests : request[r].op = "none" /\ request[r].plan = None
  BY DEF Init, Idle
<1>2. \A p \in Plans, i \in Orders : Attempts(p, i, "SUCCEEDED") = {}
  BY DEF Init, Attempts, NoExecution
<1>3. \A p \in Plans : /\ plan[p].status = "ABSENT" /\ ~ plan[p].keyed
                       /\ \A i \in Orders : action[p][i] = "ABSENT"
  BY DEF Init, NoPlan, NoActions
<1> QED BY <1>1, <1>2, <1>3
      DEF DisposalInv, SessionsAreBacked, IsBacked, AbsentIsEmpty, KeyedIsMade,
          SettledIsDisposed, Settled, PartialIsNotCompleted, ExecutedInOrder

LEMMA StepDisposal ==
    TypeInv /\ GateInv /\ DisposalInv /\ [Next]_vars => DisposalInv' /\ OpenedByStale
<1> SUFFICES ASSUME TypeInv, GateInv, DisposalInv, [Next]_vars
             PROVE  DisposalInv' /\ OpenedByStale
  OBVIOUS
<1>1. ASSUME NEW r \in Requests, Begins(r) PROVE DisposalInv' /\ OpenedByStale
  BY <1>1, BeginKeepsDisposal
<1>2. ASSUME NEW r \in Requests, Commits(r) PROVE DisposalInv' /\ OpenedByStale
  BY <1>2, PersistPlanKeepsDisposal, DecideKeepsDisposal, ExecuteKeepsDisposal DEF Commits
<1>3. ASSUME NEW r \in Requests, RolledBack(r) PROVE DisposalInv' /\ OpenedByStale
  <2>1. \A s \in Requests : request'[s] = IF s = r THEN Idle ELSE request[s]
    BY <1>3 DEF RolledBack, TypeInv, TypeOK
  <2>2. \A s \in Requests : IsBacked(request'[s])
    <3>1. IsBacked(Idle)
      BY DEF IsBacked, Idle
    <3> QED BY <2>1, <3>1 DEF DisposalInv, SessionsAreBacked
  <2> QED BY <1>3, <2>2, SameRowsDisposal DEF RolledBack
<1>4. CASE UNCHANGED vars
  <2>1. UNCHANGED rows /\ UNCHANGED request
    BY <1>4 DEF vars, rows
  <2> QED BY <2>1, SameRowsDisposal DEF DisposalInv, SessionsAreBacked
<1> QED BY <1>1, <1>2, <1>3, <1>4 DEF Next

LEMMA DisposalInvariant == Spec => []DisposalInv
  BY InitTyped, StepTyped, InitGate, StepGate, InitDisposal, StepDisposal, PTL DEF Spec

\* "Partial plans are never marked COMPLETED": however decisions, executions and
\* replans interleave, every action of a plan that says COMPLETED has been
\* executed or rejected, for plans of any length.
THEOREM CompletedIsWhole == Spec => []PartialIsNotCompleted
<1>1. DisposalInv => PartialIsNotCompleted
  BY DEF DisposalInv
<1> QED BY <1>1, DisposalInvariant, PTL

\* "It will not start action_order=N while any prior action is still PENDING,
\* APPROVED, EXECUTING, or FAILED": however sessions interleave, every action
\* before an executed one has been executed or rejected, then and later on.
THEOREM ExecutionsAreInOrder == Spec => []ExecutedInOrder
<1>1. DisposalInv => ExecutedInOrder
  BY DEF DisposalInv
<1> QED BY <1>1, DisposalInvariant, PTL

\* "REJECTED -> APPROVED" and "COMPLETED -> APPROVED" are forbidden: what takes a
\* settled action back is a decision of a session that loaded the action when it
\* was pending, and no retry, replan, execution or later decision.
THEOREM SettledUntilStale == Spec => SettledUnlessDeciding
<1>1. TypeInv /\ GateInv /\ DisposalInv /\ [Next]_vars => [OpenedByStale]_vars
  BY StepDisposal
<1> QED BY <1>1, InitTyped, StepTyped, InitGate, StepGate, InitDisposal, StepDisposal, PTL
      DEF Spec, SettledUnlessDeciding, OpenedByStale

=============================================================================
