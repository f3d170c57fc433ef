----------------------------- MODULE Resolution -----------------------------
(***************************************************************************)
(* Plans for one reconciliation exception: planning and replanning         *)
(* (app/services/resolution_planning_service.py), the decisions on the     *)
(* proposed actions (resolution_service.py) and their execution            *)
(* (resolution_execution_service.py, app/resolution/guardrails.py).        *)
(*                                                                         *)
(* Every session reads first and commits later.  Only execution takes a    *)
(* lock, on the row of the action it executes; the plan row is read        *)
(* without one.  A decision writes the action's row unconditionally, as it *)
(* always changes the status it loaded.  A status that a transaction sets  *)
(* and replaces before it commits (PROPOSED and EXECUTING, of plans and    *)
(* actions; PENDING and RUNNING, of executions) is seen by nobody else and *)
(* is left out.  All four registered actions require approval, so none is  *)
(* executed while it is PENDING.                                           *)
(***************************************************************************)
EXTENDS Naturals, FiniteSets, OrmSession

CONSTANTS
    Plans,          \* plans that may be made for the exception
    MaxActions,     \* bound: actions of a plan
    Keys,           \* idempotency keys of executions
    Requests,       \* sessions at work at the same time
    Operations,     \* subset of {"decide", "execute", "plan"}
    None            \* no plan, no key, no decision

ASSUME ResolutionAssumption ==
    /\ MaxActions \in Nat \ {0}
    /\ Operations \subseteq {"decide", "execute", "plan"}
    /\ None \notin Plans /\ None \notin Keys
    /\ None \notin {"APPROVED", "REJECTED"}

Orders == 1..MaxActions

Verdicts == {"APPROVED", "REJECTED"}

\* keyed: the row carries the exception's planning_key.
PlanRow ==
    [status : {"ABSENT", "APPROVAL_REQUIRED", "APPROVED", "COMPLETED", "FAILED",
               "REJECTED", "CANCELLED", "NO_ACTION_RECOMMENDED"},
     keyed : BOOLEAN]

ActionStatus == {"ABSENT", "PENDING", "APPROVED", "REJECTED", "COMPLETED", "FAILED"}

ExecutionRow ==
    [plan : Plans \union {None}, order : Orders \union {0},
     status : {"NONE", "SUCCEEDED", "FAILED"}]

NoPlan == [status |-> "ABSENT", keyed |-> FALSE]
NoActions == [i \in Orders |-> "ABSENT"]
NoExecution == [plan |-> None, order |-> 0, status |-> "NONE"]

VARIABLES
    plan,           \* plan p: its row
    action,         \* plan p, order i: the status of the proposed action
    approvals,      \* plan p, order i: the decisions in its approval log
    latest,         \* plan p, order i: the decision of the log's latest row
    executions,     \* key k: the execution it was used for
    workflow,       \* the actions whose workflow record exists
    request         \* session r: what it does and the rows it loaded

rows == <<plan, action, approvals, latest, executions, workflow>>
vars == <<plan, action, approvals, latest, executions, workflow, request>>

RequestState ==
    [op : {"none", "decide", "execute", "plan"},
     plan : Plans \union {None}, order : Orders \union {0},
     decision : Verdicts \union {None}, key : Keys \union {None},
     loaded : [plan : PlanRow, action : [Orders -> ActionStatus]]]

Idle ==
    [op |-> "none", plan |-> None, order |-> 0, decision |-> None, key |-> None,
     loaded |-> [plan |-> NoPlan, action |-> NoActions]]

TypeOK ==
    /\ plan \in [Plans -> PlanRow]
    /\ action \in [Plans -> [Orders -> ActionStatus]]
    /\ approvals \in [Plans -> [Orders -> SUBSET Verdicts]]
    /\ latest \in [Plans -> [Orders -> Verdicts \union {None}]]
    /\ executions \in [Keys -> ExecutionRow]
    /\ workflow \subseteq Plans \X Orders
    /\ request \in [Requests -> RequestState]

Init ==
    /\ plan = [p \in Plans |-> NoPlan]
    /\ action = [p \in Plans |-> NoActions]
    /\ approvals = [p \in Plans |-> [i \in Orders |-> {}]]
    /\ latest = [p \in Plans |-> [i \in Orders |-> None]]
    /\ executions = [k \in Keys |-> NoExecution]
    /\ workflow = {}
    /\ request = [r \in Requests |-> Idle]

\* What a session loads of plan p.
Snapshot(p) == [plan |-> plan[p], action |-> action[p]]

RolledBack(r) ==
    /\ request[r] # Idle
    /\ request' = [request EXCEPT ![r] = Idle]
    /\ UNCHANGED rows

-----------------------------------------------------------------------------
(* Planning.  An unforced request that finds the plan of its key returns   *)
(* it, so a session that goes on has loaded that plan to supersede it, or  *)
(* has found none.                                                         *)

BeginPlanning(r) ==
    /\ request[r] = Idle
    /\ \/ \E p \in Plans :
            /\ plan[p].keyed
            /\ request' = [request EXCEPT ![r] =
                    [Idle EXCEPT !.op = "plan", !.plan = p, !.loaded = Snapshot(p)]]
       \/ /\ \A p \in Plans : ~plan[p].keyed
          /\ request' = [request EXCEPT ![r] = [Idle EXCEPT !.op = "plan"]]
    /\ UNCHANGED rows

\* What becomes of the plan that is replaced; its actions are left alone.
Superseded(row) ==
    [keyed |-> FALSE,
     status |-> IF row.status \in {"COMPLETED", "CANCELLED", "REJECTED"}
                THEN row.status ELSE "CANCELLED"]

\* _persist_plan, after the planner has answered with n actions.  The unique
\* planning_key refuses a second plan with it.
PersistPlan(r, p, n) ==
    LET prior == request[r].plan
    IN  /\ request[r].op = "plan"
        /\ plan[p] = NoPlan
        /\ \A q \in Plans \ {prior} : ~plan[q].keyed
        /\ plan' = [q \in Plans |->
                CASE q = p -> [keyed |-> TRUE,
                               status |-> IF n = 0 THEN "NO_ACTION_RECOMMENDED"
                                          ELSE "APPROVAL_REQUIRED"]
                  [] q = prior -> Flush(plan[q], request[r].loaded.plan,
                                        Superseded(request[r].loaded.plan))
                  [] OTHER -> plan[q]]
        /\ action' = [action EXCEPT ![p] =
                [i \in Orders |-> IF i <= n THEN "PENDING" ELSE "ABSENT"]]
        /\ request' = [request EXCEPT ![r] = Idle]
        /\ UNCHANGED <<approvals, latest, executions, workflow>>

-----------------------------------------------------------------------------
(* Decisions.  A repeated decision, or one with a used idempotency key,    *)
(* returns the row that is there.                                          *)

\* Mutant: the row is not locked.
LockedNever(p, i) == FALSE

\* The row lock of an execution that has not committed.
Locked(p, i) ==
    \E r \in Requests :
        request[r].op = "execute" /\ request[r].plan = p /\ request[r].order = i

\* Mutant: an approval may be withdrawn at any time.
MayDecideAgain(row, status) ==
    row.status # "CANCELLED" /\ status \in {"PENDING", "APPROVED", "COMPLETED"}

MayDecide(row, status) == row.status # "CANCELLED" /\ status = "PENDING"

BeginDecision(r, p, i, decision) ==
    /\ request[r] = Idle
    /\ MayDecide(plan[p], action[p][i])
    /\ request' = [request EXCEPT ![r] =
            [Idle EXCEPT !.op = "decide", !.plan = p, !.order = i,
                         !.decision = decision, !.loaded = Snapshot(p)]]
    /\ UNCHANGED rows

Statuses(actions) == {actions[i] : i \in Orders} \ {"ABSENT"}

\* _refresh_plan_after_decision; only the step to APPROVED looks at where the
\* plan is.
Refreshed(status, actions) ==
    LET S == Statuses(actions)
    IN  IF \/ status \in {"CANCELLED", "COMPLETED", "NO_ACTION_RECOMMENDED"}
           \/ "PENDING" \in S
        THEN status
        ELSE CASE "REJECTED" \in S /\ "APPROVED" \notin S -> "REJECTED"
               [] "APPROVED" \in S /\ status = "APPROVAL_REQUIRED" -> "APPROVED"
               [] OTHER -> status

\* The log is ordered by the start of the transactions (created_at): of two
\* decisions in flight together either may be the latest row.
Decide(r) ==
    LET p == request[r].plan
        i == request[r].order
        l == request[r].loaded
        decision == request[r].decision
        status == Refreshed(l.plan.status, [l.action EXCEPT ![i] = decision])
    IN  /\ request[r].op = "decide"
        /\ ~Locked(p, i)
        /\ action' = [action EXCEPT ![p][i] = decision]
        /\ approvals' = [approvals EXCEPT ![p][i] = @ \union {decision}]
        /\ \E d \in {decision, latest[p][i]} \ {None} :
                latest' = [latest EXCEPT ![p][i] = d]
        /\ plan' = [plan EXCEPT ![p] = Flush(@, l.plan, [l.plan EXCEPT !.status = status])]
        /\ request' = [request EXCEPT ![r] = Idle]
        /\ UNCHANGED <<executions, workflow>>

-----------------------------------------------------------------------------
(* Execution.  A repeated key returns the execution it was used for.       *)

Executable == {"APPROVAL_REQUIRED", "APPROVED", "FAILED"}

\* _PRIOR_TERMINAL
Settled == {"COMPLETED", "REJECTED"}

Attempts(p, i, status) ==
    {k \in Keys : executions[k] = [plan |-> p, order |-> i, status |-> status]}

\* Mutant: the order of the actions is not looked at.
MayExecuteAnyOrder(p, i) ==
    /\ Attempts(p, i, "SUCCEEDED") = {}
    /\ plan[p].status \in Executable
    /\ action[p][i] \in {"APPROVED", "FAILED"}
    /\ latest[p][i] = "APPROVED"

\* Mutant: the registry does not require approval.
MayExecutePending(p, i) ==
    /\ Attempts(p, i, "SUCCEEDED") = {}
    /\ plan[p].status \in Executable
    /\ action[p][i] \in {"PENDING", "APPROVED", "FAILED"}
    /\ \A j \in 1..i-1 : action[p][j] \in Settled

\* The guardrails: validate_execution, validate_action, validate_action_order
\* and validate_approval, on the rows read under the lock.
MayExecute(p, i) ==
    /\ Attempts(p, i, "SUCCEEDED") = {}
    /\ plan[p].status \in Executable
    /\ action[p][i] \in {"APPROVED", "FAILED"}
    /\ \A j \in 1..i-1 : action[p][j] \in Settled
    /\ latest[p][i] = "APPROVED"

BeginExecution(r, p, i, k) ==
    /\ request[r] = Idle
    /\ ~Locked(p, i)
    /\ executions[k] = NoExecution
    /\ MayExecute(p, i)
    /\ request' = [request EXCEPT ![r] =
            [Idle EXCEPT !.op = "execute", !.plan = p, !.order = i, !.key = k,
                         !.loaded = Snapshot(p)]]
    /\ UNCHANGED rows

\* Mutant: a plan with no action left to decide on is complete.
AggregateEager(actions) ==
    LET S == Statuses(actions)
    IN  CASE "PENDING" \in S -> "APPROVAL_REQUIRED"
          [] "PENDING" \notin S /\ "FAILED" \in S -> "FAILED"
          [] OTHER -> "COMPLETED"

\* aggregate_plan_status
Aggregate(actions) ==
    LET S == Statuses(actions)
    IN  CASE "PENDING" \in S -> "APPROVAL_REQUIRED"
          [] "PENDING" \notin S /\ "FAILED" \in S -> "FAILED"
          [] S \subseteq {"REJECTED"} -> "REJECTED"
          [] "COMPLETED" \in S /\ S \subseteq Settled -> "COMPLETED"
          [] OTHER -> "APPROVED"

\* A key that another transaction has inserted in between violates its unique
\* constraint: such a session is rolled back.
Ends(r, outcome) ==
    LET q == request[r]
    IN  /\ q.op = "execute"
        /\ executions[q.key] = NoExecution
        /\ executions' = [executions EXCEPT ![q.key] =
                [plan |-> q.plan, order |-> q.order, status |-> outcome]]
        /\ request' = [request EXCEPT ![r] = Idle]
        /\ UNCHANGED <<approvals, latest>>

\* The plan's row was set to EXECUTING on the way, so its status is written
\* whatever was loaded.
Succeed(r) ==
    LET p == request[r].plan
        i == request[r].order
    IN  /\ Ends(r, "SUCCEEDED")
        /\ action' = [action EXCEPT ![p][i] = "COMPLETED"]
        /\ workflow' = workflow \union {<<p, i>>}
        /\ plan' = [plan EXCEPT ![p].status =
                Aggregate([request[r].loaded.action EXCEPT ![i] = "COMPLETED"])]

\* The handler raised: its savepoint is rolled back, the execution is kept.
Fail(r) ==
    LET p == request[r].plan
        i == request[r].order
    IN  /\ Ends(r, "FAILED")
        /\ action' = [action EXCEPT ![p][i] = "FAILED"]
        /\ plan' = [plan EXCEPT ![p].status = "FAILED"]
        /\ UNCHANGED workflow

-----------------------------------------------------------------------------
Begins(r) ==
    \/ "plan" \in Operations /\ BeginPlanning(r)
    \/ \E p \in Plans, i \in Orders :
        \/ "decide" \in Operations
           /\ \E decision \in Verdicts : BeginDecision(r, p, i, decision)
        \/ "execute" \in Operations
           /\ \E k \in Keys : BeginExecution(r, p, i, k)

Commits(r) ==
    \/ \E p \in Plans, n \in 0..MaxActions : PersistPlan(r, p, n)
    \/ Decide(r) \/ Succeed(r) \/ Fail(r)

Next == \E r \in Requests : Begins(r) \/ Commits(r) \/ RolledBack(r)

Spec == Init /\ [][Next]_vars

-----------------------------------------------------------------------------
(* Properties.                                                             *)

Authorized == {a \in Plans \X Orders : "APPROVED" \in approvals[a[1]][a[2]]}

Gate == INSTANCE ApprovalGate WITH authorized <- Authorized, done <- workflow

\* Planning, decisions and execution implement ApprovalGate: a workflow record
\* is created once, for an action that a person approved before.
KeepsApprovalGate == Gate!GateSpec

\* "Concurrent same key: one successful workflow row", "Different key after
\* success: reject": an action has one successful execution when its workflow
\* record exists, and none before.
ExecutedOnce ==
    \A p \in Plans, i \in Orders :
        Cardinality(Attempts(p, i, "SUCCEEDED")) = IF <<p, i>> \in workflow THEN 1 ELSE 0

\* What settles action i of plan p for good, whatever is written over its row
\* later: its workflow record, or a rejection in its log.
Disposed(p, i) == <<p, i>> \in workflow \/ "REJECTED" \in approvals[p][i]

\* "Partial plans are never marked COMPLETED": every action of a completed plan
\* was executed or rejected, though its aggregation read the other actions
\* before the handler ran (resolution_execution_service.py:396).
PartialIsNotCompleted ==
    \A p \in Plans, i \in Orders :
        plan[p].status = "COMPLETED" /\ action[p][i] # "ABSENT" => Disposed(p, i)

\* "It will not start action_order=N while any prior action is still PENDING,
\* APPROVED, EXECUTING, or FAILED": what was executed comes after actions that
\* were executed or rejected, though only its own row was locked
\* (guardrails.py:86).
ExecutedInOrder ==
    \A p \in Plans, i \in Orders :
        Attempts(p, i, "SUCCEEDED") # {} => \A j \in 1..i-1 : Disposed(p, j)

\* Session r holds a decision on action i of plan p, taken on the row that it
\* loaded when nothing was decided yet.
DecidesStale(r, p, i) ==
    /\ request[r].op = "decide" /\ request[r].plan = p /\ request[r].order = i
    /\ request[r].loaded.action[i] = "PENDING"

\* A rejected or executed action is opened again by nothing but a decision that
\* was under way before: once those sessions have ended it stays for good, over
\* retries, replans and executions of its neighbours (resolution_service.py:395).
SettledUnlessDeciding ==
    [][\A p \in Plans, i \in Orders :
        action[p][i] \in Settled /\ action'[p][i] # action[p][i]
            => \E r \in Requests : DecidesStale(r, p, i) /\ action'[p][i] = request[r].decision]_vars

\* "Forbidden without an explicit new-review workflow: REJECTED -> APPROVED,
\* COMPLETED -> APPROVED": nothing that was rejected or executed is approved.
NeverApprovedAgain ==
    [][\A p \in Plans, i \in Orders :
        action[p][i] \in Settled => action'[p][i] # "APPROVED"]_vars

=============================================================================
