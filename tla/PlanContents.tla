---------------------------- MODULE PlanContents ----------------------------
(***************************************************************************)
(* What the plans of one exception say: the planner's answer, validated    *)
(* and stored (app/services/resolution_planning_service.py,                *)
(* resolution_service.create_plan, app/resolution/contracts.py and         *)
(* registry.py), the parameters of an action from its approval to its      *)
(* execution (app/resolution/immutability.py), and the record that its     *)
(* handler writes (app/resolution/handlers/).  Resolution has the statuses *)
(* of plans and actions and who may change them when; here an action       *)
(* carries its type and parameters.                                        *)
(*                                                                         *)
(* A session holds what it read while the planner, or the approver, takes  *)
(* its time.  The application never edits the parameters of an action; the *)
(* hash is for whoever edits them in the database.                         *)
(***************************************************************************)
EXTENDS Integers, SequencesExt, FiniteSetsExt

CONSTANTS
    Parameters,     \* parameters an action may carry
    Replies,        \* answers of the planner: [status, actions]
    Planners,       \* sessions at work at the same time
    MaxAttempts,    \* bound: planning attempts that reach the planner
    MaxEdits,       \* bound: edits in the database
    Unset           \* no hash

\* A text is said, blank or left out.  What the parameters refer to by id (a
\* vendor, or a document and its extraction) is on record or not; `half' has one
\* id of the two.  `named' is a vendor_reference.
ParameterSet ==
    [what : {"said", "blank", "none"}, reason : {"said", "blank", "none"},
     refers : {"nothing", "known", "unknown", "half"}, named : BOOLEAN]

ASSUME PlanContentsAssumption ==
    /\ Parameters \subseteq ParameterSet /\ Unset \notin Parameters
    /\ \A reply \in Replies :
          /\ reply.actions \in Seq(ToSet(reply.actions))
          /\ \A a \in ToSet(reply.actions) :
                a.type \in STRING /\ a.parameters \in Parameters /\ a.order \in Int
    /\ MaxAttempts \in Nat /\ MaxEdits \in Nat

VARIABLES
    plans,      \* the stored plans: sequences of action rows
    current,    \* the plan that has the planning key; 0: none
    planned,    \* rows of resolution_planning_attempts
    consents,   \* <<plan, action, parameters>> a person approved
    workflow,   \* the records that handlers wrote
    session,    \* session c: what it does with what it read
    asked,      \* planner calls so far
    edits       \* edits so far

contentVars == <<plans, current, planned, consents, workflow, session, asked, edits>>

ContentRow ==
    [type : STRING, parameters : Parameters, rank : Int, approval : BOOLEAN,
     status : {"PENDING", "APPROVED", "COMPLETED", "FAILED"},
     hash : Parameters \union {Unset}]

PlanningAttempt == [status : {"SUCCEEDED", "FAILED"}, plan : Nat, count : Nat]

\* The tables of the handlers: one record per action, by a unique constraint.
Recorded == [plan : Nat, row : Nat, parameters : Parameters]
ExceptionReviewRoute ==
    [type : {"ROUTE_TO_REVIEW"}, status : {"PENDING"}, of : Recorded, task : BOOLEAN]
VendorClarificationRequest ==
    [type : {"REQUEST_VENDOR_CLARIFICATION"}, status : {"PENDING"}, of : Recorded]
MissingDocumentRequest ==
    [type : {"REQUEST_MISSING_DOCUMENT"}, status : {"PENDING"}, of : Recorded]
ManagerEscalation == [type : {"ESCALATE_TO_MANAGER"}, status : {"OPEN"}, of : Recorded]

Vacant == [op |-> "none"]

ContentInit ==
    /\ plans = <<>> /\ current = 0 /\ planned = <<>>
    /\ consents = {} /\ workflow = {}
    /\ session = [c \in Planners |-> Vacant]
    /\ asked = 0 /\ edits = 0

Vacated(c) == session' = [session EXCEPT ![c] = Vacant]

(* Planning ************************************************************)

\* A request that need not replan returns the plan it finds.
AskPlanner(c, forced) ==
    /\ session[c] = Vacant
    /\ asked < MaxAttempts
    /\ ~forced => current = 0
    /\ session' = [session EXCEPT ![c] = [op |-> "plan", forced |-> forced, seen |-> current]]
    /\ asked' = asked + 1
    /\ UNCHANGED <<plans, current, planned, consents, edits, workflow>>

\* The schema of each type; fields of another type are refused.
RouteToReviewFits(v) ==
    v.what = "said" /\ v.reason # "blank" /\ v.refers # "half" /\ ~v.named

ClarificationFits(v) ==
    /\ v.what = "said" /\ v.reason # "blank" /\ v.refers # "half"
    /\ v.refers # "nothing" \/ v.named

MissingDocumentFits(v) == v.what = "said" /\ v.reason = "said" /\ v.refers # "half"

EscalationFits(v) ==
    v.what # "blank" /\ v.reason = "said" /\ v.refers = "nothing" /\ ~v.named

\* parse_action_parameters; an unknown type has no schema.
Fits(type, v) ==
    \/ type = "ROUTE_TO_REVIEW" /\ RouteToReviewFits(v)
    \/ type = "REQUEST_VENDOR_CLARIFICATION" /\ ClarificationFits(v)
    \/ type = "REQUEST_MISSING_DOCUMENT" /\ MissingDocumentFits(v)
    \/ type = "ESCALATE_TO_MANAGER" /\ EscalationFits(v)

Acceptable(a) == Fits(a.type, a.parameters)

\* Mutant: the actions after the first are taken on trust.
ValidFirst(reply) ==
    /\ reply.status \in {"ACTIONS_PROPOSED", "NO_ACTION_RECOMMENDED"}
    /\ reply.status = "NO_ACTION_RECOMMENDED" => reply.actions = <<>>
    /\ reply.actions # <<>> => Acceptable(Head(reply.actions))

\* The answer fits the schema, proposes nothing if it recommends nothing, and
\* every action in it is acceptable.
Valid(reply) ==
    /\ reply.status \in {"ACTIONS_PROPOSED", "NO_ACTION_RECOMMENDED"}
    /\ reply.status = "NO_ACTION_RECOMMENDED" => reply.actions = <<>>
    /\ \A a \in ToSet(reply.actions) : Acceptable(a)

\* Sorted by action_order, then as answered.
Ordered(actions) ==
    LET before(i, j) == \/ actions[i].order < actions[j].order
                        \/ actions[i].order = actions[j].order /\ i <= j
        ranks == CHOOSE s \in SetToSeqs(DOMAIN actions) :
                    \A m, n \in DOMAIN s : m < n => before(s[m], s[n])
    IN  [n \in DOMAIN actions |-> actions[ranks[n]]]

\* create_plan: whether approval is required is the registry's word, whatever
\* the planner claims; every registered handler requires it.
NewRow(a) ==
    [type |-> a.type, parameters |-> a.parameters, rank |-> a.order, approval |-> TRUE,
     status |-> "PENDING", hash |-> Unset]

\* _record_attempt
Attempted(status, plan, count) ==
    planned' = Append(planned, [status |-> status, plan |-> plan, count |-> count])

\* A plan that no longer has the key keeps its rows.
PlanStored(c, reply) ==
    LET rows == Ordered(reply.actions)
    IN  /\ session[c].op = "plan"
        /\ Valid(reply)
        /\ ~session[c].forced => current = 0
        /\ plans' = Append(plans, [n \in DOMAIN rows |-> NewRow(rows[n])])
        /\ current' = Len(plans) + 1
        /\ Attempted("SUCCEEDED", Len(plans) + 1, Len(rows))
        /\ Vacated(c)
        /\ UNCHANGED <<consents, asked, edits, workflow>>

\* A provider error, an answer that does not fit the schema, or an action that
\* is refused: the attempt is recorded and no plan is.
PlanRefused(c, reply) ==
    /\ session[c].op = "plan"
    /\ ~Valid(reply)
    /\ Attempted("FAILED", 0, 0)
    /\ Vacated(c)
    /\ UNCHANGED <<plans, current, consents, asked, edits, workflow>>

\* Another planner stored its plan in between and the unique key refuses this
\* one: everything is rolled back, the attempt too.
PlanLost(c) ==
    /\ session[c].op = "plan"
    /\ current # session[c].seen
    /\ Vacated(c)
    /\ UNCHANGED <<plans, current, planned, consents, asked, edits, workflow>>

(* Approval and execution **********************************************)

Slots == UNION {{p} \X (DOMAIN plans[p]) : p \in DOMAIN plans}

\* The approver's session loads the action and decides on what it loaded.
BeginApproval(c, p, i) ==
    /\ session[c] = Vacant
    /\ plans[p][i].status = "PENDING"
    /\ session' = [session EXCEPT ![c] =
            [op |-> "approve", plan |-> p, row |-> i, read |-> plans[p][i].parameters]]
    /\ UNCHANGED <<plans, current, planned, consents, asked, edits, workflow>>

\* ensure_hash_on_approve: the hash of the parameters as they were loaded.
Approve(c) ==
    LET s == session[c]
    IN  /\ s.op = "approve"
        /\ plans' = [plans EXCEPT ![s.plan][s.row].status = "APPROVED",
                                  ![s.plan][s.row].hash = s.read]
        /\ consents' = consents \union {<<s.plan, s.row, s.read>>}
        /\ Vacated(c)
        /\ UNCHANGED <<current, planned, asked, edits, workflow>>

\* Mutant: that there is a hash is enough.
MayRunHashed(row) == row.status \in {"APPROVED", "FAILED"} /\ row.hash # Unset

\* assert_parameters_match_approved_hash.
MayRun(row) ==
    /\ row.status \in {"APPROVED", "FAILED"}
    /\ row.hash # Unset /\ row.hash = row.parameters

\* The record of a handler; a review task goes with a route to a document.
RouteToReview(of) ==
    [type |-> "ROUTE_TO_REVIEW", status |-> "PENDING", of |-> of,
     task |-> of.parameters.refers = "known"]

RequestVendorClarification(of) ==
    [type |-> "REQUEST_VENDOR_CLARIFICATION", status |-> "PENDING", of |-> of]

RequestMissingDocument(of) ==
    [type |-> "REQUEST_MISSING_DOCUMENT", status |-> "PENDING", of |-> of]

EscalateToManager(of) == [type |-> "ESCALATE_TO_MANAGER", status |-> "OPEN", of |-> of]

RecordOf(type, of) ==
    CASE type = "ROUTE_TO_REVIEW" -> RouteToReview(of)
      [] type = "REQUEST_VENDOR_CLARIFICATION" -> RequestVendorClarification(of)
      [] type = "REQUEST_MISSING_DOCUMENT" -> RequestMissingDocument(of)
      [] OTHER -> EscalateToManager(of)

Records(p, i) == {w \in workflow : w.of.plan = p /\ w.of.row = i}

\* A record that is there is found and left as it is.
Handled(p, i) ==
    IF Records(p, i) # {} THEN workflow
    ELSE workflow \union {RecordOf(plans[p][i].type,
                               [plan |-> p, row |-> i, parameters |-> plans[p][i].parameters])}

\* An action with an execution that succeeded is refused, whatever its status has
\* become.  The handler parses the parameters once more and looks up what they
\* refer to; what it raises is recorded and what it wrote is rolled back.
Execute(p, i) ==
    /\ Records(p, i) = {}
    /\ MayRun(plans[p][i])
    /\ \/ /\ Acceptable(plans[p][i])
          /\ plans[p][i].parameters.refers # "unknown"
          /\ plans' = [plans EXCEPT ![p][i].status = "COMPLETED"]
          /\ workflow' = Handled(p, i)
       \/ /\ plans' = [plans EXCEPT ![p][i].status = "FAILED"]
          /\ UNCHANGED workflow
    /\ UNCHANGED <<current, planned, consents, session, asked, edits>>

\* An UPDATE in the database, past the guard of the sessions.
Edit(p, i, v) ==
    /\ edits < MaxEdits
    /\ edits' = edits + 1
    /\ v # plans[p][i].parameters
    /\ plans' = [plans EXCEPT ![p][i].parameters = v]
    /\ UNCHANGED <<current, planned, consents, session, asked, workflow>>

ContentNext ==
    \/ \E c \in Planners :
          \/ \E forced \in BOOLEAN : AskPlanner(c, forced)
          \/ \E reply \in Replies : PlanStored(c, reply) \/ PlanRefused(c, reply)
          \/ PlanLost(c) \/ Approve(c)
    \/ \E s \in Slots :
          \/ \E c \in Planners : BeginApproval(c, s[1], s[2])
          \/ Execute(s[1], s[2])
          \/ \E v \in Parameters : Edit(s[1], s[2], v)

ContentSpec == ContentInit /\ [][ContentNext]_contentVars

(* Properties **********************************************************)

ContentTypeOK ==
    /\ plans \in Seq(Seq(ContentRow))
    /\ current \in 0 .. Len(plans)
    /\ planned \in Seq(PlanningAttempt)
    /\ consents \subseteq Nat \X Nat \X Parameters
    /\ workflow \subseteq ExceptionReviewRoute \union VendorClarificationRequest
                             \union MissingDocumentRequest \union ManagerEscalation

\* "Execution can prove the payload matches what the human authorized": however
\* approvals, replans and edits in the database interleave, a record is in the
\* table for the type of its action and has parameters that a person approved
\* for that action, that fit its schema and that refer to nothing unknown.
ExecutedAsApproved ==
    \A w \in workflow :
        LET of == w.of
        IN  /\ <<of.plan, of.row, of.parameters>> \in consents
            /\ plans[of.plan][of.row].type = w.type
            /\ Fits(w.type, of.parameters) /\ of.parameters.refers # "unknown"

\* "Entire plan + actions or nothing": a stored plan belongs to one attempt that
\* succeeded and has all the actions it counted, in the planner's order, unable
\* to run without approval and (unless edited) with parameters of the schema of
\* their type; a failed attempt left no plan.
AttemptsTellThePlans ==
    /\ ContentTypeOK
    /\ \A p \in DOMAIN plans :
          /\ Cardinality({k \in DOMAIN planned : planned[k].plan = p}) = 1
          /\ \A i \in DOMAIN plans[p] :
                /\ plans[p][i].approval
                /\ edits = 0 => Acceptable(plans[p][i])
                /\ \A j \in 1 .. i : plans[p][j].rank <= plans[p][i].rank
    /\ \A k \in DOMAIN planned :
          IF planned[k].status = "FAILED" THEN planned[k].plan = 0
          ELSE planned[k].count = Len(plans[planned[k].plan])

=============================================================================
