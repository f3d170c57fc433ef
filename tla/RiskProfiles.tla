---------------------------- MODULE RiskProfiles ----------------------------
(***************************************************************************)
(* Stored risk profiles (app/services/risk_service.py, risk/profiles.py,   *)
(* fingerprints.py) and the reads of them (services/intelligence_read.py). *)
(*                                                                         *)
(* A profile is calculated when somebody asks for one and never again: a   *)
(* request looks for the profile, loads the signals, looks again and       *)
(* inserts, and other requests and new signals come between these steps.   *)
(* A client may ask for a day that has passed or has not come.  A signal   *)
(* has the day on which a rule found it, and is seen when the scan or the  *)
(* request that ran the rule commits, which may be on a later day.         *)
(***************************************************************************)
EXTENDS RiskScore

CONSTANTS
    Entities,       \* vendors, invoices and orders
    Findings,       \* what the rules may detect: signals without their day
    Days,           \* days on which something happens
    Askers,         \* requests for a profile
    MaxFindings,    \* bound: signals detected, committed or not
    MaxAsks         \* bound: profiles asked for

ASSUME ProfileAssumption ==
    /\ Days \subseteq Nat /\ IsFiniteSet(Days) /\ Days # {}
    /\ \A f \in Findings : f.type \in Types /\ f.severity \in DOMAIN SeverityQuarters
    /\ MaxFindings \in Nat /\ MaxAsks \in Nat

VARIABLES
    today,
    due,        \* signals that a rule has found and nobody has committed yet
    found,      \* committed signals
    profiles,   \* committed rows
    ask,        \* requests in progress
    answers,    \* what clients have been told: a profile, or the error
    asks

riskVars == <<today, due, found, profiles, ask, answers, asks>>

\* `day' is that of detected_at; `seen', the day of the commit, is no column.
Signal == [day : Days, finding : Findings, seen : Days]

\* `signals' stand in the row as their count, in the fingerprint by name; `made', the
\* day on which they were loaded, is no column.
ProfileRow == [entity : Entities, asOf : Days, signals : SUBSET Signal, score : 0..100,
               band : {"LOW", "MEDIUM", "HIGH", "CRITICAL"}, made : Days]

Quiet == [pc |-> "idle"]

RiskTypeOK ==
    /\ today \in Days
    /\ due \subseteq [day : Days, finding : Findings] /\ found \subseteq Signal
    /\ profiles \subseteq ProfileRow
    /\ \A r \in Askers : ask[r] = Quiet \/ ask[r].pc \in {"load", "look", "insert"}
    /\ answers \subseteq profiles
    /\ asks \in 0..MaxAsks

RiskInit ==
    /\ today = Min(Days)
    /\ due = {} /\ found = {} /\ profiles = {} /\ answers = {}
    /\ ask = [r \in Askers |-> Quiet]
    /\ asks = 0

\* The signals of entity e detected by the end of day asOf, as the score sees them.
SignalsOf(e, asOf) == {s \in found : e \in s.finding.of /\ s.day <= asOf}
Views(signals) == {[type |-> s.finding.type, severity |-> s.finding.severity, day |-> s.day,
                    name |-> s.finding] : s \in signals}

\* Days without an event are not steps.
Tick ==
    /\ \E d \in Days : d > today
    /\ today' = Min({d \in Days : d > today})
    /\ UNCHANGED <<due, found, profiles, ask, answers, asks>>

\* A rule finds a signal, and stamps it with the day (_signal).
Detect(f) ==
    /\ Cardinality(due) + Cardinality(found) < MaxFindings
    /\ due' = due \union {[day |-> today, finding |-> f]}
    /\ UNCHANGED <<today, found, profiles, ask, answers, asks>>

\* _persist_signals and the commit of the request or of the scan's batch: the row of a
\* fingerprint that is there stays as it is.
CommitSignal(s) ==
    /\ due' = due \ {s}
    /\ found' = IF s.finding \in {x.finding : x \in found} THEN found
                ELSE found \union {[day |-> s.day, finding |-> s.finding, seen |-> today]}
    /\ UNCHANGED <<today, profiles, ask, answers, asks>>

\* The batch is rolled back, or the worker stops.
DropSignal(s) ==
    /\ due' = due \ {s}
    /\ UNCHANGED <<today, found, profiles, ask, answers, asks>>

Stored(e, asOf) == {p \in profiles : p.entity = e /\ p.asOf = asOf}

Answer(r, rows) ==
    /\ answers' = answers \union rows
    /\ ask' = [ask EXCEPT ![r] = Quiet]

\* get_or_calculate: what is stored is the answer.
Ask(r, e, asOf) ==
    /\ ask[r] = Quiet /\ asks < MaxAsks
    /\ asks' = asks + 1
    /\ \/ Stored(e, asOf) # {} /\ Answer(r, Stored(e, asOf))
       \/ /\ Stored(e, asOf) = {}
          /\ ask' = [ask EXCEPT ![r] = [pc |-> "load", entity |-> e, asOf |-> asOf]]
          /\ UNCHANGED answers
    /\ UNCHANGED <<today, due, found, profiles>>

\* Mutant: the signals of the entity, of whatever day.
LoadedAny(e, asOf) == {s \in found : e \in s.finding.of}

\* The SELECT of calculate_..._risk.
Loaded(e, asOf) == SignalsOf(e, asOf)

Load(r) ==
    /\ ask[r].pc = "load"
    /\ ask' = [ask EXCEPT ![r] = [pc |-> "look", entity |-> ask[r].entity, asOf |-> ask[r].asOf,
                                  made |-> today,
                                  signals |-> Loaded(ask[r].entity, ask[r].asOf)]]
    /\ UNCHANGED <<today, due, found, profiles, answers, asks>>

\* _persist_profile: a row of the same fingerprint (entity, day and signals), or
\* of the same entity and day, is returned as it is.
Look(r) ==
    LET rows == Stored(ask[r].entity, ask[r].asOf)
    IN  /\ ask[r].pc = "look"
        /\ \/ rows # {} /\ Answer(r, rows)
           \/ rows = {} /\ ask' = [ask EXCEPT ![r].pc = "insert"] /\ UNCHANGED answers
        /\ UNCHANGED <<today, due, found, profiles, asks>>

Profile(r) ==
    LET score == Score(Views(ask[r].signals), ask[r].asOf)
    IN  [entity |-> ask[r].entity, asOf |-> ask[r].asOf, signals |-> ask[r].signals,
         score |-> score, band |-> Band(score), made |-> ask[r].made]

\* Mutant: the constraint on the fingerprint alone.
ConflictsByFingerprint(r) ==
    \E p \in Stored(ask[r].entity, ask[r].asOf) : p.signals = ask[r].signals

\* uq_risk_profiles_tenant_entity_version_as_of, and the one on the fingerprint
\* that it implies.
Conflicts(r) == Stored(ask[r].entity, ask[r].asOf) # {}

\* The INSERT and its commit; the unique violation goes to the client as an error.
Insert(r) ==
    /\ ask[r].pc = "insert"
    /\ \/ Conflicts(r) /\ ask' = [ask EXCEPT ![r] = Quiet] /\ UNCHANGED <<profiles, answers>>
       \/ ~Conflicts(r) /\ profiles' = profiles \union {Profile(r)} /\ Answer(r, {Profile(r)})
    /\ UNCHANGED <<today, due, found, asks>>

RiskNext ==
    \/ Tick
    \/ \E f \in Findings : Detect(f)
    \/ \E s \in due : CommitSignal(s) \/ DropSignal(s)
    \/ \E r \in Askers, e \in Entities, d \in Days : Ask(r, e, d)
    \/ \E r \in Askers : Load(r) \/ Look(r) \/ Insert(r)

RiskSpec == RiskInit /\ [][RiskNext]_riskVars

-----------------------------------------------------------------------------
(* Properties.                                                             *)

\* "Historical rows are never overwritten": whoever asks for an entity at a day is
\* told the same, however many ask at once and whatever is detected meanwhile.
AnswersAgree ==
    \A p, q \in answers : p.entity = q.entity /\ p.asOf = q.asOf => p = q

\* "Only signals with detected_at <= as_of are included": a profile holds no signal of
\* a later day, and calculating it again would never give less.  One of a day that had
\* passed when it was loaded misses a signal of that day only if the signal was
\* committed after it, on a later day than the one it was found on.
ProfileIsPointInTime ==
    \A p \in profiles :
        LET there == SignalsOf(p.entity, p.asOf)
        IN  /\ p.signals \subseteq there
            /\ p.score <= Score(Views(there), p.asOf)
            /\ p.asOf < p.made => \A s \in there \ p.signals : s.day < s.seen /\ p.made <= s.seen

\* What was said of a day stands: whoever asks gets it, and it is what the signals of
\* that day give, with nothing but late commits left out.
ProfilesStand == RiskTypeOK /\ AnswersAgree /\ ProfileIsPointInTime

=============================================================================
