------------------------------ MODULE RiskScore ------------------------------
(***************************************************************************)
(* The risk score (app/risk/scoring.py, contracts.py): a sum of what the   *)
(* signals of an entity weigh, capped per type, scaled to 0 .. 100.        *)
(*                                                                         *)
(* A signal is a record [type, severity, day, of]: `day' it was detected,  *)
(* `of' the vendor, invoice and order it is about.  Contributions are in   *)
(* sixteenths: severity and recency multipliers are quarters.              *)
(***************************************************************************)
EXTENDS Integers, FiniteSets, FiniteSetsExt

CONSTANTS
    Weight,         \* type -> weight
    Cap,            \* type -> cap
    RecencyDays,    \* [full, high, mid]: upper bounds in days
    BandMin         \* [MEDIUM, HIGH, CRITICAL]: least score of a band

Types == DOMAIN Weight

SeverityQuarters == [LOW |-> 1, MEDIUM |-> 2, HIGH |-> 3, CRITICAL |-> 4]

ASSUME RiskAssumption ==
    /\ Types # {} /\ IsFiniteSet(Types) /\ DOMAIN Cap = Types
    /\ \A t \in Types : Weight[t] \in Nat /\ Cap[t] \in Nat
    /\ \E t \in Types : Cap[t] > 0
    /\ DOMAIN RecencyDays = {"full", "high", "mid"}
    /\ \A k \in DOMAIN RecencyDays : RecencyDays[k] \in Nat
    /\ DOMAIN BandMin = {"MEDIUM", "HIGH", "CRITICAL"}
    /\ \A b \in DOMAIN BandMin : BandMin[b] \in 0..100

\* Whole days, and none for a signal of a later day.
DaysSince(day, asOf) == IF day > asOf THEN 0 ELSE asOf - day

RecencyQuarters(days) ==
    IF days <= RecencyDays.full THEN 4
    ELSE IF days <= RecencyDays.high THEN 3
    ELSE IF days <= RecencyDays.mid THEN 2 ELSE 1

Contribution(s, asOf) ==
    Weight[s.type] * SeverityQuarters[s.severity] * RecencyQuarters(DaysSince(s.day, asOf))

\* compute_type_breakdown: the capped sum of one type.
OfType(type, signals, asOf) ==
    LET sum == MapThenSumSet(LAMBDA s : Contribution(s, asOf), {s \in signals : s.type = type})
    IN  Min({sum, 16 * Cap[type]})

MaxAggregate == MapThenSumSet(LAMBDA t : Cap[t], Types)

\* normalize_score: half a point rounds up.
Normalized(aggregate) ==
    Min({100, (200 * aggregate + 16 * MaxAggregate) \div (32 * MaxAggregate)})

Score(signals, asOf) ==
    Normalized(MapThenSumSet(LAMBDA t : OfType(t, signals, asOf), {s.type : s \in signals}))

Band(score) ==
    CASE score >= BandMin.CRITICAL -> "CRITICAL"
      [] score < BandMin.CRITICAL /\ score >= BandMin.HIGH -> "HIGH"
      [] score < BandMin.CRITICAL /\ score < BandMin.HIGH /\ score >= BandMin.MEDIUM -> "MEDIUM"
      [] OTHER -> "LOW"

=============================================================================
