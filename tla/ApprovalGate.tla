---------------------------- MODULE ApprovalGate ----------------------------
(***************************************************************************)
(* What approval and execution promise about the workflow records:         *)
(* "only an authorized human decision unlocks execution"                   *)
(* (docs/M8_AGENTIC_RESOLUTION.md), and one action has one side effect.    *)
(***************************************************************************)

VARIABLES authorized,       \* the proposed actions a person approved
          done              \* the proposed actions whose workflow record exists

gateVars == <<authorized, done>>

GateInit == authorized = {} /\ done = {}

Authorize ==
    /\ \E a \in authorized' : authorized' = authorized \union {a}
    /\ UNCHANGED done

Perform(a) ==
    /\ a \notin done
    /\ done' = done \union {a}
    /\ UNCHANGED authorized

GateNext == Authorize \/ \E a \in authorized : Perform(a)

GateSpec == GateInit /\ [][GateNext]_gateVars

=============================================================================
