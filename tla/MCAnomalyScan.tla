---------------------------- MODULE MCAnomalyScan ----------------------------
(***************************************************************************)
(* A small instance of AnomalyScan for TLC: two invoices and two vendors,  *)
(* one of which may be recorded while a scan goes on.  The signals of the  *)
(* invoices and of the vendors are the same two in opposite orders, so     *)
(* that an invoice loop and a vendor loop want each other's.               *)
(***************************************************************************)
EXTENDS AnomalyScan, TLC

MCInitially == [invoice |-> {1, 2}, vendor |-> {2}]

MCSignals == [invoice |-> <<{"spike1"}, {"spike2"}>>,
              vendor  |-> <<{"spike2"}, {"spike1"}>>]
MCDetects == [k \in Kinds |-> [i \in Ids |-> MCSignals[k][i]]]

=============================================================================
