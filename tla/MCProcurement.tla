---------------------------- MODULE MCProcurement ----------------------------
(***************************************************************************)
(* A small instance of Procurement for TLC: one vendor, an order of two    *)
(* lines, receipts of a part, of the rest and of a line by its number, and *)
(* invoices that match, bill too much, too dear or too early, repeat a     *)
(* number or name no order.                                                *)
(***************************************************************************)
EXTENDS Procurement, TLC

MCNormal == "INV 1" :> "inv-1" @@ "inv-1" :> "inv-1" @@ "INV-2" :> "inv-2" @@ "INV-3" :> "inv-3"
MCPercent == [LOW |-> 5, MEDIUM |-> 10, HIGH |-> 25, CRITICAL |-> 50]
MCSpikeRatio == [MEDIUM |-> 2, HIGH |-> 3, CRITICAL |-> 5]
MCMismatchRate == [MEDIUM |-> 30, HIGH |-> 50, CRITICAL |-> 75]

ordered(id, number, quantity, price) ==
    [id |-> id, number |-> number, quantity |-> quantity, price |-> price, tax |-> 5]
received(id, number, ref, quantity) ==
    [id |-> id, number |-> number, ref |-> ref, quantity |-> quantity]
billed(id, number, ref, quantity, price, tax) ==
    [id |-> id, number |-> number, ref |-> ref, quantity |-> quantity, price |-> price, tax |-> tax]

MCOrders ==
    {[id |-> 1, vendor |-> "acme", date |-> 40,
      lines |-> {ordered(11, 1, 4, 10), ordered(12, 2, 2, 0)}],
     [id |-> 2, vendor |-> "acme", date |-> 40, lines |-> {ordered(13, 1, 1, 10)}]}

MCReceipts ==
    {[id |-> 1, order |-> 1, date |-> 41, lines |-> {received(21, 1, 11, 1)}],
     [id |-> 2, order |-> 1, date |-> 42,
      lines |-> {received(22, 1, NoRef, 2), received(23, 2, 12, 2)}]}

MCInvoices ==
    {[id |-> 1, vendor |-> "acme", number |-> "INV 1", order |-> 1, date |-> 40, total |-> 20,
      lines |-> {billed(31, 1, 11, 1, 10, 5), billed(32, 2, 11, 1, 10, 5)}],
     [id |-> 2, vendor |-> "acme", number |-> "inv-1", order |-> 1, date |-> 39, total |-> 80,
      lines |-> {billed(33, 1, NoRef, 4, 10, 5), billed(34, 2, 12, 2, 5, 0)}],
     [id |-> 3, vendor |-> "acme", number |-> "INV-3", order |-> NoRef, date |-> 39, total |-> 5,
      lines |-> {billed(35, 3, NoRef, 1, 5, 5)}]}

Strict == [quantity |-> 0, price |-> 0, tax |-> 0]
MCConfigs == {Strict}

MCSymmetry == Permutations(Reconcilers)

=============================================================================
