----------------------------- MODULE MCPayment -----------------------------
(***************************************************************************)
(* TLC instance of Payment: two invoices and two addresses; 32 is for 2^63. *)
(***************************************************************************)
EXTENDS Payment, TLC

CONSTANTS i1, i2, a1, a2

PaymentSeals ==
  {Funding} \cup {<<"witness", a>> : a \in Addresses} \cup {<<"utxo", i>> : i \in Invoices}

InvoiceAmounts == {1, 2, 34}
RandomParts == {0, 1}
RealUtxos == {<<"utxo", i>> : i \in Invoices}
Symmetry == {f @@ g : f \in Permutations(Addresses), g \in Permutations(Invoices)}
=============================================================================
