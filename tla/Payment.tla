------------------------------ MODULE Payment ------------------------------
(***************************************************************************)
(* A payment from the invoice to the recipient's balance: invoice.rs,      *)
(* signature_utils.rs, the parameters call_method sends (executor.rs), the *)
(* contract, finality, and the queries of the recipient.                   *)
(*                                                                         *)
(* The payee generates an invoice; the payer parses it, signs the transfer *)
(* to the invoice's witness id and calls the contract, and calls again     *)
(* with the same signed parameters when a call failed; the payee claims    *)
(* the witness balance for the real UTXO, again until a call returns.  A   *)
(* failed call's deploy may be evaluated later, beside its retry.          *)
(*                                                                         *)
(* The contract is TokenLedger, which Rho20 implements for calls made one  *)
(* at a time in the order of a wallet.  The wallet is not code of this     *)
(* repository: a fresh address for each invoice, a real UTXO of its own    *)
(* for each claim and one signed nonce for all attempts are assumed of it. *)
(***************************************************************************)
EXTENDS Queries, FiniteSets

CONSTANTS
  Invoices,       \* invoices the payee generates
  Addresses,      \* his Bitcoin addresses, a new one for each invoice
  Funding,        \* the payer's UTXO
  Payer, Payee,   \* their keys
  Nobody,         \* a signature that verifies for no key of the contract
  Deployer,
  Unallocated,
  TotalSupply,
  Half,           \* 2^63: an i64 is in -Half..(Half - 1), a u64 below 2 * Half
  Amounts,        \* amounts invoices ask for
  NonceBase,      \* 100000, above every 16-bit random number
  Randoms,        \* the random parts drawn
  MaxSecond,      \* bound: clock readings
  MaxFailures     \* bound: calls that fail for their caller

ASSUME WidthAssumption == Half \in Nat \ {0} /\ Amounts \subseteq 0..(2 * Half - 1)
ASSUME SupplyAssumption == TotalSupply \in 1..(2 * Half - 1)
ASSUME NonceAssumption ==
  /\ NonceBase \in Nat \ {0} /\ Randoms \subseteq 0..(NonceBase - 1)
  /\ MaxSecond \in Nat /\ (MaxSecond + 1) * NonceBase < Half
ASSUME KeyAssumption == {Payer, Payee, Deployer} \subseteq Keys /\ Nobody \notin Keys \cup {NoOwner}
ASSUME FailureAssumption == MaxFailures \in Nat
\* The payer pays from an output that is none of the payee's.
ASSUME SealAssumption ==
  /\ {Funding} \cup {<<"witness", a>> : a \in Addresses} \cup {<<"utxo", i>> : i \in Invoices}
       \subseteq Seals
  /\ \A a \in Addresses : Funding # <<"witness", a>>
  /\ \A i \in Invoices : Funding # <<"utxo", i>>
  /\ Unallocated \notin Seals

Attempts == 1..(MaxFailures + 1)
Genesis == [kind |-> "issue"]
Deploys ==
  {Genesis} \cup [kind : {"transfer", "claim"}, invoice : Invoices, attempt : Attempts]

VARIABLES
  registered,   \* the contract's deploy is evaluated
  balances, owners, usedNonces, outcome,   \* the ledger and its answers
  invoice,      \* the invoices generated
  signed,       \* the transfer the payer signed for each
  sent,         \* deploys the node has
  waiting,      \* the deploy each party's call waits for
  returned,     \* deploys whose call returned
  asked,        \* history: `returned` when the query was made
  second        \* the clock

L == INSTANCE TokenLedger WITH
       Nonces <- Int, Requests <- {}, Calls <- Deploys, answer <- outcome

ledger == <<balances, owners, usedNonces, outcome>>
shard == <<registered, ledger, final>>
wallets == <<invoice, signed, sent, waiting, returned>>
vars == <<shard, wallets, second, asked, queryVars>>

Parties == {"payer", "payee"}
Nothing == [kind |-> "nothing"]

----------------------------------------------------------------------------
(* A new address for each invoice.  The nonce and the seal, which is the   *)
(* first output whatever the nonce, play no part here.                     *)
GenerateInvoice(i, amount, address) ==
  /\ invoice[i] = Nothing
  /\ amount # 0
  /\ \A j \in Invoices : invoice[j] # Nothing => invoice[j].address # address
  /\ invoice' = [invoice EXCEPT ![i] =
       [kind |-> "invoice", amount |-> amount, address |-> address]]
  /\ UNCHANGED <<shard, signed, sent, waiting, returned, second>>

\* Mutant: the amount is cast to a narrower integer on the way.
ParsedNarrow(n) == n % Half
\* parse_invoice: the decimal text of the number, parsed as u64.
ParsedAmount(n) == n

\* Mutant: every first output is one witness id.
SharedWitness(i) == <<"witness", CHOOSE a \in Addresses : TRUE>>
\* The wallet's names for the output, which holds address and vout, and for
\* the UTXO it becomes.
WitnessId(i) == <<"witness", invoice[i].address>>
RealUtxo(i) == <<"utxo", i>>

----------------------------------------------------------------------------
\* Mutant: numbers are signed as an integer of fewer bits.
AsNarrow(n) == IF n < Half \div 16 THEN n ELSE n - Half
\* `as i64`
AsI64(n) == IF n < Half THEN n ELSE n - 2 * Half

NonceOf(sec, random) == sec * NonceBase + random

(* parse_invoice and generate_transfer_signature, with a nonce drawn at    *)
(* the second sec.  What is signed once is sent at every attempt.          *)
Sign(i, sec, random) ==
  /\ invoice[i] # Nothing /\ signed[i] = Nothing
  /\ second' = sec
  /\ signed' = [signed EXCEPT ![i] =
       [kind |-> "transfer", amount |-> ParsedAmount(invoice[i].amount),
        nonce |-> NonceOf(sec, random)]]
  /\ UNCHANGED <<shard, invoice, sent, waiting, returned>>

Call(party, d) ==
  /\ waiting[party] = Nothing
  /\ d \notin sent
  /\ sent' = sent \cup {d}
  /\ waiting' = [waiting EXCEPT ![party] = d]
  /\ UNCHANGED <<shard, invoice, signed, returned, second>>

Paid(d) == \E e \in returned : e.kind = d.kind /\ e.invoice = d.invoice
InTurn(d) == \A n \in 1..(d.attempt - 1) : [d EXCEPT !.attempt = n] \in sent

Issue == registered /\ Call("payer", Genesis)

(* The payer calls transfer until a call of hers returned. *)
Transfer(d) ==
  /\ d.kind = "transfer"
  /\ Genesis \in returned
  /\ signed[d.invoice] # Nothing
  /\ InTurn(d) /\ ~Paid(d)
  /\ Call("payer", d)

(* The payee accepted the payer's consignment, which she packs from the    *)
(* result of a call.                                                       *)
Claim(d) ==
  /\ d.kind = "claim"
  /\ known
  /\ \E e \in returned : e.kind = "transfer" /\ e.invoice = d.invoice
  /\ InTurn(d) /\ ~Paid(d)
  /\ Call("payee", d)

\* Mutant: call_method returns once the deploy is in a block.
WithoutFinality(d) == outcome[d] # "none"
Final(d) == d \in final.calls

(* call_method returns Ok, whatever the contract answered ... *)
Return(party) ==
  /\ waiting[party] # Nothing
  /\ Final(waiting[party])
  /\ returned' = returned \cup {waiting[party]}
  /\ waiting' = [waiting EXCEPT ![party] = Nothing]
  /\ UNCHANGED <<shard, invoice, signed, sent, second>>

Failures == sent \ (returned \cup {waiting[p] : p \in Parties})

(* ... or fails, and the deploy stays with the node. *)
Fail(party) ==
  /\ waiting[party] # Nothing
  /\ Cardinality(Failures) < MaxFailures
  /\ waiting' = [waiting EXCEPT ![party] = Nothing]
  /\ UNCHANGED <<shard, invoice, signed, sent, returned, second>>

----------------------------------------------------------------------------
(* The parameters as the contract gets them: a number's decimal text is an *)
(* Int of 64 bits.  The signature verifies for the signer's key if the     *)
(* numbers signed are those sent.                                          *)
FitsInt(n) == n < Half

Signer(i) ==
  IF AsI64(signed[i].amount) = signed[i].amount /\ AsI64(signed[i].nonce) = signed[i].nonce
  THEN Payer ELSE Nobody

Request(d) ==
  CASE d.kind = "issue" ->
         [method |-> "issue", from |-> Unallocated, to |-> Funding, amount |-> TotalSupply,
          key |-> Payer, nonce |-> 0, signer |-> Deployer]
    [] d.kind = "transfer" ->
         [method |-> "transfer", from |-> Funding, to |-> WitnessId(d.invoice),
          amount |-> signed[d.invoice].amount, key |-> Payee,
          nonce |-> signed[d.invoice].nonce, signer |-> Signer(d.invoice)]
    [] d.kind = "claim" ->
         [method |-> "claim", from |-> WitnessId(d.invoice), to |-> RealUtxo(d.invoice),
          amount |-> 0, key |-> Payee, nonce |-> 0, signer |-> Payee]

Parses(d) == d.kind = "transfer" => FitsInt(signed[d.invoice].amount)

(* The shard evaluates a deploy; one with a number that is no Int does not *)
(* parse and changes nothing.                                              *)
Evaluate(d) ==
  /\ outcome[d] = "none"
  /\ IF Parses(d)
     THEN LET r == Request(d) IN
          L!Pay(d, r) \/ L!Claim(d, r) \/ L!Short(d, r) \/ L!Refuse(d, r)
     ELSE L!Answer(d, "unparsable") /\ UNCHANGED <<balances, owners, usedNonces>>
  /\ UNCHANGED <<registered, final, wallets, second>>

(* The contract's own deploy, whose text holds the supply. *)
Land ==
  /\ ~registered
  /\ FitsInt(TotalSupply)
  /\ registered' = TRUE
  /\ UNCHANGED <<ledger, final, wallets, second>>

Snapshot ==
  [registered |-> registered, balances |-> balances, owners |-> owners,
   calls |-> {d \in sent : outcome[d] # "none"}]

(* Everything evaluated so far becomes final. *)
Finalize ==
  /\ final # Snapshot
  /\ final' = Snapshot
  /\ UNCHANGED <<registered, ledger, wallets, second>>

----------------------------------------------------------------------------
Init ==
  /\ registered = FALSE
  /\ L!Init
  /\ invoice = [i \in Invoices |-> Nothing]
  /\ signed = [i \in Invoices |-> Nothing]
  /\ sent = {} /\ returned = {} /\ asked = {}
  /\ waiting = [p \in Parties |-> Nothing]
  /\ second = 0
  /\ final = Snapshot
  /\ known = FALSE
  /\ query = NoQuery /\ result = Error

Move ==
  \/ \E i \in Invoices, amount \in Amounts, a \in Addresses : GenerateInvoice(i, amount, a)
  \/ \E i \in Invoices, random \in Randoms :
       \E sec \in second..MaxSecond : Sign(i, sec, random)
  \/ Issue
  \/ \E d \in Deploys \ {Genesis} : Transfer(d) \/ Claim(d)
  \/ \E p \in Parties : Return(p) \/ Fail(p)
  \/ \E d \in sent : Evaluate(d)
  \/ Land \/ Finalize

Read ==
  \/ \E q \in Query : Ask(q) /\ asked' = returned
  \/ (NodeReplies \/ NodeFails) /\ asked' = {}
  \/ Register /\ UNCHANGED asked

Next ==
  \/ Move /\ UNCHANGED <<queryVars, asked>>
  \/ Read /\ UNCHANGED <<shard, wallets, second>>

Spec == Init /\ [][Next]_vars

----------------------------------------------------------------------------
Received(i) == balances[WitnessId(i)] + balances[RealUtxo(i)]

(* However often the payer repeats a call, however late its deploys are    *)
(* evaluated and whatever widths its numbers pass through, an invoice is   *)
(* paid at most once and with the amount it asks for; and it is paid if a  *)
(* transfer of it succeeded.                                               *)
PaidAsInvoiced ==
  \A i \in Invoices : invoice[i] # Nothing =>
    /\ Received(i) \in {0, invoice[i].amount}
    /\ (\E d \in sent : d.kind = "transfer" /\ d.invoice = i /\ outcome[d] = "succeeded")
         => Received(i) = invoice[i].amount

(* A claim that finds tokens at the witness id finds none at the real      *)
(* UTXO, whose entry it replaces (rho20_contract.rho:434): retried and     *)
(* late claims lose nothing.                                               *)
ClaimsFindEmptyUtxo ==
  \A d \in sent : d.kind = "claim" /\ outcome[d] = "none" =>
    balances[WitnessId(d.invoice)] = 0 \/ balances[RealUtxo(d.invoice)] = 0

(* A payer's transfer is refused only as a replay, by another deploy that  *)
(* used its nonce, never for its signature.  The other deploy is a retry,  *)
(* or, against what the nonce is documented to be, a transfer of another   *)
(* invoice (RefusedOnlyAsRetry).                                           *)
RefusedOnlyAsReplay ==
  \A d \in sent : d.kind = "transfer" /\ outcome[d] = "rejected" =>
    \E e \in sent \ {d} :
      /\ e.kind = "transfer" /\ outcome[e] \in {"succeeded", "insufficient"}
      /\ signed[e.invoice].nonce = signed[d.invoice].nonce

(* signature_utils.rs:281, "A unique 64-bit nonce value": a transfer is    *)
(* refused only if another attempt at the same payment was accepted.       *)
RefusedOnlyAsRetry ==
  \A d \in sent : d.kind = "transfer" /\ outcome[d] = "rejected" =>
    \E e \in sent \ {d} :
      /\ e.kind = "transfer" /\ e.invoice = d.invoice
      /\ outcome[e] \in {"succeeded", "insufficient"}

(* Once a claim that succeeded has returned, the payee reads the amount of *)
(* the invoice at the real UTXO, or an error.                              *)
ClaimedIsRead ==
  [][query # NoQuery /\ query' = NoQuery /\ query.call = "balance" /\ result' # Error =>
       \A d \in asked :
         d.kind = "claim" /\ outcome[d] = "succeeded" /\ query.seal = RealUtxo(d.invoice)
           => result' = Number(invoice[d.invoice].amount)]_vars
=============================================================================
