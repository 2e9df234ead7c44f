--------------------------- MODULE PaymentProofs ---------------------------
(***************************************************************************)
(* Theorems about Payment and the queries of its reader, for every set of  *)
(* invoices, seals and keys and every bound.                               *)
(***************************************************************************)
EXTENDS Payment, TLAPS

(* convert_rholang_to_json leaves an owner a string and a balance a number. *)
LEMMA ParsedAnswer ==
  ASSUME NEW q \in Query, NEW state, NEW reply \in {Answer(q, state), Tuple(Answer(q, state))}
  PROVE  /\ q.method = "balanceOf" => Parsed(reply) = Number(state.balances[q.seal])
         /\ q.method = "ownerOf" => Parsed(reply) = String(state.owners[q.seal])
<1>1. CASE q.method = "balanceOf"
  BY <1>1 DEF Answer, Parsed, Json, IntExpr, Tuple, Number
<1>2. CASE q.method = "ownerOf"
  BY <1>2 DEF Answer, Parsed, Json, StringExpr, Tuple, String
<1> QED
  BY <1>1, <1>2

(* Without the contract, and without the node, nothing is answered. *)
LEMMA NoAnswerIsError ==
  ASSUME NEW reply \in {NoExpr, Nil, Failed}
  PROVE  Balance(Parsed(reply)) = Error /\ Owner(Parsed(reply)) = Error
<1>1. Parsed(reply) = Error
  BY DEF Parsed, NoExpr, Nil, Failed, Error
<1> QED
  BY <1>1 DEF Balance, Owner, Error

(* What one answer says. *)
Truthful(q, state, res) ==
  res # Error =>
    /\ q.call = "balance" => state.registered /\ res = Number(state.balances[q.seal])
    /\ q.call = "owner_of" => state.registered /\ res = String(state.owners[q.seal])

LEMMA RepliesTruthful ==
  ASSUME NEW q \in Query, NEW state, NEW reply \in Replies(q, state) \cup {Failed}
  PROVE  Truthful(q, state, Result(q, reply))
<1>1. q.call = "balance" => q.method = "balanceOf"
  BY DEF Query
<1>2. q.call = "owner_of" => q.method = "ownerOf"
  BY DEF Query
<1>3. CASE reply \in {NoExpr, Nil, Failed}
  BY <1>3, NoAnswerIsError DEF Truthful, Result
<1>4. CASE reply \notin {NoExpr, Nil, Failed}
  <2>1. /\ state.registered
        /\ reply \in {Answer(q, state), Tuple(Answer(q, state))}
    BY <1>4 DEF Replies
  <2>2. CASE q.call = "balance"
    <3>1. Parsed(reply) = Number(state.balances[q.seal])
      BY <1>1, <2>1, <2>2, ParsedAnswer
    <3>2. Result(q, reply) \in {Parsed(reply), Error}
      BY <2>2 DEF Result, Balance
    <3> QED
      BY <2>1, <2>2, <3>1, <3>2 DEF Truthful
  <2>3. CASE q.call = "owner_of"
    <3>1. Parsed(reply) = String(state.owners[q.seal])
      BY <1>2, <2>1, <2>3, ParsedAnswer
    <3>2. Result(q, reply) = Parsed(reply)
      BY <2>3, <3>1 DEF Result, Owner, String
    <3> QED
      BY <2>1, <2>3, <3>1, <3>2 DEF Truthful
  <2> QED
    BY <2>2, <2>3 DEF Truthful
<1> QED
  BY <1>3, <1>4

QueryType == query \in Query \cup {NoQuery}

LEMMA InitQueryType == Init => QueryType
  BY DEF Init, QueryType

LEMMA NextQueryType == QueryType /\ [Next]_vars => QueryType'
  BY DEF QueryType, Next, Read, Move, Ask, NodeReplies, NodeFails, Answered, Register,
         queryVars, vars

LEMMA AnswerStep ==
  ASSUME QueryType, [Next]_vars, query # NoQuery, query' = NoQuery
  PROVE  Truthful(query, final, result')
<1>1. query \in Query
  BY DEF QueryType
<1>2. \E reply \in Replies(query, final) \cup {Failed} : result' = Result(query, reply)
  BY DEF Next, Read, Move, Ask, NodeReplies, NodeFails, Answered, Register, queryVars, vars
<1> QED
  BY <1>1, <1>2, RepliesTruthful

(* executor.rs:1195-1265, contract.rs:306-388: whatever state the shard is *)
(* in and whatever the node replies, balance and owner_of say what is true *)
(* of the finalized state, or fail.                                        *)
THEOREM QueriesAnswerTruly == Spec => AnswersTrue
<1>1. QueryType /\ [Next]_vars =>
        [query # NoQuery /\ query' = NoQuery /\ result' # Error =>
           /\ query.call = "balance" =>
                final.registered /\ result' = Number(final.balances[query.seal])
           /\ query.call = "owner_of" =>
                final.registered /\ result' = String(final.owners[query.seal])]_<<query, result>>
  BY AnswerStep DEF Truthful
<1>2. Spec => []QueryType
  BY InitQueryType, NextQueryType, PTL DEF Spec
<1> QED
  BY <1>1, <1>2, PTL DEF Spec, AnswersTrue

----------------------------------------------------------------------------
(* The inductive invariant of the payment, part by part.                   *)

Outcomes == {"none", "succeeded", "insufficient", "rejected", "unparsable"}

(* Where the contract keeps the nonces of the issue and of the payer.      *)
IssueStore == <<"issue", Unallocated>>
FundingStore == <<"transfer", Funding>>

TypesOK ==
  /\ invoice \in [Invoices ->
       {Nothing} \cup [kind : {"invoice"}, amount : 1..(2 * Half - 1), address : Addresses]]
  /\ signed \in [Invoices ->
       {Nothing} \cup [kind : {"transfer"}, amount : 1..(2 * Half - 1), nonce : 0..(Half - 1)]]
  /\ second \in 0..MaxSecond
  /\ balances \in [L!Accounts -> Nat]
  /\ owners \in [L!Accounts -> Keys \cup {NoOwner}]
  /\ usedNonces \in [L!Stores -> SUBSET Int]
  /\ outcome \in [Deploys -> Outcomes]
  /\ sent \subseteq Deploys
  /\ waiting \in [Parties -> sent \cup {Nothing}]

(* Who knows what: an invoice has an address of its own, a transfer is     *)
(* signed for the amount of its invoice, nothing but the issue is sent     *)
(* before the issue returned or without a signed transfer, and a call that *)
(* returned saw its deploy final.                                          *)
WalletsInv ==
  /\ \A i, j \in Invoices :
       invoice[i] # Nothing /\ invoice[j] # Nothing /\ invoice[i].address = invoice[j].address
         => i = j
  /\ \A i \in Invoices : signed[i] # Nothing =>
       invoice[i] # Nothing /\ signed[i].amount = invoice[i].amount
  /\ \A d \in sent \ {Genesis} : signed[d.invoice] # Nothing /\ Genesis \in returned
  /\ \A d \in Deploys : outcome[d] # "none" => d \in sent
  /\ asked \subseteq returned
  /\ returned \subseteq final.calls
  /\ final.calls \subseteq {d \in sent : outcome[d] # "none"}

(* The issue succeeds when it is evaluated, and makes the payer the owner  *)
(* of the funding UTXO for good.                                           *)
IssueInv ==
  IF outcome[Genesis] = "none"
  THEN balances[Unallocated] = TotalSupply /\ usedNonces[IssueStore] = {}
  ELSE owners[Funding] = Payer

Done(kind, i) == \E d \in sent : d.kind = kind /\ d.invoice = i /\ outcome[d] = "succeeded"

(* The tokens of an invoice are nowhere before a transfer of it succeeded, *)
(* then at the witness id, and with a claim at the real UTXO.              *)
Arrived(i) ==
  LET amount == invoice[i].amount
      atWitness == balances[WitnessId(i)]
      atUtxo == balances[RealUtxo(i)]
  IN  /\ ~Done("transfer", i) => atWitness = 0 /\ atUtxo = 0
      /\ Done("transfer", i) =>
           /\ signed[i].nonce \in usedNonces[FundingStore]
           /\ \/ atWitness = amount /\ atUtxo = 0
              \/ atWitness = 0 /\ atUtxo = amount
      /\ Done("claim", i) => atUtxo = amount

TokensInv ==
  /\ \A i \in Invoices :
       IF invoice[i] = Nothing THEN balances[RealUtxo(i)] = 0 ELSE Arrived(i)
  /\ \A a \in Addresses :
       (\A i \in Invoices : invoice[i] # Nothing => invoice[i].address # a)
         => balances[<<"witness", a>>] = 0

(* Each nonce used at the funding UTXO is that of a transfer that used it. *)
Consumes(d, n) ==
  /\ d.kind = "transfer" /\ outcome[d] \in {"succeeded", "insufficient"}
  /\ signed[d.invoice].nonce = n

NoncesInv ==
  /\ \A n \in usedNonces[FundingStore] : \E d \in sent : Consumes(d, n)
  /\ RefusedOnlyAsReplay

(* What is final of a claim that succeeded.                                *)
FinalInv ==
  \A d \in final.calls : d.kind = "claim" /\ outcome[d] = "succeeded" =>
    final.balances[RealUtxo(d.invoice)] = invoice[d.invoice].amount

PaymentInv ==
  TypesOK /\ WalletsInv /\ IssueInv /\ TokensInv /\ NoncesInv /\ FinalInv

----------------------------------------------------------------------------
(* Lemmas about the constants and the deploys.                             *)

LEMMA SealFacts ==
  /\ Funding \in Seals /\ Unallocated \notin Seals
  /\ \A s \in Seals : s \in L!Accounts
  /\ Unallocated \in L!Accounts
  /\ {IssueStore, FundingStore} \subseteq L!Stores /\ IssueStore # FundingStore
  /\ \A i \in Invoices : RealUtxo(i) \in Seals /\ RealUtxo(i) # Funding
  /\ \A a \in Addresses : <<"witness", a>> \in Seals /\ <<"witness", a>> # Funding
  /\ \A i \in Invoices, a \in Addresses : RealUtxo(i) # <<"witness", a>>
  /\ \A i, j \in Invoices : RealUtxo(i) = RealUtxo(j) => i = j
  /\ \A a, b \in Addresses : <<"witness", a>> = <<"witness", b>> => a = b
  BY SealAssumption DEF RealUtxo, L!Accounts, L!Stores, IssueStore, FundingStore

LEMMA DeployKinds ==
  /\ Genesis \in Deploys /\ Genesis.kind = "issue"
  /\ \A d \in Deploys : d # Genesis => d.kind \in {"transfer", "claim"} /\ d.invoice \in Invoices
  /\ \A d \in Deploys : d.kind \in {"transfer", "claim"} => d # Genesis
  BY DEF Deploys, Genesis

(* A signed amount that the contract parses passes the casts unharmed, and *)
(* a nonce always does: the signature verifies for the payer's key.        *)
LEMMA SignatureVerifies ==
  ASSUME TypesOK, NEW i \in Invoices, signed[i] # Nothing, FitsInt(signed[i].amount)
  PROVE  Signer(i) = Payer
<1>1. /\ signed[i].amount \in Nat /\ signed[i].amount < Half
      /\ signed[i].nonce \in Nat /\ signed[i].nonce < Half
  BY WidthAssumption DEF TypesOK, FitsInt
<1> QED
  BY <1>1 DEF Signer, AsI64

(* What evaluating a deploy does to the ledger. *)
Spent(store, nonce) == usedNonces' = [usedNonces EXCEPT ![store] = @ \cup {nonce}]

IssueEffect ==
  /\ outcome[Genesis] = "none"
  /\ L!Move(Unallocated, Funding, TotalSupply)
  /\ owners' = [owners EXCEPT ![Funding] = Payer]
  /\ Spent(IssueStore, 0)
  /\ outcome' = [outcome EXCEPT ![Genesis] = "succeeded"]

TransferEffect(d) ==
  LET t == signed[d.invoice] IN
  /\ outcome[d] = "none"
  /\ \/ /\ t.amount <= balances[Funding]
        /\ t.nonce \notin usedNonces[FundingStore]
        /\ L!Move(Funding, WitnessId(d.invoice), t.amount)
        /\ owners' = [owners EXCEPT ![WitnessId(d.invoice)] = Payee]
        /\ Spent(FundingStore, t.nonce)
        /\ outcome' = [outcome EXCEPT ![d] = "succeeded"]
     \/ /\ Spent(FundingStore, t.nonce)
        /\ outcome' = [outcome EXCEPT ![d] = "insufficient"]
        /\ UNCHANGED <<balances, owners>>
     \/ /\ t.nonce \in usedNonces[FundingStore]
        /\ outcome' = [outcome EXCEPT ![d] = "rejected"]
        /\ UNCHANGED <<balances, owners, usedNonces>>
     \/ /\ outcome' = [outcome EXCEPT ![d] = "unparsable"]
        /\ UNCHANGED <<balances, owners, usedNonces>>

ClaimEffect(d) ==
  LET w == WitnessId(d.invoice) IN
  /\ outcome[d] = "none"
  /\ UNCHANGED usedNonces
  /\ \/ /\ balances[w] > 0
        /\ L!Move(w, RealUtxo(d.invoice), balances[w])
        /\ owners' = [a \in L!Accounts |->
             IF a = RealUtxo(d.invoice) THEN Payee ELSE IF a = w THEN NoOwner ELSE owners[a]]
        /\ outcome' = [outcome EXCEPT ![d] = "succeeded"]
     \/ /\ outcome' \in {[outcome EXCEPT ![d] = o] : o \in {"insufficient", "rejected"}}
        /\ UNCHANGED <<balances, owners>>

LEMMA IssueEvaluated ==
  ASSUME PaymentInv, Genesis \in sent, Evaluate(Genesis)
  PROVE  IssueEffect
<1> DEFINE r == Request(Genesis)
<1>1. /\ r.method = "issue" /\ r.from = Unallocated /\ r.to = Funding
      /\ r.amount = TotalSupply /\ r.key = Payer /\ r.nonce = 0 /\ r.signer = Deployer
  BY DeployKinds DEF Request
<1>2. /\ outcome[Genesis] = "none"
      /\ balances[Unallocated] = TotalSupply /\ usedNonces[IssueStore] = {}
  BY DEF Evaluate, PaymentInv, IssueInv
<1>3. L!Pay(Genesis, r) \/ L!Claim(Genesis, r) \/ L!Short(Genesis, r) \/ L!Refuse(Genesis, r)
  BY DeployKinds DEF Evaluate, Parses
<1> HIDE DEF r
<1>4. L!Signed(r)
  BY <1>1 DEF L!Signed
<1>5. L!Store(r) = IssueStore
  BY <1>1 DEF L!Store, IssueStore
<1>6. ~L!Claim(Genesis, r) /\ ~L!Short(Genesis, r) /\ ~L!Refuse(Genesis, r)
  BY <1>1, <1>2, <1>4, <1>5, SupplyAssumption, WidthAssumption DEF L!Claim, L!Short, L!Refuse
<1> QED
  BY <1>1, <1>2, <1>3, <1>5, <1>6 DEF L!Pay, L!Use, L!Answer, L!Move, IssueEffect, Spent

LEMMA TransferEvaluated ==
  ASSUME PaymentInv, NEW d \in sent, d.kind = "transfer", Evaluate(d)
  PROVE  TransferEffect(d)
<1> DEFINE r == Request(d)
           t == signed[d.invoice]
<1>1. /\ r.method = "transfer" /\ r.from = Funding /\ r.to = WitnessId(d.invoice)
      /\ r.amount = t.amount /\ r.key = Payee /\ r.nonce = t.nonce
      /\ r.signer = Signer(d.invoice)
  BY DEF Request
<1>2. d \in Deploys \ {Genesis} /\ d.invoice \in Invoices /\ t # Nothing
  BY DeployKinds DEF PaymentInv, TypesOK, WalletsInv
<1>3. t.amount \in Nat /\ t.amount > 0
  BY <1>2, WidthAssumption DEF PaymentInv, TypesOK
<1>4. owners[Funding] = Payer
  BY <1>2 DEF PaymentInv, IssueInv, WalletsInv
<1>5. outcome[d] = "none"
  BY DEF Evaluate
<1> HIDE DEF r
<1>6. CASE ~Parses(d)
  <2>1. L!Answer(d, "unparsable") /\ UNCHANGED <<balances, owners, usedNonces>>
    BY <1>6 DEF Evaluate
  <2> QED
    BY <2>1, <1>5 DEF L!Answer, TransferEffect
<1>7. CASE Parses(d)
  <2>1. L!Pay(d, r) \/ L!Claim(d, r) \/ L!Short(d, r) \/ L!Refuse(d, r)
    BY <1>7 DEF Evaluate, r
  <2>2. Signer(d.invoice) = Payer
    BY <1>2, <1>7, SignatureVerifies DEF Parses, PaymentInv
  <2>3. L!Signed(r)
    BY <1>1, <1>4, <2>2, SealFacts DEF L!Signed
  <2>4. L!Store(r) = FundingStore
    BY <1>1 DEF L!Store, FundingStore
  <2>5. CASE L!Pay(d, r)
    BY <1>1, <1>5, <2>4, <2>5 DEF L!Pay, L!Use, L!Answer, L!Move, TransferEffect, Spent
  <2>6. ~L!Claim(d, r)
    BY <1>1 DEF L!Claim
  <2>7. CASE L!Short(d, r)
    BY <1>1, <1>5, <2>4, <2>7 DEF L!Short, L!Use, L!Answer, TransferEffect, Spent
  <2>8. CASE L!Refuse(d, r)
    BY <1>1, <1>3, <1>5, <2>3, <2>4, <2>8 DEF L!Refuse, L!Answer, TransferEffect
  <2> QED
    BY <2>1, <2>5, <2>6, <2>7, <2>8
<1> QED
  BY <1>6, <1>7

LEMMA ClaimEvaluated ==
  ASSUME NEW d \in sent, d.kind = "claim", Evaluate(d)
  PROVE  ClaimEffect(d)
<1> DEFINE r == Request(d)
<1>1. /\ r.method = "claim" /\ r.from = WitnessId(d.invoice) /\ r.to = RealUtxo(d.invoice)
      /\ r.signer = Payee
  BY DEF Request
<1>2. outcome[d] = "none"
  BY DEF Evaluate
<1>3. L!Pay(d, r) \/ L!Claim(d, r) \/ L!Short(d, r) \/ L!Refuse(d, r)
  BY DEF Evaluate, Parses
<1> HIDE DEF r
<1>4. ~L!Pay(d, r)
  BY <1>1 DEF L!Pay
<1>5. CASE L!Claim(d, r)
  BY <1>1, <1>2, <1>5 DEF L!Claim, L!Answer, L!Move, ClaimEffect
<1>6. CASE L!Short(d, r)
  BY <1>1, <1>2, <1>6 DEF L!Short, L!Answer, ClaimEffect
<1>7. CASE L!Refuse(d, r)
  BY <1>2, <1>7 DEF L!Refuse, L!Answer, ClaimEffect
<1> QED
  BY <1>3, <1>4, <1>5, <1>6, <1>7

(* Every step leaves the ledger alone, or evaluates one deploy and nothing *)
(* else.                                                                   *)
OnlyEvaluates == UNCHANGED <<final, wallets, second, asked>>

LEMMA LedgerStep ==
  ASSUME PaymentInv, [Next]_vars
  PROVE  \/ UNCHANGED ledger
         \/ Genesis \in sent /\ IssueEffect /\ OnlyEvaluates
         \/ \E d \in sent : d.kind = "transfer" /\ TransferEffect(d) /\ OnlyEvaluates
         \/ \E d \in sent : d.kind = "claim" /\ ClaimEffect(d) /\ OnlyEvaluates
<1>1. CASE UNCHANGED vars
  BY <1>1 DEF vars, shard
<1>2. CASE Read /\ UNCHANGED <<shard, wallets, second>>
  BY <1>2 DEF shard
<1>3. CASE Move /\ UNCHANGED <<queryVars, asked>>
  <2>1. ASSUME NEW i \in Invoices, NEW amount, NEW a, GenerateInvoice(i, amount, a)
        PROVE  UNCHANGED ledger
    BY <2>1 DEF GenerateInvoice, shard
  <2>2. ASSUME NEW i, NEW sec, NEW random, Sign(i, sec, random)
        PROVE  UNCHANGED ledger
    BY <2>2 DEF Sign, shard
  <2>3. CASE Issue
    BY <2>3 DEF Issue, Call, shard
  <2>4. ASSUME NEW d, Transfer(d) \/ Claim(d)
        PROVE  UNCHANGED ledger
    BY <2>4 DEF Transfer, Claim, Call, shard
  <2>5. ASSUME NEW p, Return(p) \/ Fail(p)
        PROVE  UNCHANGED ledger
    BY <2>5 DEF Return, Fail, shard
  <2>6. CASE Land \/ Finalize
    BY <2>6 DEF Land, Finalize
  <2>7. ASSUME NEW d \in sent, Evaluate(d)
        PROVE  \/ Genesis \in sent /\ IssueEffect
               \/ d.kind = "transfer" /\ TransferEffect(d)
               \/ d.kind = "claim" /\ ClaimEffect(d)
    <3>1. d = Genesis \/ d.kind \in {"transfer", "claim"}
      BY DeployKinds DEF PaymentInv, TypesOK
    <3> QED
      BY <2>7, <3>1, IssueEvaluated, TransferEvaluated, ClaimEvaluated
  <2>8. ASSUME NEW d, Evaluate(d)
        PROVE  OnlyEvaluates
    BY <1>3, <2>8 DEF Evaluate, OnlyEvaluates
  <2> QED
    BY <1>3, <2>1, <2>2, <2>3, <2>4, <2>5, <2>6, <2>7, <2>8 DEF Move
<1> QED
  BY <1>1, <1>2, <1>3 DEF Next

(* Nobody lacks what he sends: what a step moves is there.                 *)
LEMMA LedgerTypes ==
  ASSUME PaymentInv, [Next]_vars
  PROVE  /\ balances' \in [L!Accounts -> Nat]
         /\ owners' \in [L!Accounts -> Keys \cup {NoOwner}]
         /\ usedNonces' \in [L!Stores -> SUBSET Int]
         /\ outcome' \in [Deploys -> Outcomes]
         /\ \A d \in Deploys : outcome[d] # "none" => outcome'[d] = outcome[d]
         /\ \A d \in Deploys : outcome'[d] # "none" => d \in sent
<1> USE DEF PaymentInv, TypesOK, WalletsInv
<1>1. CASE UNCHANGED ledger
  BY <1>1 DEF ledger
<1>2. CASE IssueEffect /\ Genesis \in sent
  <2>1. balances[Unallocated] = TotalSupply /\ TotalSupply \in Nat
    BY <1>2, SupplyAssumption, WidthAssumption DEF IssueInv, IssueEffect
  <2> QED
    BY <1>2, <2>1, SealFacts, DeployKinds, KeyAssumption
       DEF IssueEffect, L!Move, Spent, Outcomes
<1>3. ASSUME NEW d \in sent, d.kind = "transfer", TransferEffect(d)
      PROVE  /\ balances' \in [L!Accounts -> Nat]
             /\ owners' \in [L!Accounts -> Keys \cup {NoOwner}]
             /\ usedNonces' \in [L!Stores -> SUBSET Int]
             /\ outcome' \in [Deploys -> Outcomes]
             /\ \A e \in Deploys : outcome[e] # "none" => outcome'[e] = outcome[e]
             /\ \A e \in Deploys : outcome'[e] # "none" => e \in sent
  <2>1. /\ d.invoice \in Invoices
        /\ signed[d.invoice] # Nothing /\ invoice[d.invoice] # Nothing
    BY <1>3, DeployKinds
  <2>2. signed[d.invoice].amount \in Nat /\ signed[d.invoice].nonce \in Int
    BY <2>1, WidthAssumption
  <2>3. WitnessId(d.invoice) \in L!Accounts
    BY <2>1, SealFacts DEF WitnessId
  <2>4. outcome' \in {[outcome EXCEPT ![d] = o] : o \in Outcomes} /\ outcome[d] = "none"
    BY <1>3 DEF TransferEffect, Outcomes
  <2>5. /\ outcome' \in [Deploys -> Outcomes]
        /\ \A e \in Deploys : outcome[e] # "none" => outcome'[e] = outcome[e]
        /\ \A e \in Deploys : outcome'[e] # "none" => e \in sent
    BY <2>4
  <2>6. usedNonces' \in [L!Stores -> SUBSET Int]
    BY <1>3, <2>2, SealFacts DEF TransferEffect, Spent
  <2>7. owners' \in [L!Accounts -> Keys \cup {NoOwner}]
    BY <1>3, <2>3, KeyAssumption DEF TransferEffect
  <2>8. balances' \in [L!Accounts -> Nat]
    BY <1>3, <2>2, <2>3, SealFacts DEF TransferEffect, L!Move
  <2> QED
    BY <2>5, <2>6, <2>7, <2>8
<1>4. ASSUME NEW d \in sent, d.kind = "claim", ClaimEffect(d)
      PROVE  /\ balances' \in [L!Accounts -> Nat]
             /\ owners' \in [L!Accounts -> Keys \cup {NoOwner}]
             /\ usedNonces' \in [L!Stores -> SUBSET Int]
             /\ outcome' \in [Deploys -> Outcomes]
             /\ \A e \in Deploys : outcome[e] # "none" => outcome'[e] = outcome[e]
             /\ \A e \in Deploys : outcome'[e] # "none" => e \in sent
  <2>1. /\ d.invoice \in Invoices
        /\ signed[d.invoice] # Nothing /\ invoice[d.invoice] # Nothing
    BY <1>4, DeployKinds
  <2>2. WitnessId(d.invoice) \in L!Accounts /\ RealUtxo(d.invoice) \in L!Accounts
    BY <2>1, SealFacts DEF WitnessId
  <2>3. outcome' \in {[outcome EXCEPT ![d] = o] : o \in Outcomes} /\ outcome[d] = "none"
    BY <1>4 DEF ClaimEffect, Outcomes
  <2>4. /\ outcome' \in [Deploys -> Outcomes]
        /\ \A e \in Deploys : outcome[e] # "none" => outcome'[e] = outcome[e]
        /\ \A e \in Deploys : outcome'[e] # "none" => e \in sent
    BY <2>3
  <2>5. owners' \in [L!Accounts -> Keys \cup {NoOwner}]
    BY <1>4, <2>2, KeyAssumption DEF ClaimEffect
  <2>6. balances' \in [L!Accounts -> Nat]
    BY <1>4, <2>2, SealFacts DEF ClaimEffect, L!Move
  <2> QED
    BY <1>4, <2>4, <2>5, <2>6 DEF ClaimEffect
<1> QED
  BY <1>1, <1>2, <1>3, <1>4, LedgerStep

----------------------------------------------------------------------------
(* The invariant is inductive, part by part.                               *)

LEMMA InitPaymentInv == Init => PaymentInv
<1> SUFFICES ASSUME Init PROVE PaymentInv
  OBVIOUS
<1> USE DEF Init, L!Init
<1>1. TypesOK
  BY SupplyAssumption, WidthAssumption, NonceAssumption, OwnerAssumption
     DEF TypesOK, Outcomes
<1>2. WalletsInv
  BY DEF WalletsInv, Snapshot
<1>3. IssueInv
  BY DeployKinds, SealFacts DEF IssueInv
<1>4. TokensInv
  BY SealFacts DEF TokensInv
<1>5. usedNonces[FundingStore] = {}
  BY SealFacts
<1>6. NoncesInv
  BY <1>5 DEF NoncesInv, RefusedOnlyAsReplay
<1>7. FinalInv
  BY DEF FinalInv, Snapshot
<1> QED
  BY <1>1, <1>2, <1>3, <1>4, <1>6, <1>7 DEF PaymentInv

LEMMA NonceInRange ==
  ASSUME NEW random \in Randoms, NEW sec \in 0..MaxSecond
  PROVE  NonceOf(sec, random) \in 0..(Half - 1)
<1>1. /\ sec \in Nat /\ random \in Nat /\ random < NonceBase
      /\ NonceBase \in Nat /\ sec <= MaxSecond /\ MaxSecond \in Nat /\ Half \in Nat
      /\ (MaxSecond + 1) * NonceBase < Half
  BY NonceAssumption, WidthAssumption
<1>2. (sec + 1) * NonceBase <= (MaxSecond + 1) * NonceBase
  BY <1>1
<1>3. sec * NonceBase \in Nat /\ sec * NonceBase + NonceBase = (sec + 1) * NonceBase
  BY <1>1
<1>4. (MaxSecond + 1) * NonceBase \in Nat /\ (sec + 1) * NonceBase \in Nat
  BY <1>1
<1> QED
  BY <1>1, <1>2, <1>3, <1>4 DEF NonceOf

LEMMA NextTypes == PaymentInv /\ [Next]_vars => TypesOK'
<1> SUFFICES ASSUME PaymentInv, [Next]_vars PROVE TypesOK'
  OBVIOUS
<1> DEFINE WalletTypes ==
      /\ invoice \in [Invoices ->
           {Nothing} \cup [kind : {"invoice"}, amount : 1..(2 * Half - 1), address : Addresses]]
      /\ signed \in [Invoices ->
           {Nothing} \cup [kind : {"transfer"}, amount : 1..(2 * Half - 1), nonce : 0..(Half - 1)]]
      /\ second \in 0..MaxSecond
      /\ sent \subseteq Deploys
      /\ waiting \in [Parties -> sent \cup {Nothing}]
<1> SUFFICES WalletTypes'
  BY LedgerTypes DEF TypesOK
<1>0. TypesOK /\ WalletsInv
  BY DEF PaymentInv
<1> USE DEF TypesOK
<1>1. CASE UNCHANGED <<wallets, second>>
  BY <1>0, <1>1 DEF wallets
<1>2. ASSUME NEW i \in Invoices, NEW amount \in Amounts, NEW a \in Addresses,
             GenerateInvoice(i, amount, a)
      PROVE  WalletTypes'
  <2>1. amount \in 1..(2 * Half - 1)
    BY <1>2, WidthAssumption DEF GenerateInvoice
  <2> QED
    BY <1>0, <1>2, <2>1 DEF GenerateInvoice
<1>3. ASSUME NEW i \in Invoices, NEW random \in Randoms, NEW sec \in second..MaxSecond,
             Sign(i, sec, random)
      PROVE  WalletTypes'
  <2>1. sec \in 0..MaxSecond
    BY <1>0, NonceAssumption
  <2>2. invoice[i].amount \in 1..(2 * Half - 1)
    BY <1>0, <1>3 DEF Sign
  <2> QED
    BY <1>0, <1>3, <2>1, <2>2, NonceInRange DEF Sign, ParsedAmount
<1>4. ASSUME NEW p \in Parties, NEW d \in Deploys, Call(p, d)
      PROVE  WalletTypes'
  BY <1>0, <1>4 DEF Call
<1>5. CASE Issue
  BY <1>4, <1>5, DeployKinds DEF Issue, Parties
<1>6. ASSUME NEW d \in Deploys, Transfer(d) \/ Claim(d)
      PROVE  WalletTypes'
  BY <1>4, <1>6 DEF Transfer, Claim, Parties
<1>7. ASSUME NEW p \in Parties, Return(p) \/ Fail(p)
      PROVE  WalletTypes'
  BY <1>0, <1>7 DEF Return, Fail
<1>8. ASSUME NEW d \in sent, Evaluate(d)
      PROVE  UNCHANGED <<wallets, second>>
  BY <1>8 DEF Evaluate
<1>9. CASE Land \/ Finalize
  BY <1>1, <1>9 DEF Land, Finalize
<1>10. CASE Read /\ UNCHANGED <<shard, wallets, second>>
  BY <1>1, <1>10
<1>11. CASE UNCHANGED vars
  BY <1>1, <1>11 DEF vars
<1> QED
  BY <1>1, <1>2, <1>3, <1>5, <1>6, <1>7, <1>8, <1>9, <1>10, <1>11 DEF Next, Move

(* What the wallets know only grows: an invoice and a signed transfer stay *)
(* as they are, and no deploy and no returned call is forgotten.           *)
LEMMA WalletsGrow ==
  ASSUME PaymentInv, [Next]_vars
  PROVE  /\ \A i \in Invoices : invoice[i] # Nothing => invoice'[i] = invoice[i]
         /\ \A i \in Invoices : signed[i] # Nothing => signed'[i] = signed[i]
         /\ sent \subseteq sent' /\ returned \subseteq returned'
<1>0. TypesOK
  BY DEF PaymentInv
<1>1. CASE Move
  BY <1>0, <1>1 DEF Move, TypesOK, GenerateInvoice, Sign, Issue, Transfer, Claim, Call, Return, Fail,
                    Evaluate, Land, Finalize, wallets
<1>2. CASE UNCHANGED wallets
  BY <1>2 DEF wallets
<1> QED
  BY <1>1, <1>2 DEF Next, vars

LEMMA NextWallets == PaymentInv /\ [Next]_vars => WalletsInv'
<1> SUFFICES ASSUME PaymentInv, [Next]_vars PROVE WalletsInv'
  OBVIOUS
<1>0. TypesOK /\ WalletsInv
  BY DEF PaymentInv
<1> USE DEF WalletsInv
<1> DEFINE
      Distinct == \A i, j \in Invoices :
        invoice[i] # Nothing /\ invoice[j] # Nothing /\ invoice[i].address = invoice[j].address
          => i = j
      SignedAmounts == \A i \in Invoices : signed[i] # Nothing =>
        invoice[i] # Nothing /\ signed[i].amount = invoice[i].amount
      SentSigned == \A d \in sent \ {Genesis} : signed[d.invoice] # Nothing /\ Genesis \in returned
      FinalSent == final.calls \subseteq {d \in sent : outcome[d] # "none"}
      Parts == Distinct /\ SignedAmounts /\ SentSigned /\ returned \subseteq final.calls
<1>1. \A d \in Deploys : outcome'[d] # "none" => d \in sent'
  BY LedgerTypes, WalletsGrow
<1>2. (asked \subseteq returned)'
  <2>1. asked' \in {asked, returned, {}}
    BY DEF Next, Read, vars
  <2> QED
    BY <1>0, <2>1, WalletsGrow
<1>3. FinalSent'
  <2>1. CASE Finalize
    BY <1>0, <2>1 DEF Finalize, Snapshot, wallets, ledger
  <2>2. CASE UNCHANGED final
    BY <1>0, <2>2, LedgerTypes, WalletsGrow DEF TypesOK
  <2>3. Finalize \/ UNCHANGED final
    BY DEF Next, Read, Move, GenerateInvoice, Sign, Issue, Transfer, Claim, Call, Return, Fail,
           Evaluate, Land, Finalize, shard, vars
  <2> QED
    BY <2>1, <2>2, <2>3
<1>4. Parts'
  <2> USE DEF TypesOK
  <2>1. CASE UNCHANGED <<wallets, final>>
    BY <1>0, <2>1 DEF wallets
  <2>2. ASSUME NEW i \in Invoices, NEW amount \in Amounts, NEW a \in Addresses,
               GenerateInvoice(i, amount, a)
        PROVE  Parts'
    <3>1. signed[i] = Nothing
      BY <1>0, <2>2 DEF GenerateInvoice
    <3>2. Distinct'
      BY <1>0, <2>2 DEF GenerateInvoice
    <3> QED
      BY <1>0, <2>2, <3>1, <3>2 DEF GenerateInvoice, shard
  <2>3. ASSUME NEW i \in Invoices, NEW random \in Randoms, NEW sec \in second..MaxSecond,
               Sign(i, sec, random)
        PROVE  Parts'
    <3>1. signed' = [signed EXCEPT ![i] =
            [kind |-> "transfer", amount |-> invoice[i].amount, nonce |-> NonceOf(sec, random)]]
      BY <2>3 DEF Sign, ParsedAmount
    <3>2. signed'[i] # Nothing /\ signed'[i].amount = invoice[i].amount
      BY <1>0, <3>1 DEF Nothing
    <3>3. SentSigned'
      BY <1>0, <2>3, <3>1, <3>2, DeployKinds DEF Sign
    <3> QED
      BY <1>0, <2>3, <3>1, <3>2, <3>3 DEF Sign, shard
  <2>4. CASE Issue
    BY <1>0, <2>4 DEF Issue, Call, shard
  <2>5. ASSUME NEW d \in Deploys \ {Genesis}, Transfer(d) \/ Claim(d)
        PROVE  Parts'
    <3>1. signed[d.invoice] # Nothing /\ Genesis \in returned
      BY <1>0, <2>5, DeployKinds DEF Transfer, Claim
    <3> QED
      BY <1>0, <2>5, <3>1 DEF Transfer, Claim, Call, shard
  <2>6. ASSUME NEW p \in Parties, Return(p) \/ Fail(p)
        PROVE  Parts'
    BY <1>0, <2>6 DEF Return, Final, Fail, shard
  <2>7. ASSUME NEW d \in sent, Evaluate(d)
        PROVE  UNCHANGED <<wallets, final>>
    BY <2>7 DEF Evaluate
  <2>8. CASE Land
    BY <2>1, <2>8 DEF Land
  <2>9. CASE Finalize
    BY <1>0, <2>9 DEF Finalize, Snapshot, wallets
  <2>10. CASE Read /\ UNCHANGED <<shard, wallets, second>>
    BY <2>1, <2>10 DEF shard
  <2>11. CASE UNCHANGED vars
    BY <2>1, <2>11 DEF vars, shard
  <2> QED
    BY <2>1, <2>2, <2>3, <2>4, <2>5, <2>6, <2>7, <2>8, <2>9, <2>10, <2>11 DEF Next, Move
<1> QED
  BY <1>1, <1>2, <1>3, <1>4

LEMMA NextIssue == PaymentInv /\ [Next]_vars => IssueInv'
<1> SUFFICES ASSUME PaymentInv, [Next]_vars PROVE IssueInv'
  OBVIOUS
<1>0. TypesOK /\ WalletsInv /\ IssueInv
  BY DEF PaymentInv
<1>1. \A d \in sent \ {Genesis} : outcome[Genesis] # "none" /\ owners[Funding] = Payer
  BY <1>0 DEF WalletsInv, IssueInv
<1>2. CASE UNCHANGED ledger
  BY <1>0, <1>2 DEF ledger, IssueInv
<1>3. CASE IssueEffect
  BY <1>0, <1>3, SealFacts, DeployKinds DEF IssueEffect, IssueInv, TypesOK
<1>4. ASSUME NEW d \in sent, d.kind = "transfer", TransferEffect(d)
      PROVE  IssueInv'
  <2>1. d \in Deploys \ {Genesis} /\ WitnessId(d.invoice) # Funding
    BY <1>0, <1>4, DeployKinds, SealFacts DEF TypesOK, WalletsInv, WitnessId
  <2> QED
    BY <1>0, <1>1, <1>4, <2>1, DeployKinds, SealFacts DEF TransferEffect, IssueInv, TypesOK
<1>5. ASSUME NEW d \in sent, d.kind = "claim", ClaimEffect(d)
      PROVE  IssueInv'
  <2>1. /\ d \in Deploys \ {Genesis}
        /\ WitnessId(d.invoice) # Funding /\ RealUtxo(d.invoice) # Funding
    BY <1>0, <1>5, DeployKinds, SealFacts DEF TypesOK, WalletsInv, WitnessId
  <2> QED
    BY <1>0, <1>1, <1>5, <2>1, DeployKinds, SealFacts DEF ClaimEffect, IssueInv, TypesOK
<1> QED
  BY <1>2, <1>3, <1>4, <1>5, LedgerStep

(* An invoice with a deploy is set and signed. *)
LEMMA SentIsSigned ==
  ASSUME PaymentInv, NEW d \in sent, d # Genesis
  PROVE  /\ d.kind \in {"transfer", "claim"} /\ d.invoice \in Invoices
         /\ signed[d.invoice] # Nothing /\ invoice[d.invoice] # Nothing
         /\ signed[d.invoice].amount = invoice[d.invoice].amount
         /\ invoice[d.invoice].amount \in Nat \ {0}
         /\ invoice[d.invoice].address \in Addresses
  BY DeployKinds, WidthAssumption DEF PaymentInv, TypesOK, WalletsInv

LEMMA DoneUnchanged ==
  ASSUME PaymentInv, [Next]_vars, UNCHANGED outcome, NEW i \in Invoices,
         NEW kind \in {"transfer", "claim"}
  PROVE  Done(kind, i)' <=> Done(kind, i)
  BY NextWallets, NextTypes, WalletsGrow DEF Done, PaymentInv, WalletsInv, TypesOK

LEMMA DoneAfter ==
  ASSUME PaymentInv, OnlyEvaluates, NEW d \in sent, NEW o \in Outcomes,
         outcome[d] = "none", outcome' = [outcome EXCEPT ![d] = o],
         NEW i \in Invoices, NEW kind \in {"transfer", "claim"}
  PROVE  Done(kind, i)' <=>
           Done(kind, i) \/ (o = "succeeded" /\ d.kind = kind /\ d.invoice = i)
  BY DEF Done, OnlyEvaluates, wallets, PaymentInv, TypesOK, Outcomes

TokensOf(i) == IF invoice[i] = Nothing THEN balances[RealUtxo(i)] = 0 ELSE Arrived(i)
TokensAt(a) ==
  (\A i \in Invoices : invoice[i] # Nothing => invoice[i].address # a)
    => balances[<<"witness", a>>] = 0

(* A new invoice's address and UTXO are empty, and nothing was done for it. *)
LEMMA TokensWithoutEvaluation ==
  ASSUME PaymentInv, [Next]_vars, UNCHANGED ledger
  PROVE  TokensInv'
<1>0. TypesOK /\ WalletsInv /\ TokensInv
  BY DEF PaymentInv
<1>1. ASSUME NEW i \in Invoices
      PROVE  TokensOf(i)'
  <2>1. CASE invoice[i] # Nothing
    <3>1. invoice'[i] = invoice[i] /\ (Done("transfer", i) => signed'[i] = signed[i])
      BY <2>1, WalletsGrow, SentIsSigned, DeployKinds DEF Done
    <3>2. WitnessId(i)' = WitnessId(i)
      BY <3>1 DEF WitnessId
    <3>3. Arrived(i)
      BY <1>0, <2>1 DEF TokensInv
    <3>4. Arrived(i)'
      BY <3>1, <3>2, <3>3, DoneUnchanged DEF Arrived, ledger
    <3> QED
      BY <2>1, <3>1, <3>4 DEF TokensOf
  <2>2. CASE invoice[i] = Nothing /\ invoice'[i] = Nothing
    BY <1>0, <2>2 DEF TokensInv, TokensOf, ledger
  <2>3. CASE invoice[i] = Nothing /\ invoice'[i] # Nothing
    <3>1. ~Done("transfer", i) /\ ~Done("claim", i)
      BY <2>3, SentIsSigned, DeployKinds DEF Done
    <3>2. \E a \in Addresses, amount \in Amounts : GenerateInvoice(i, amount, a)
      BY <1>0, <2>3 DEF Next, Read, Move, GenerateInvoice, Sign, Issue, Transfer, Claim, Call,
             Return, Fail, Evaluate, Land, Finalize, wallets, shard, vars, TypesOK
    <3>3. PICK a \in Addresses, amount \in Amounts : GenerateInvoice(i, amount, a)
      BY <3>2
    <3>4. balances[<<"witness", a>>] = 0 /\ balances[RealUtxo(i)] = 0
      BY <1>0, <2>3, <3>3 DEF TokensInv, GenerateInvoice
    <3>5. WitnessId(i)' = <<"witness", a>>
      BY <1>0, <3>3 DEF GenerateInvoice, WitnessId, TypesOK
    <3>6. Arrived(i)'
      BY <3>1, <3>4, <3>5, DoneUnchanged DEF Arrived, ledger
    <3> QED
      BY <2>3, <3>6 DEF TokensOf
  <2> QED
    BY <2>1, <2>2, <2>3
<1>2. ASSUME NEW a \in Addresses
      PROVE  TokensAt(a)'
  <2>1. \A i \in Invoices : invoice[i] # Nothing => invoice'[i] = invoice[i]
    BY WalletsGrow
  <2> QED
    BY <1>0, <2>1 DEF TokensInv, TokensAt, ledger
<1> QED
  BY <1>1, <1>2 DEF TokensOf, TokensAt, TokensInv

LEMMA TokensWithTransfer ==
  ASSUME PaymentInv, OnlyEvaluates, NEW d \in sent, d.kind = "transfer", TransferEffect(d)
  PROVE  TokensInv'
<1> DEFINE j == d.invoice
           w == WitnessId(j)
           t == signed[j]
<1>0. TypesOK /\ WalletsInv /\ TokensInv
  BY DEF PaymentInv
<1>1. /\ j \in Invoices /\ invoice[j] # Nothing /\ t.amount = invoice[j].amount
      /\ invoice[j].amount \in Nat \ {0} /\ invoice[j].address \in Addresses
  BY SentIsSigned, DeployKinds, <1>0 DEF TypesOK
<1>2. w = <<"witness", invoice[j].address>>
  BY DEF WitnessId
<1>3. UNCHANGED <<invoice, signed, sent>>
  BY DEF OnlyEvaluates, wallets
<1>4. outcome[d] = "none" /\ \E o \in Outcomes : outcome' = [outcome EXCEPT ![d] = o]
  BY DEF TransferEffect, Outcomes
<1>5. outcome'[d] # "succeeded" => UNCHANGED balances
  BY <1>0, <1>4, SealFacts DEF TransferEffect, Spent, TypesOK
<1>6. usedNonces[FundingStore] \subseteq usedNonces'[FundingStore]
  BY <1>0, SealFacts DEF TransferEffect, Spent, TypesOK
<1>7. CASE outcome'[d] # "succeeded"
  <2>1. \A i \in Invoices : /\ Done("transfer", i)' <=> Done("transfer", i)
                            /\ Done("claim", i)' <=> Done("claim", i)
    BY <1>0, <1>4, <1>7, DoneAfter DEF TypesOK
  <2> QED
    BY <1>0, <1>3, <1>5, <1>6, <1>7, <2>1 DEF TokensInv, Arrived, WitnessId
<1>8. CASE outcome'[d] = "succeeded"
  <2>1. /\ t.nonce \notin usedNonces[FundingStore]
        /\ L!Move(Funding, w, t.amount)
        /\ Spent(FundingStore, t.nonce)
        /\ outcome' = [outcome EXCEPT ![d] = "succeeded"]
    BY <1>0, <1>8 DEF TransferEffect, TypesOK
  <2>2. \A i \in Invoices : /\ Done("transfer", i)' <=> Done("transfer", i) \/ i = j
                            /\ Done("claim", i)' <=> Done("claim", i)
    BY <1>4, <2>1, DoneAfter DEF Outcomes
  <2>3. Arrived(j) /\ ~Done("transfer", j) /\ ~Done("claim", j)
    BY <1>0, <1>1, <2>1 DEF TokensInv, Arrived
  <2>4. balances[w] = 0 /\ balances[RealUtxo(j)] = 0
    BY <2>3 DEF Arrived
  <2>5. /\ w \in L!Accounts /\ w # Funding /\ Funding \in L!Accounts
        /\ balances'[w] = t.amount
        /\ \A s \in L!Accounts \ {w, Funding} : balances'[s] = balances[s]
    BY <1>0, <1>1, <1>2, <2>1, <2>4, SealFacts DEF L!Move, TypesOK
  <2>6. ASSUME NEW i \in Invoices
        PROVE  TokensOf(i)'
    <3>1. RealUtxo(i) \in L!Accounts \ {w, Funding}
      BY <1>1, <1>2, SealFacts
    <3>2. CASE i = j
      <4>1. t.nonce \in usedNonces'[FundingStore]
        BY <1>0, <2>1, SealFacts DEF Spent, TypesOK
      <4> QED
        BY <1>1, <1>3, <2>2, <2>3, <2>4, <2>5, <3>1, <3>2, <4>1 DEF TokensOf, Arrived, WitnessId
    <3>3. CASE i # j /\ invoice[i] # Nothing
      <4>1. WitnessId(i) \in L!Accounts \ {w, Funding}
        BY <1>0, <1>1, <1>2, <3>3, SealFacts DEF WitnessId, WalletsInv, TypesOK
      <4>2. Arrived(i)
        BY <1>0, <3>3 DEF TokensInv
      <4> QED
        BY <1>3, <1>6, <2>2, <2>5, <3>1, <3>3, <4>1, <4>2 DEF TokensOf, Arrived, WitnessId
    <3>4. CASE invoice[i] = Nothing
      BY <1>0, <1>3, <2>5, <3>1, <3>4 DEF TokensOf, TokensInv
    <3> QED
      BY <3>2, <3>3, <3>4
  <2>7. ASSUME NEW a \in Addresses
        PROVE  TokensAt(a)'
    <3>1. CASE a = invoice[j].address
      BY <1>1, <1>3, <3>1 DEF TokensAt
    <3>2. CASE a # invoice[j].address
      <4>1. <<"witness", a>> \in L!Accounts \ {w, Funding}
        BY <1>1, <1>2, <3>2, SealFacts
      <4> QED
        BY <1>0, <1>3, <2>5, <4>1 DEF TokensAt, TokensInv
    <3> QED
      BY <3>1, <3>2
  <2> QED
    BY <2>6, <2>7 DEF TokensOf, TokensAt, TokensInv
<1> QED
  BY <1>7, <1>8

LEMMA TokensWithClaim ==
  ASSUME PaymentInv, OnlyEvaluates, NEW d \in sent, d.kind = "claim", ClaimEffect(d)
  PROVE  TokensInv'
<1> DEFINE j == d.invoice
           w == WitnessId(j)
           u == RealUtxo(j)
<1>0. TypesOK /\ WalletsInv /\ TokensInv
  BY DEF PaymentInv
<1>1. /\ j \in Invoices /\ invoice[j] # Nothing
      /\ invoice[j].amount \in Nat \ {0} /\ invoice[j].address \in Addresses
  BY SentIsSigned, DeployKinds, <1>0 DEF TypesOK
<1>2. w = <<"witness", invoice[j].address>>
  BY DEF WitnessId
<1>3. UNCHANGED <<invoice, signed, sent, usedNonces>>
  BY DEF OnlyEvaluates, wallets, ClaimEffect
<1>4. outcome[d] = "none" /\ \E o \in Outcomes : outcome' = [outcome EXCEPT ![d] = o]
  BY DEF ClaimEffect, Outcomes
<1>5. CASE outcome'[d] # "succeeded"
  <2>1. \A i \in Invoices : /\ Done("transfer", i)' <=> Done("transfer", i)
                            /\ Done("claim", i)' <=> Done("claim", i)
    BY <1>0, <1>4, <1>5, DoneAfter DEF TypesOK
  <2>2. UNCHANGED balances
    BY <1>0, <1>4, <1>5 DEF ClaimEffect, TypesOK
  <2> QED
    BY <1>0, <1>3, <2>1, <2>2 DEF TokensInv, Arrived, WitnessId
<1>6. CASE outcome'[d] = "succeeded"
  <2>1. /\ balances[w] > 0
        /\ L!Move(w, u, balances[w])
        /\ outcome' = [outcome EXCEPT ![d] = "succeeded"]
    BY <1>0, <1>6 DEF ClaimEffect, TypesOK
  <2>2. \A i \in Invoices : /\ Done("transfer", i)' <=> Done("transfer", i)
                            /\ Done("claim", i)' <=> Done("claim", i) \/ i = j
    BY <1>4, <2>1, DoneAfter DEF Outcomes
  <2>3. /\ Done("transfer", j) /\ signed[j].nonce \in usedNonces[FundingStore]
        /\ balances[w] = invoice[j].amount /\ balances[u] = 0
    BY <1>0, <1>1, <2>1 DEF TokensInv, Arrived
  <2>4. /\ w \in L!Accounts /\ u \in L!Accounts /\ w # u
        /\ balances'[w] = 0 /\ balances'[u] = invoice[j].amount
        /\ \A s \in L!Accounts \ {w, u} : balances'[s] = balances[s]
    BY <1>0, <1>1, <1>2, <2>1, <2>3, SealFacts DEF L!Move, TypesOK
  <2>5. ASSUME NEW i \in Invoices
        PROVE  TokensOf(i)'
    <3>1. CASE i = j
      BY <1>1, <1>3, <2>2, <2>3, <2>4, <3>1 DEF TokensOf, Arrived, WitnessId
    <3>2. CASE i # j /\ invoice[i] # Nothing
      <4>1. /\ WitnessId(i) \in L!Accounts \ {w, u}
            /\ RealUtxo(i) \in L!Accounts \ {w, u}
        BY <1>0, <1>1, <1>2, <3>2, SealFacts DEF WitnessId, WalletsInv, TypesOK
      <4>2. Arrived(i)
        BY <1>0, <3>2 DEF TokensInv
      <4> QED
        BY <1>3, <2>2, <2>4, <3>2, <4>1, <4>2 DEF TokensOf, Arrived, WitnessId
    <3>3. CASE invoice[i] = Nothing
      <4>1. RealUtxo(i) \in L!Accounts \ {w, u}
        BY <1>1, <1>2, <3>3, SealFacts
      <4> QED
        BY <1>0, <1>3, <2>4, <3>3, <4>1 DEF TokensOf, TokensInv
    <3> QED
      BY <3>1, <3>2, <3>3
  <2>6. ASSUME NEW a \in Addresses
        PROVE  TokensAt(a)'
    <3>1. CASE a = invoice[j].address
      BY <1>1, <1>3, <3>1 DEF TokensAt
    <3>2. CASE a # invoice[j].address
      <4>1. <<"witness", a>> \in L!Accounts \ {w, u}
        BY <1>1, <1>2, <3>2, SealFacts
      <4> QED
        BY <1>0, <1>3, <2>4, <4>1 DEF TokensAt, TokensInv
    <3> QED
      BY <3>1, <3>2
  <2> QED
    BY <2>5, <2>6 DEF TokensOf, TokensAt, TokensInv
<1> QED
  BY <1>5, <1>6

LEMMA TokensWithIssue ==
  ASSUME PaymentInv, OnlyEvaluates, Genesis \in sent, IssueEffect
  PROVE  TokensInv'
<1>0. TypesOK /\ WalletsInv /\ TokensInv
  BY DEF PaymentInv
<1>1. \A i \in Invoices : /\ Done("transfer", i)' <=> Done("transfer", i)
                          /\ Done("claim", i)' <=> Done("claim", i)
  BY DoneAfter, DeployKinds DEF IssueEffect, Outcomes
<1>2. \A s \in L!Accounts \ {Unallocated, Funding} : balances'[s] = balances[s]
  BY <1>0 DEF IssueEffect, L!Move, TypesOK
<1>3. usedNonces'[FundingStore] = usedNonces[FundingStore]
  BY <1>0, SealFacts DEF IssueEffect, Spent, TypesOK
<1>4. UNCHANGED <<invoice, signed>>
  BY DEF OnlyEvaluates, wallets
<1>5. ASSUME NEW i \in Invoices
      PROVE  TokensOf(i)'
  <2>1. RealUtxo(i) \in L!Accounts \ {Unallocated, Funding}
    BY SealFacts
  <2>2. CASE invoice[i] # Nothing
    <3>1. WitnessId(i) \in L!Accounts \ {Unallocated, Funding}
      BY <1>0, <2>2, SealFacts DEF WitnessId, TypesOK
    <3>2. Arrived(i)
      BY <1>0, <2>2 DEF TokensInv
    <3> QED
      BY <1>1, <1>2, <1>3, <1>4, <2>1, <2>2, <3>1, <3>2 DEF TokensOf, Arrived, WitnessId
  <2>3. CASE invoice[i] = Nothing
    BY <1>0, <1>2, <1>4, <2>1, <2>3 DEF TokensOf, TokensInv
  <2> QED
    BY <2>2, <2>3
<1>6. ASSUME NEW a \in Addresses
      PROVE  TokensAt(a)'
  <2>1. <<"witness", a>> \in L!Accounts \ {Unallocated, Funding}
    BY SealFacts
  <2> QED
    BY <1>0, <1>2, <1>4, <2>1 DEF TokensAt, TokensInv
<1> QED
  BY <1>5, <1>6 DEF TokensOf, TokensAt, TokensInv

LEMMA NextTokens == PaymentInv /\ [Next]_vars => TokensInv'
  BY LedgerStep, TokensWithoutEvaluation, TokensWithIssue, TokensWithTransfer, TokensWithClaim

(* A nonce enters the funding UTXO's set with the transfer that uses it,   *)
(* and a transfer is refused when it finds its own there.                  *)
LEMMA NextNonces == PaymentInv /\ [Next]_vars => NoncesInv'
<1> SUFFICES ASSUME PaymentInv, [Next]_vars PROVE NoncesInv'
  OBVIOUS
<1>0. TypesOK /\ WalletsInv /\ NoncesInv
  BY DEF PaymentInv
<1>1. \A d \in sent : d.kind = "transfer" =>
        d \in Deploys /\ d.invoice \in Invoices /\ signed'[d.invoice] = signed[d.invoice]
  BY <1>0, SentIsSigned, WalletsGrow, DeployKinds DEF TypesOK
<1>2. \A d \in sent, n \in Int : Consumes(d, n) => d \in sent' /\ Consumes(d, n)'
  BY <1>1, LedgerTypes, WalletsGrow DEF Consumes
<1>3. ASSUME UNCHANGED usedNonces[FundingStore],
             \A d \in sent : d.kind = "transfer" /\ outcome'[d] = "rejected" =>
               \/ outcome[d] = "rejected"
               \/ outcome[d] = "none" /\ signed[d.invoice].nonce \in usedNonces[FundingStore]
      PROVE  NoncesInv'
  <2>1. usedNonces[FundingStore] \subseteq Int
    BY <1>0, SealFacts DEF TypesOK
  <2>2. \A n \in usedNonces'[FundingStore] : \E d \in sent' : Consumes(d, n)'
    BY <1>0, <1>2, <1>3, <2>1 DEF NoncesInv
  <2>3. ASSUME NEW d \in sent', d.kind = "transfer", outcome'[d] = "rejected"
        PROVE  \E e \in sent' \ {d} :
                 /\ e.kind = "transfer" /\ outcome'[e] \in {"succeeded", "insufficient"}
                 /\ signed'[e.invoice].nonce = signed'[d.invoice].nonce
    <3>1. d \in sent
      BY <2>3, LedgerTypes, NextTypes DEF TypesOK
    <3>2. CASE outcome[d] = "rejected"
      <4>1. PICK e \in sent \ {d} :
              /\ e.kind = "transfer" /\ outcome[e] \in {"succeeded", "insufficient"}
              /\ signed[e.invoice].nonce = signed[d.invoice].nonce
        BY <1>0, <2>3, <3>1, <3>2 DEF NoncesInv, RefusedOnlyAsReplay
      <4>2. e \in sent' /\ outcome'[e] = outcome[e]
        BY <1>1, <4>1, LedgerTypes, WalletsGrow
      <4> QED
        BY <1>1, <2>3, <3>1, <4>1, <4>2
    <3>3. CASE outcome[d] = "none" /\ signed[d.invoice].nonce \in usedNonces[FundingStore]
      <4>1. PICK e \in sent : Consumes(e, signed[d.invoice].nonce)
        BY <1>0, <3>3 DEF NoncesInv
      <4>2. e # d /\ e \in sent' /\ outcome'[e] = outcome[e]
        BY <1>1, <3>3, <4>1, LedgerTypes, WalletsGrow DEF Consumes
      <4> QED
        BY <1>1, <2>3, <3>1, <4>1, <4>2 DEF Consumes
    <3> QED
      BY <1>3, <2>3, <3>1, <3>2, <3>3
  <2> QED
    BY <2>2, <2>3 DEF NoncesInv, RefusedOnlyAsReplay
<1>4. CASE UNCHANGED ledger
  BY <1>3, <1>4 DEF ledger
<1>5. CASE IssueEffect /\ Genesis \in sent
  BY <1>0, <1>3, <1>5, SealFacts, DeployKinds DEF IssueEffect, Spent, TypesOK
<1>6. ASSUME NEW d \in sent, d.kind = "claim", ClaimEffect(d)
      PROVE  NoncesInv'
  BY <1>0, <1>3, <1>6 DEF ClaimEffect, TypesOK
<1>7. ASSUME NEW d \in sent, d.kind = "transfer", TransferEffect(d), OnlyEvaluates
      PROVE  NoncesInv'
  <2> DEFINE nonce == signed[d.invoice].nonce
  <2>1. /\ outcome[d] = "none" /\ d \in Deploys
        /\ outcome'[d] \in {"succeeded", "insufficient", "rejected", "unparsable"}
    BY <1>0, <1>7 DEF TransferEffect, TypesOK
  <2>2. CASE outcome'[d] \in {"rejected", "unparsable"}
    BY <1>0, <1>3, <1>7, <2>1, <2>2 DEF TransferEffect, TypesOK
  <2>3. CASE outcome'[d] \in {"succeeded", "insufficient"}
    <3>1. Spent(FundingStore, nonce) /\ outcome' = [outcome EXCEPT ![d] = outcome'[d]]
      BY <1>0, <1>7, <2>1, <2>3 DEF TransferEffect, TypesOK
    <3>2. usedNonces'[FundingStore] = usedNonces[FundingStore] \cup {nonce}
      BY <1>0, <3>1, SealFacts DEF Spent, TypesOK
    <3>3. nonce' = nonce /\ Consumes(d, nonce)' /\ d \in sent'
      BY <1>1, <1>7, <2>3, WalletsGrow DEF Consumes
    <3>4. \A n \in usedNonces'[FundingStore] : \E e \in sent' : Consumes(e, n)'
      <4>1. usedNonces[FundingStore] \subseteq Int
        BY <1>0, SealFacts DEF TypesOK
      <4> QED
        BY <1>0, <1>2, <3>2, <3>3, <4>1 DEF NoncesInv
    <3>5. RefusedOnlyAsReplay'
      <4>1. UNCHANGED <<sent, signed>>
        BY <1>7 DEF OnlyEvaluates, wallets
      <4> QED
        BY <1>0, <2>1, <2>3, <3>1, <4>1 DEF NoncesInv, RefusedOnlyAsReplay, TypesOK
    <3> QED
      BY <3>4, <3>5 DEF NoncesInv
  <2> QED
    BY <2>1, <2>2, <2>3
<1> QED
  BY <1>4, <1>5, <1>6, <1>7, LedgerStep

LEMMA NextFinal == PaymentInv /\ [Next]_vars => FinalInv'
<1> SUFFICES ASSUME PaymentInv, [Next]_vars,
                    NEW d \in final'.calls, d.kind = "claim", outcome'[d] = "succeeded"
             PROVE  final'.balances[RealUtxo(d.invoice)] = invoice'[d.invoice].amount
  BY DEF FinalInv
<1>0. TypesOK /\ WalletsInv /\ TokensInv /\ FinalInv
  BY DEF PaymentInv
<1>1. Finalize \/ UNCHANGED final
  BY DEF Next, Read, Move, GenerateInvoice, Sign, Issue, Transfer, Claim, Call, Return, Fail,
         Evaluate, Land, Finalize, shard, vars
<1>2. d \in sent /\ outcome[d] # "none"
  BY <1>0, <1>1 DEF WalletsInv, Finalize, Snapshot
<1>3. outcome[d] = "succeeded"
  BY <1>0, <1>2, LedgerTypes DEF TypesOK
<1>4. /\ d.invoice \in Invoices /\ invoice[d.invoice] # Nothing
      /\ invoice'[d.invoice] = invoice[d.invoice]
  BY <1>0, <1>2, SentIsSigned, DeployKinds, WalletsGrow DEF TypesOK
<1>5. CASE UNCHANGED final
  BY <1>0, <1>3, <1>4, <1>5 DEF FinalInv
<1>6. CASE Finalize
  <2>1. final'.balances = balances
    BY <1>6 DEF Finalize, Snapshot
  <2>2. Arrived(d.invoice) /\ Done("claim", d.invoice)
    BY <1>0, <1>2, <1>3, <1>4 DEF TokensInv, Done
  <2> QED
    BY <1>4, <2>1, <2>2 DEF Arrived
<1> QED
  BY <1>1, <1>5, <1>6

THEOREM PaymentInvariant == Spec => []PaymentInv
<1>1. PaymentInv /\ [Next]_vars => PaymentInv'
  BY NextTypes, NextWallets, NextIssue, NextTokens, NextNonces, NextFinal DEF PaymentInv
<1> QED
  BY <1>1, InitPaymentInv, PTL DEF Spec

----------------------------------------------------------------------------
LEMMA ReceivedWhole ==
  ASSUME PaymentInv, NEW i \in Invoices, invoice[i] # Nothing
  PROVE  /\ balances[WitnessId(i)] \in Nat /\ balances[RealUtxo(i)] \in Nat
         /\ invoice[i].amount \in Nat
         /\ Arrived(i)
<1>1. TypesOK /\ TokensInv
  BY DEF PaymentInv
<1>2. WitnessId(i) \in L!Accounts /\ RealUtxo(i) \in L!Accounts
  BY <1>1, SealFacts DEF WitnessId, TypesOK
<1>3. invoice[i].amount \in Nat
  BY <1>1, WidthAssumption DEF TypesOK
<1> QED
  BY <1>1, <1>2, <1>3 DEF TypesOK, TokensInv

(* However often the payer repeats a call and however late its deploys are *)
(* evaluated, an invoice is paid at most once and with the amount it asks  *)
(* for (signature_utils.rs:237-296, rho20_contract.rho:311).               *)
THEOREM InvoicesPaidOnce == Spec => []PaidAsInvoiced
<1>1. PaymentInv => PaidAsInvoiced
  <2> SUFFICES ASSUME PaymentInv, NEW i \in Invoices, invoice[i] # Nothing
               PROVE  /\ Received(i) \in {0, invoice[i].amount}
                      /\ Done("transfer", i) => Received(i) = invoice[i].amount
    BY DEF PaidAsInvoiced, Done
  <2> QED
    BY ReceivedWhole DEF Received, Arrived
<1> QED
  BY <1>1, PaymentInvariant, PTL

(* rho20_contract.rho:434 replaces the entry of the real UTXO: no claim    *)
(* that is retried or late finds tokens on both sides.                     *)
THEOREM ClaimsNeverOverwrite == Spec => []ClaimsFindEmptyUtxo
<1>1. PaymentInv => ClaimsFindEmptyUtxo
  <2> SUFFICES ASSUME PaymentInv, NEW d \in sent, d.kind = "claim"
               PROVE  balances[WitnessId(d.invoice)] = 0 \/ balances[RealUtxo(d.invoice)] = 0
    BY DEF ClaimsFindEmptyUtxo
  <2>1. d.invoice \in Invoices /\ invoice[d.invoice] # Nothing
    BY SentIsSigned, DeployKinds DEF PaymentInv, TypesOK
  <2> QED
    BY <2>1, ReceivedWhole DEF Arrived
<1> QED
  BY <1>1, PaymentInvariant, PTL

(* rho20_contract.rho:305-320: whatever widths its numbers pass through, a *)
(* transfer the payer signed is refused only because its nonce was used.   *)
THEOREM TransfersRefusedAsReplays == Spec => []RefusedOnlyAsReplay
<1>1. PaymentInv => RefusedOnlyAsReplay
  BY DEF PaymentInv, NoncesInv
<1> QED
  BY <1>1, PaymentInvariant, PTL

(* executor.rs:1195-1265: the finalized state a payee reads after his      *)
(* claim returned holds what the claim moved.                              *)
THEOREM ClaimsAreRead == Spec => ClaimedIsRead
<1> DEFINE ReadsClaim ==
      query # NoQuery /\ query' = NoQuery /\ query.call = "balance" /\ result' # Error =>
        \A d \in asked :
          d.kind = "claim" /\ outcome[d] = "succeeded" /\ query.seal = RealUtxo(d.invoice)
            => result' = Number(invoice[d.invoice].amount)
<1>1. PaymentInv /\ QueryType /\ [Next]_vars => [ReadsClaim]_vars
  <2> SUFFICES ASSUME PaymentInv, QueryType, [Next]_vars,
                      query # NoQuery, query' = NoQuery, query.call = "balance", result' # Error,
                      NEW d \in asked, d.kind = "claim", outcome[d] = "succeeded",
                      query.seal = RealUtxo(d.invoice)
               PROVE  result' = Number(invoice[d.invoice].amount)
    OBVIOUS
  <2>1. result' = Number(final.balances[query.seal])
    BY AnswerStep DEF Truthful
  <2>2. d \in final.calls
    BY DEF PaymentInv, WalletsInv
  <2> QED
    BY <2>1, <2>2 DEF PaymentInv, FinalInv
<1>2. Spec => []QueryType
  BY InitQueryType, NextQueryType, PTL DEF Spec
<1> QED
  BY <1>1, <1>2, PaymentInvariant, PTL DEF Spec, ClaimedIsRead

=============================================================================
