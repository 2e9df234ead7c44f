# F1r3fly-RGB in TLA+

Formal models of `f1r3fly-rgb`, a Rust crate that keeps RGB20-style tokens in a
Rholang contract on an F1r3fly shard and anchors every state change in a
Bitcoin transaction. The modules are translated from the source under `src/`
(paths below are relative to the repository); TLC checks them on small
instances and TLAPS proves the theorems listed here for all values of the
constants.

## 1. The system

| Part | Source | State it keeps | Operations |
|---|---|---|---|
| RHO20 contract | `src/templates/rho20_contract.rho` | balance map (with the unallocated supply), owners, used nonces, all on channels of the shard | issue, transfer, claim; balanceOf, ownerOf, getMetadata; registration with insertSigned |
| Executor | `src/executor.rs` | derivation index, auto_derive, cache of contract metadata | deploy_contract, call_method, execute, query_state, query_by_registry_uri, is_block_finalized, key getters |
| Contract handle | `src/contract.rs` | contract id, its executor, its anchor tracker | issue, call_method, balance, owner_of |
| Collection | `src/contracts.rs` | shared executor, map of handles | issue, register, get, list |
| Anchor tracker | `src/bitcoin_anchor.rs` | seals, witnesses, links both ways, anchors; one JSON file | Pile methods, add/remove anchor, save, load |
| Consignment | `src/consignment.rs` | a message: state proof, anchor, seals, witness transactions | new, validate, to/from bytes |
| Tapret, OP_RETURN | `src/tapret.rs`, `src/opreturn.rs` | none; they change a transaction | embed, extract, verify, create anchor |
| Invoice | `src/invoice.rs` | none | generate, parse, extract_seal |
| Signatures | `src/signature_utils.rs` | none | sign issue, transfer, claim; generate_nonce |
| Template library, errors, lib, CI | `src/contract_library.rs`, `src/error.rs`, `src/lib.rs`, `ci/` | none | substitution and validation of templates; re-exports |

**How they interact.** A wallet calls the collection or a handle. The handle
calls its executor, which sends a deploy to a node, waits for a block and its
finalization with bounded attempts, and computes a state hash from block hash
and deploy id. The handle then records the seals under the operation's id in
its tracker. The wallet commits the state hash in a Bitcoin transaction
(Tapret or OP_RETURN), stores the anchor in the tracker and packs a
consignment. The recipient checks finality with an executor of its own and the
commitment in the transaction it was given. On the shard the contract's
methods are processes that meet on channels.

**Where it is hard.** Reductions of one deploy interleave, and balance writes
are sent without being awaited. A caller that times out does not withdraw its
deploy: it lands later, beside the retry. A process that crashes leaves
deploys in flight at indices its successor, restored from an older save, does
not know of. The derivation index is copied into clones. Numbers pass through
u64, i64, decimal text and the contract's 64-bit Int. Queries read the last
finalized state, which is behind what has been evaluated. Operation ids are
hashes of inputs, so a repeated call has the id of the first. A finalized block may hold a deploy that ended in an error. The fields
of a consignment are decoded one by one, from whoever packed it. The tracker's
file is rewritten in place. `PROJECT.json` lists each hazard at its line with the properties that cover it.

**What makes each part correct.**

- *RHO20*: the supply is fixed; nothing is moved without the owner's (or
  deployer's) signature and a fresh nonce; a call takes effect wholly or not
  at all; every call is answered.
- *Deployment*: the contracts a process knows keep distinct ids and are not
  initialised anew by deploys meant for others; what deploy_contract reports as
  done is at its URI; what an executor believes to be deployed is, unless its
  deploy ended in an error. All of this through failures, crashes and restores.
- *Tracker*: the two link maps mirror each other; no listed witness is
  unknown; what comes back from disk is what was last committed.
- *Payment*: an invoice is paid at most once and with the amount it asks for,
  however often a call is repeated; no claim meets tokens it would replace; a
  payment is refused for nothing but a nonce already used.
- *Queries*: what a reader is told is true of the finalized state, and the lack
  of an answer is an error.
- *Consignment*: whatever results its fields come from, an accepted consignment
  has a final block, and a transfer's transaction commits to its state hash,
  which is that of a final deploy; one transaction does not prove two states.

## 2. Modules

| Module | What it is |
|---|---|
| `Rho20` | the contract, one action per reduction that touches shared state |
| `Rho20Proofs` | TLAPS proofs about `Rho20`, however calls overlap |
| `TokenLedger` | abstract specification: every call takes effect in one step |
| `TokenLedgerProofs` | TLAPS proofs about the abstract ledger |
| `Rho20Refinement` | refinement mapping from `Rho20` to `TokenLedger` |
| `Rho20RefinementProofs` | TLAPS proof of the refinement, and what the contract inherits by it |
| `Deployment` | deploy_contract, upgrades, clones, late deploys, crashes and restores, the registry |
| `DeploymentProofs` | TLAPS proofs about `Deployment` |
| `Queries` | the four ways to read a contract: lookup, the node's reply, its parsing |
| `Payment` | from the invoice to the recipient's balance; composes `Queries` with `TokenLedger` |
| `PaymentProofs` | TLAPS proofs about `Payment` and its queries |
| `AnchorTracker`, `AnchorTrackerProofs` | the tracker and its file, and the proofs |
| `Consignment`, `ConsignmentProofs` | call, commitment, anchor, consignment and validation, and the proofs |
| `MCRho20`, `MCAnchorTracker`, `MCPayment`, `MCConsignment` | instances for TLC |

### Rho20

`balances`, `owners` and `usedNonces` are the contract's channels; the nonces are
kept by `Store`, issue's in a set of its own and a transfer's at its `from`.
The contract takes any string for a UTXO, so the requests and the owners range
over `Accounts`, the map key "unallocated" included: a transfer to that key gives
it an owner, whose transfers from it the deployer need not sign. `req` and `pc` hold each call's
arguments and how far it got. A channel that is consumed and put back is one
atomic step. `treeHashMap!("set", ..., *devNull)` is different: nobody waits
for it, so it becomes an element of `pending` that `ApplyWrite` applies
later, in any order. `Serial` says how the calls are made: TRUE is
`call_method`, one deploy per call and one deploy at a time on the shard;
FALSE is one deploy with several calls, which `execute` accepts. A signature
is the key that made it over the fields the contract hashes; claims carry no
nonce and no amount. The parallel read of the destination and the debit's
write are `Debit` then `Credit` with the write pending. issue's and
executeTransfer's bodies have the same shape and share their actions.

`TokenLedger` takes every call in one step, which `Rho20` with `Serial` implements
when its clients keep `WalletOrder`: nobody pays from a seal to itself; the real
UTXO of a claim gets tokens from that claim alone; its witness id is paid by
one transfer, sent again only with its nonce; and no claim names "unallocated".
The contract does not enforce any of this, and the run rho20_unordered shows
what it does when a client breaks the first or the second. No function of the
crate keeps the order either: it is an assumption about the wallet, which
chooses the addresses and the UTXOs.

### Deployment

An index stands for the child key, registry URI and contract id, which are
functions of it. `BeginDeploy` derives the key, moves the index on and stamps
the version before anything is sent; `Send`, `Fail` and `Confirm` are the
awaits. `Evaluate(d, ok)` is the node evaluating a deploy it holds, whether or
not anybody still waits, with the contract's version check (`Initialises`). With
ok FALSE the deploy ends in an error (`erred`): its phlo is used up, a number
in its text is no Int, or it aborts after a failed registration. Its block is
finalized all the same, nothing is registered, and `Confirm` caches it and
returns Ok like any other, because `Landed` asks for the block only.
`ConfirmIssue` is the collection's issue, which clones the executor. The clock
moves forward in steps, or, with `ClockFalls`, anywhere; two deploys may have
one reading.

`Save` is the wallet reading derivation_index, contracts_metadata and the list
of contracts between two calls; `Restart` ends the process at any step and
makes a new one with set_derivation_index, register_contract and
register_loaded_contract. The wallet is external and saves whenever it likes,
so what is restored may be old. `kept` are the contracts the present process
knows, from its own calls or from the save, and goes back to the save with a
restart. `ContractsDistinct` and `ContractsUntouched` speak of `kept`: a contract
that was saved stays distinct and untouched in every later process. A contract
that returned after the last save is not protected: the process restored
from that save gives its index, key and URI to the next deploy, which
initialises it anew. A wallet has to save after every deploy, and nothing in the
crate makes it do so.

### Queries

`Ask` looks the contract up in the reader's cache (query_by_registry_uri needs
none), `NodeReplies` lets the node evaluate the query on the finalized state
and wrap the answer, alone or in a tuple with a continuation, `NodeFails` is
every failure to get an expr array. `Parsed` is parse_rholang_result,
`Unparsed` what query_by_registry_uri does instead, `Balance` and `Owner` what
the handle makes of the JSON. The module has no behaviours of its own.

### Payment

`GenerateInvoice` refuses a zero amount; `Sign` parses the invoice and signs
the transfer to the invoice's witness id with a nonce drawn at that second;
`Transfer` and `Claim` are the calls, made again with the same signed parameters
after `Fail`; `Evaluate` is the shard evaluating a deploy it holds, with the
outcome `TokenLedger` gives it, or none if a number is no 64-bit Int; `Finalize`
makes everything evaluated so far final; `Return` is a call that saw its deploy
final. `Half` stands for 2^63: an amount above it is signed as another number
than the one sent, and is not parsed at all. The supply is any u64 as well: with
one that is no Int the contract's own deploy cannot be parsed, so nothing is
registered (`Land`). Three assumptions are about the wallet, which is not in the
repository: it takes a new address for each invoice, it claims to a real UTXO
of its own for each, and it repeats a failed call with the parameters it signed.
They are part of the model and no property restates them. The last one matters:
a wallet that drew a fresh nonce for a retry could pay twice, since nothing in
the code ties two deploys of one payment together.

### AnchorTracker

`memory` is the struct, `file` the JSON file. Each method is an action;
`fs::write` is two steps with `Torn` in between. `committed` is a history
variable: the tracker last saved whole. Panics are a `Stop`. The link
maps are lists, as in the code, and may name a link twice. The methods that
only read are not modelled.

### Consignment

State hashes are named by the deploy they belong to, since they hash the
block and the deploy id; deploys of one opid share the tracker's slots. The
shard puts deploys in numbered blocks, several in one if it likes (`Include`),
and finalizes the blocks in order (`Finalize`). The contract accepts or refuses
each call when it is included, and a repeated call by its nonce once one was
accepted; no handler reads that answer. A transaction is a sequence of outputs
and what its taproot output commits to. The wallet is external: it embeds,
replaces transactions and stores anchors in any order, also wrong ones.

A consignment has a block, a state hash, an anchor, a transaction and seals of
its own. `Pack` is `new`, which fills them from one result; `Decode` is
`from_bytes`, which takes any block, final or not, any state hash, any anchor
and the transaction at hand, in every combination. `Accept` is `validate` returning
Ok: finality of the block and commitment to the state hash, never compared with
each other (`Valid`). What the model does assume is that a transaction commits
only to state hashes that execute returned.

## 3. Runs

All runs have CHECK_DEADLOCK FALSE: a client may stop calling, and the bounds
stop every behaviour in the end.

| Run | Module | Bounds | What it shows |
|---|---|---|---|
| rho20_serial | MCRho20 | 4 seals and the key "unallocated", 3 keys, 2 nonces, supply 3, 4 calls out of 13 requests | TypeOK, SupplyFixed, FundedSealsOwned, refinement of TokenLedger; that its requests keep WalletOrder is an ASSUME of MCRho20 |
| rho20_overlap | MCRho20 | 3 overlapping calls out of 6 | NonceOnce; CallsComplete under fairness |
| rho20_unordered | MCRho20 | 3 calls out of 4 requests | SupplyFixed is violated (see findings) |
| deployment | Deployment | 1 clone, indices 0..2, clock 1..3, 3 deploys, 1 of them in error | KnownIsRegistered, ContractsDistinct, ContractsUntouched, UpgradeInstalled |
| deployment_clones | Deployment | 1 clone, which deploys, clock 1..2, 2 deploys | ContractsDistinct is violated |
| deployment_errored | Deployment | no clone, a clock that may be set back, 2 deploys, 1 of them in error | CachedIsRegistered is violated |
| anchor_tracker | MCAnchorTracker | 2 operations, 2 witnesses, 2 links each, 2 changes between commits | LinksSymmetric, LinkedWitnessesKnown, LoadRestoresCommit |
| consignment | MCConsignment | 2 opids, 2 deploys in 1 or 2 blocks, 3 outputs, 1 consignment; no call refused | SealsFollowFinality, AcceptedIsProven, OneStatePerTransaction, EmbeddingKeepsTx |
| consignment_seals, consignment_refused | Consignment | 1 opid, 1 deploy | SealsSpendable and AcceptedTransferMade are violated |
| payment | MCPayment | 2 invoices, 2 addresses, supply 2, Half 32, amounts 1, 2 and 34, 2 random parts, 1 failed call | PaidAsInvoiced, ClaimsFindEmptyUtxo, RefusedOnlyAsReplay, ClaimedIsRead, AnswersTrue |
| payment_nonces | MCPayment | the same | RefusedOnlyAsRetry is violated |

*Why the bounds are enough.* In `rho20_serial` four calls are the shortest
sequence with issue, transfer, claim and a spend of the claimed UTXO; the
requests include a wrong signer, a replayed nonce, a zero amount, an
amount that is exactly and one that is more than the balance, and payments to and
from "unallocated". The requests leave out self-transfers and occupied claims
because rho20_unordered shows what these do; `rho20_serial` shows that nothing else in them changes the supply. In
`rho20_overlap` two calls can race for a nonce while a third holds what they
need. In `deployment` two index moves, three clock readings, three deploys and one
clone give a late deploy, its retry, an upgrade of either, an error in any one
and a restart between any two of them. In `payment` one failed call gives a late deploy beside its
retry, in a transfer or in a claim; two invoices and two random parts of one
second give colliding nonces; 34 is to 64 what an amount above 2^63 is to 2^64,
and a supply of 2 covers two payments of 1 and leaves too little after one of
2, so an insufficient balance occurs. The clock stands still there because nonces of different
seconds never collide, which makes one second the hard case; two
failures with the amounts 2 and 34 and a supply of 3 (three million states) find
nothing more. The tracker's properties
relate one operation to one witness, so two of each give every sharing. In
`consignment` two deploys give repeated opids and two hashes in one
transaction, and a block that is final beside one that is not; one consignment
suffices for the properties, each of which speaks of one accepted consignment
against all deploys and blocks. Whether a call is refused matters to
AcceptedTransferMade alone, so the other runs refuse none but repeated calls.

*Findings.* The violation runs are recorded in `PROJECT.json` with the lines
they contradict.

- A transfer from a seal to itself changes the supply, and so does a claim onto a
  funded UTXO: either request of rho20_unordered alone gives a trace, and the
  shorter one is the self-transfer's.
- Clones reuse indices (deployment_clones).
- A deploy that ended in an error is cached and reported Ok (deployment_errored).
- An OP_RETURN transfer can assign tokens to the OP_RETURN output
  (consignment_seals); a transfer the contract refused yields a consignment that
  validates (consignment_refused).
- A payment may be refused because a payment of another invoice got its nonce in
  the same second, against "unique" (payment_nonces). In the run payment this is
  the one reason besides a retry for which a payment is refused, and
  RefusedOnlyAsReplay says so.

*Observations without a run.* A process restored from a save older than the last
deploy derives that deploy's key and URI again, against
`src/executor.rs:116-117` and `:247`, and the contract that returned Ok there
is initialised anew. After the clock was set back an upgrade is finalized and
reported Ok while the older contract stays at the URI, against
`src/executor.rs:228`: with ClockFalls = TRUE in `Deployment.cfg` TLC finds
UpgradeInstalled violated. Once a deploy with auto_derive has landed,
get_child_key gives the next index's key, against `src/executor.rs:852-854`.
`validate` asks whether the block is final and never compares it with the state
hash, which it does not recompute, although `src/consignment.rs:255-256` calls the state
hash verified through the block's finality; an accepted consignment may name the
block of one deploy and the state hash of another. A transfer to the string "unallocated" registers an
owner for the map key of the unallocated supply, who may spend the supply
without the deployer's signature; the requests of rho20_serial include both
steps, and no property of the ledger excludes them. A genesis consignment's state hash is
compared with nothing. Two calls evaluated in one deploy read one
balance before either write is applied, against
`src/templates/rho20_contract.rho:55-56`; no function of the crate builds such
a deploy, though execute accepts one. Switching auto_derive off keeps the index
where automatic deploys left it, while `src/executor.rs:120` speaks of index 0.
query_by_registry_uri says "same parsing logic as query_state" (line 815) and
returns the first expression as it came, or an empty object where query_state
reports an error. An invoice's nonce never reaches its seal, which
`src/invoice.rs:84` gives as its purpose. `src/contract_library.rs:28-29` lists
methods totalSupply and unallocatedSupply the template does not have: asking
for them is an error. owner_of's case "Nil from Rholang becomes JSON null"
cannot occur, because query_state turns Nil into an error.

*Fairness.* `Rho20`: weak fairness of every call's steps and of the map's
writes, which is the shard reducing what can be reduced; clients owe
nothing. The other modules have no liveness properties. That deploy_contract
returns would rest on the await of deploy_with_timestamp, which has no attempts
or timeout in this code; and nothing in it makes a wallet repeat a call, claim
or accept, so no payment needs to arrive.

## 4. Proofs

All proofs are checked by tlapm; constants are arbitrary under the named
assumptions of each module.

- `Rho20Proofs!TypeCorrect` (Spec => []TypeOK). TypeOK is inductive together
  with AmountsPositive (a call past authorisation that is no claim has a
  positive amount): a debit is computed from the very balance it was compared
  with, and a credit adds, so no balance and no write in flight is negative
  even when calls overlap.
- `Rho20Proofs!NonceReplayProtected` (Spec => []NonceOnce). NonceOnce is not
  inductive; the strengthening says that a call past the nonce check has its
  nonce in the account's set, so the step that lets a second call past it is
  not enabled.
- `TokenLedgerProofs!LedgerKeepsTokens`: the abstract ledger, for calls in
  WalletOrder, keeps the number of tokens (`SupplyKept`), leaves none without an
  owner (`FundedOwned`) and lets no claim with tokens meet others at its real
  UTXO (`ClaimTargetsEmpty`). The supply is the cardinality of a set of tokens,
  pairs of an account and a number, instead of a recursive sum: a move is a bijection that
  takes the last tokens of one account and appends them to the other. The third
  part is not inductive: `UnpaidClaimsEmpty` adds that both seals of a claim are
  empty until the nonce of the transfer to its witness id is used, after which
  that transfer cannot happen again.
- `Rho20RefinementProofs`: `SerialImplementsLedger` (ImplementsLedger),
  `SerialSupplyFixed` (SupplyFixed) and `SerialFundedSealsOwned`
  (FundedSealsOwned), assuming `Serial` and `WalletOrder` of the requests; both are needed, as
  the run that violates SupplyFixed shows for the order. `SerialInv` says that one call
  is at work, its unawaited writes included, that it debits before it
  credits, that no two writes in flight are to one account, and that the
  owner who signed is still the owner. The mapping picks the call at work with CHOOSE;
  `Mapped` states what it yields without it. Then the step that
  finds the balance sufficient (`Debit`, `Migrate`) is the ledger's Pay or Claim,
  a short or refused call its Short or Refuse, and everything else, each delayed write
  included, a stutter. `Migrate` replaces the balance of the real UTXO where the ledger adds
  to it, so the proof carries the ledger's own invariant along: both are the
  same because the UTXO is empty.
- `AnchorTrackerProofs`: `LinksMirrored`, `LinkedNeverPanics`,
  `LoadIsExact`, `TrackerTypes`. The invariant must hold of the file and of
  the committed copy as well as of memory, and says that a file that parses
  equals the committed tracker.
- `DeploymentProofs`: `DeploymentTypeOK`; `CacheIsRegistered`
  ([]KnownIsRegistered), strengthened with "an evaluated deploy left its URI at
  its own version or a later one, or ended in an error", which is what a landed
  deploy's caller relies on; it needs no assumption about clones or the clock.
  `DistinctWithoutCloneDeploys` ([]ContractsDistinct) assumes CloneDeploys =
  FALSE, `UntouchedWithoutCloneDeploys` ([]ContractsUntouched) and
  `UpgradesInstalled` ([]UpgradeInstalled) also ClockFalls = FALSE. Their
  invariant says that the contracts the process or the save knows lie below the
  index of the call in progress and below the index saved with them, that the
  call in progress carries the latest version there is, and that
  whatever is in flight at a kept contract's index, left there by failed calls or
  lost processes, is older than the contract, so that the version check turns it
  away. The assumptions are needed: without the first the run deployment_clones violates
  ContractsDistinct, without the second TLC finds UpgradeInstalled violated.
- `PaymentProofs`: `InvoicesPaidOnce` ([]PaidAsInvoiced), `ClaimsNeverOverwrite`
  (ClaimsFindEmptyUtxo), `TransfersRefusedAsReplays` ([]RefusedOnlyAsReplay), `ClaimsAreRead`
  (ClaimedIsRead) from one inductive
  invariant, `PaymentInv` (`PaymentInvariant`). Its parts: an invoice has an
  address of its own and a transfer is signed for its invoice's amount
  (`WalletsInv`); the payer owns the funding UTXO once the issue is evaluated
  (`IssueInv`); the tokens of an invoice are nowhere before a transfer of it
  succeeded, then all at its witness id or all at its real UTXO, and that
  transfer's nonce stays used (`TokensInv`), which is why a late deploy beside
  its retry pays nothing; each nonce used at the funding UTXO was used by a
  transfer that carries it (`NoncesInv`); the amount is final with the claim
  (`FinalInv`). A lemma shows that an amount the contract parses and every nonce
  pass the cast to i64 unharmed, so a signature is never refused.
  `QueriesAnswerTruly` (AnswersTrue): a lemma for each side of the conversion (an
  answer keeps its value through parsing, wrapped or not; the lack of one becomes
  an error) gives the truth of every result.
- `ConsignmentProofs`: `ConsignmentTypeOK`; `SealsNeedFinality`
  ([]SealsFollowFinality); `AcceptedTransfersProven` ([]AcceptedIsProven) and
  `TransactionProvesOneState` ([]OneStatePerTransaction). Nothing relates the
  fields of a consignment to each other, so the proof goes through the
  transaction: results are of final deploys, for good; every hash a transaction
  holds, the one being built and those in consignments, is that of a result
  (or none); validation found the state hash there, hence its deploy is final
  although only another field's block was asked about. The invariant also says
  that what was accepted passed validation, which stays true as blocks only
  become final, and that every transaction has a first output, without which an
  OP_RETURN comparison would say nothing. `EmbeddingKeepsCommitments` (EmbeddingKeepsTx): inserting an output
  moves the payments behind it up by one, a bijection between the payments before
  and after, and leaves the commitments that were there.

Every safety and action property a passing run checks is the statement of a
theorem. Only model-checked are CallsComplete, liveness under fairness, which is
out of the prover's reach, and the violations. Where a step updates
two entries of a function that may be the same one (a move between accounts,
the owners after a claim), the modules write the new function out with one case for each
instead of a chain of EXCEPT, the form the provers handle reliably.

## 5. Not modelled

- Encodings: protobuf of signed tuples, Rholang syntax of parameters but for
  numbers, JSON, URIs, scripts and addresses, invoice text. Hash functions are
  taken as injective, signatures as unforgeable.
- u32 overflow of the derivation index: 2^32 deploys away.
- insertSigned's answer Nil on a bad signature, which both receives on uriOut
  match: only its result, a deploy that ends in an error, is in `Deployment`.
- A deploy with two upgrades of one clock reading: they are one version.
- Methods that only read the tracker.
- The ledger a contract has after an upgrade: ContractsUntouched says which
  deploys may not empty it, not what the owner of an upgraded contract finds.
- The template library: the executor substitutes on its own and does not call it.
- The Bitcoin chain: confirmations, replacement by others, reorganisations.
- F1r3fly consensus: a finalized block stays final.

## 6. Plan

Done in this order, because the contract holds the money and everything
else only carries it: Rho20 and its ledger, Deployment, AnchorTracker,
Consignment and their proofs; then restarts in Deployment, the contract's answer
in Consignment, Queries, Payment; then the proofs about Payment, of the ledger's
supply and of the refinement.

Next:

1. An upgrade that starts the ledger anew, in a composition of `Deployment`
   with `TokenLedger`.
2. `ContractsDistinct` and `ContractsUntouched` with clones that deploy, under the
   weakest rule about their indices that suffices.
3. The statuses of witnesses in a batch (`src/bitcoin_anchor.rs:553`), which no
   property covers.
