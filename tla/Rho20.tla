------------------------------- MODULE Rho20 -------------------------------
(***************************************************************************)
(* The RHO20 token contract (src/src/templates/rho20_contract.rho) as the  *)
(* shard evaluates it: one action per reduction that touches shared state. *)
(*                                                                         *)
(* A method call is a chain of reductions.  A channel that is consumed and *)
(* put back (usedNoncesCh, utxoNoncesCh, utxoOwnersCh) is one atomic step, *)
(* since every other reader waits while it is empty.  A write of the       *)
(* balance map, treeHashMap!("set", ..., *devNull), is sent and never      *)
(* awaited: it stays in `pending` until the map applies it, in any order.  *)
(*                                                                         *)
(* With Serial a call starts only once the previous deploy is quiescent:   *)
(* F1r3flyExecutor::call_method sends one call per deploy and the shard    *)
(* evaluates the deploys of a block one after the other.  Without Serial   *)
(* calls overlap, as in one deploy built by hand for                       *)
(* F1r3flyExecutor::execute that makes several calls.                      *)
(***************************************************************************)
EXTENDS Integers, FiniteSets

CONSTANTS
  Seals,        \* UTXO identifiers, witness ids included
  Keys,         \* public keys
  Nonces,
  TotalSupply,
  Deployer,     \* the key substituted for {{DEPLOYER_PUBLIC_KEY}}
  Unallocated,  \* the map key of the supply nobody holds yet
  NoOwner,      \* owners.get(s) is Nil
  NoCall,
  Requests,     \* the method calls clients make
  Calls,        \* identities of the calls one behaviour makes
  Serial

Accounts == Seals \cup {Unallocated}

(***************************************************************************)
(* A signature is the key that made it over the very fields the contract   *)
(* hashes.  An issue draws on Unallocated; a claim moves `from`, the       *)
(* witness id, to `to`, the real UTXO, and its amount, key and nonce are   *)
(* not looked at.  The contract takes any string for a UTXO, the map key   *)
(* of the unallocated supply included.                                     *)
(***************************************************************************)
Request ==
  [method : {"issue", "transfer", "claim"}, from : Accounts, to : Accounts,
   amount : Int, key : Keys, nonce : Nonces, signer : Keys]

(* usedNoncesCh for issue, an entry of utxoNoncesCh for a transfer; a claim *)
(* has none.                                                                *)
Stores == {<<"issue", Unallocated>>} \cup ({"transfer"} \X Accounts)
Store(r) == <<r.method, r.from>>

ASSUME SupplyAssumption == TotalSupply \in Nat
ASSUME KeyAssumption == Deployer \in Keys /\ NoOwner \notin Keys
ASSUME AccountAssumption == Unallocated \notin Seals
ASSUME RequestAssumption ==
  /\ Requests \subseteq Request
  /\ NoCall \notin Requests
  /\ \A r \in Requests : r.method = "issue" => r.from = Unallocated
ASSUME SerialAssumption == Serial \in BOOLEAN

VARIABLES
  balances,    \* the treeHashMap; an absent key reads as 0
  owners,      \* utxoOwnersCh
  usedNonces,  \* usedNoncesCh and utxoNoncesCh
  req,         \* the arguments of each call
  pc,          \* how far each call got; its answer, once it has one
  pending      \* map writes sent and not yet applied

vars == <<balances, owners, usedNonces, req, pc, pending>>
callState == <<owners, usedNonces, req, pending>>

Answered == {"succeeded", "insufficient", "rejected"}
Running == {"authorize", "nonce", "source", "destination", "owner"}

Write == [call : Calls, account : Accounts, value : Int]

Active(c) == pc[c] \in Running \/ \E w \in pending : w.call = c
Quiescent == \A c \in Calls : ~Active(c)

InitialBalances == [a \in Accounts |-> IF a = Unallocated THEN TotalSupply ELSE 0]

Init ==
  /\ balances = InitialBalances
  /\ owners = [a \in Accounts |-> NoOwner]
  /\ usedNonces = [s \in Stores |-> {}]
  /\ req = [c \in Calls |-> NoCall]
  /\ pc = [c \in Calls |-> "idle"]
  /\ pending = {}

Goto(c, label) == pc' = [pc EXCEPT ![c] = label]

----------------------------------------------------------------------------
(* A client's call reaches the contract. *)
Submit(c, r) ==
  /\ pc[c] = "idle"
  /\ Serial => Quiescent
  /\ req' = [req EXCEPT ![c] = r]
  /\ Goto(c, "authorize")
  /\ UNCHANGED <<balances, owners, usedNonces, pending>>

\* Mutant: an issue is accepted from any holder of a key.
IssueUnsigned(r) ==
  /\ r.method = "claim" \/ r.amount > 0
  /\ r.method # "issue" => r.signer = owners[r.from]

(* The amount is positive and the signature is that of the deployer (issue) *)
(* or of the owner peeked from utxoOwnersCh; no owner fits no signer.       *)
Authorised(r) ==
  /\ r.method = "claim" \/ r.amount > 0
  /\ r.signer = IF r.method = "issue" THEN Deployer ELSE owners[r.from]

Authorize(c) ==
  /\ pc[c] = "authorize"
  /\ Authorised(req[c])
  /\ Goto(c, IF req[c].method = "claim" THEN "source" ELSE "nonce")
  /\ UNCHANGED <<balances, callState>>

\* Mutant: no answer on the path of a non-positive amount.
RefuseSignatureOnly(c) ==
  /\ pc[c] = "authorize"
  /\ req[c].method = "claim" \/ req[c].amount > 0
  /\ ~Authorised(req[c])
  /\ Goto(c, "rejected")
  /\ UNCHANGED <<balances, callState>>

Refuse(c) ==
  /\ pc[c] = "authorize"
  /\ ~Authorised(req[c])
  /\ Goto(c, "rejected")
  /\ UNCHANGED <<balances, callState>>

UsedNonce(r) == r.nonce \in usedNonces[Store(r)]

\* Mutant: the set is put back holding the new nonce alone.
LastNonceOnly(r) == {r.nonce}

NoncesAfter(r) == usedNonces[Store(r)] \cup {r.nonce}

(* The nonce set is taken, found without the nonce, and put back with it. *)
ConsumeNonce(c) ==
  /\ pc[c] = "nonce"
  /\ ~UsedNonce(req[c])
  /\ usedNonces' = [usedNonces EXCEPT ![Store(req[c])] = NoncesAfter(req[c])]
  /\ Goto(c, "source")
  /\ UNCHANGED <<balances, owners, req, pending>>

RefuseReplay(c) ==
  /\ pc[c] = "nonce"
  /\ UsedNonce(req[c])
  /\ Goto(c, "rejected")
  /\ UNCHANGED <<balances, callState>>

----------------------------------------------------------------------------
WriteOf(c, a, v) == [call |-> c, account |-> a, value |-> v]

\* Mutant: the source's balance is not compared with the amount.
HasEntry(r) == balances[r.from] >= 0

Covers(r) ==
  IF r.method = "claim" THEN balances[r.from] > 0 ELSE balances[r.from] >= r.amount

(* getOrElse of the source found enough: its debit is sent, unacknowledged, *)
(* while the destination is looked up.                                      *)
Debit(c) ==
  LET r == req[c] IN
  /\ pc[c] = "source"
  /\ r.method # "claim"
  /\ Covers(r)
  /\ pending' = pending \cup {WriteOf(c, r.from, balances[r.from] - r.amount)}
  /\ Goto(c, "destination")
  /\ UNCHANGED <<balances, owners, usedNonces, req>>

\* Mutant: the witness entry is not cleared.
CopyWrites(c, r) == {WriteOf(c, r.to, balances[r.from])}
ClaimWrites(c, r) == {WriteOf(c, r.from, 0), WriteOf(c, r.to, balances[r.from])}

(* claim reads the witness balance and sends both writes in parallel: the  *)
(* real UTXO's entry is replaced, whatever it held.                        *)
Migrate(c) ==
  LET r == req[c] IN
  /\ pc[c] = "source"
  /\ r.method = "claim"
  /\ Covers(r)
  /\ pending' = pending \cup ClaimWrites(c, r)
  /\ Goto(c, "owner")
  /\ UNCHANGED <<balances, owners, usedNonces, req>>

(* The answer "Insufficient ..." or "no balance": the nonce stays consumed. *)
Decline(c) ==
  /\ pc[c] = "source"
  /\ ~Covers(req[c])
  /\ Goto(c, "insufficient")
  /\ UNCHANGED <<balances, callState>>

(* getOrElse of the destination, found or not, and the credit's write. *)
Credit(c) ==
  LET r == req[c] IN
  /\ pc[c] = "destination"
  /\ pending' = pending \cup {WriteOf(c, r.to, balances[r.to] + r.amount)}
  /\ Goto(c, "owner")
  /\ UNCHANGED <<balances, owners, usedNonces, req>>

\* Mutant: a claim deletes the witness's owner and registers none.
OwnersForgotten(r) ==
  IF r.method = "claim"
  THEN [owners EXCEPT ![r.from] = NoOwner]
  ELSE [owners EXCEPT ![r.to] = r.key]

\* A claim deletes the witness id's owner before it sets the real UTXO's.
OwnersAfter(r) ==
  IF r.method = "claim"
  THEN [a \in Accounts |->
          IF a = r.to THEN r.signer ELSE IF a = r.from THEN NoOwner ELSE owners[a]]
  ELSE [owners EXCEPT ![r.to] = r.key]

(* utxoOwnersCh is taken and put back with the new owner, and ret answers. *)
RegisterOwner(c) ==
  /\ pc[c] = "owner"
  /\ owners' = OwnersAfter(req[c])
  /\ Goto(c, "succeeded")
  /\ UNCHANGED <<balances, usedNonces, req, pending>>

(* The tree hash map applies one of the writes sent to it. *)
ApplyWrite(w) ==
  /\ balances' = [balances EXCEPT ![w.account] = w.value]
  /\ pending' = pending \ {w}
  /\ UNCHANGED <<owners, usedNonces, req, pc>>

----------------------------------------------------------------------------
Step(c) ==
  \/ Authorize(c)
  \/ Refuse(c)
  \/ ConsumeNonce(c)
  \/ RefuseReplay(c)
  \/ Debit(c)
  \/ Migrate(c)
  \/ Decline(c)
  \/ Credit(c)
  \/ RegisterOwner(c)

Next ==
  \/ \E c \in Calls, r \in Requests : Submit(c, r)
  \/ \E c \in Calls : Step(c)
  \/ \E w \in pending : ApplyWrite(w)

Spec == Init /\ [][Next]_vars

(* The shard reduces whatever can be reduced; clients owe no call. *)
Fairness ==
  /\ \A c \in Calls : WF_vars(Step(c))
  /\ WF_vars(\E w \in pending : ApplyWrite(w))

FairSpec == Spec /\ Fairness

----------------------------------------------------------------------------
(* Every variable keeps its type; in particular no balance and no write in *)
(* flight is ever negative, however calls overlap: a debit is computed     *)
(* from the very balance it was checked against.                           *)
TypeOK ==
  /\ balances \in [Accounts -> Nat]
  /\ owners \in [Accounts -> Keys \cup {NoOwner}]
  /\ usedNonces \in [Stores -> SUBSET Nonces]
  /\ req \in [Calls -> Requests \cup {NoCall}]
  /\ pc \in [Calls -> {"idle"} \cup Running \cup Answered]
  /\ \A c \in Calls : pc[c] # "idle" => req[c] \in Requests
  /\ pending \subseteq [call : Calls, account : Accounts, value : Nat]

(* c got past the nonce check of an issue or a transfer. *)
NonceSpent(c) ==
  /\ pc[c] \in {"source", "destination", "owner", "succeeded", "insufficient"}
  /\ req[c].method # "claim"

(* Replay protection (rho20_contract.rho:176-184, 289-308): of two calls   *)
(* of one method that draw on the same account with the same nonce at most *)
(* one gets past the nonce check, whatever the calls overlap with and for  *)
(* good.                                                                   *)
NonceOnce ==
  \A c, d \in Calls :
    /\ NonceSpent(c) /\ NonceSpent(d)
    /\ Store(req[c]) = Store(req[d])
    /\ req[c].nonce = req[d].nonce
    => c = d

(* A token is an account and its number there. *)
Tokens == UNION {{a} \X (1..balances[a]) : a \in Accounts}

(* contract_library.rs:18, "Fixed supply set at deployment (never          *)
(* changes)": whenever no deploy is being evaluated there are TotalSupply  *)
(* tokens, those of the unallocated supply included.                       *)
SupplyFixed == Quiescent => Cardinality(Tokens) = TotalSupply

(* Tokens never get stuck: between deploys every seal that holds tokens    *)
(* has a registered owner, whose signature can move them on.               *)
FundedSealsOwned ==
  Quiescent => \A s \in Seals : balances[s] > 0 => owners[s] # NoOwner

(* Every call is answered and its deploy becomes quiescent: no path        *)
(* through the contract forgets `ret` or waits for good.                   *)
CallsComplete ==
  \A c \in Calls : pc[c] = "authorize" ~> (pc[c] \in Answered /\ ~Active(c))
=============================================================================
