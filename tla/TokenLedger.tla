---------------------------- MODULE TokenLedger ----------------------------
(***************************************************************************)
(* What the RHO20 contract promises: a ledger on which every call takes    *)
(* effect in one step, or in none.  A call that succeeds consumes its      *)
(* nonce, moves the amount and registers the new owner at once; a call     *)
(* whose source is short consumes its nonce alone; a refused call changes  *)
(* nothing.  Rho20 with Serial implements it when clients keep WalletOrder *)
(* (see Rho20Refinement).                                                  *)
(***************************************************************************)
EXTENDS Integers, FiniteSets

CONSTANTS Seals, Keys, Nonces, TotalSupply, Deployer, Unallocated, NoOwner, Requests, Calls

VARIABLES
  balances, owners, usedNonces,
  answer   \* what each call was told, "none" before it took effect

vars == <<balances, owners, usedNonces, answer>>

Accounts == Seals \cup {Unallocated}
Stores == {<<"issue", Unallocated>>} \cup ({"transfer"} \X Accounts)
Store(r) == <<r.method, r.from>>

Init ==
  /\ balances = [a \in Accounts |-> IF a = Unallocated THEN TotalSupply ELSE 0]
  /\ owners = [a \in Accounts |-> NoOwner]
  /\ usedNonces = [s \in Stores |-> {}]
  /\ answer = [c \in Calls |-> "none"]

Answer(c, result) ==
  /\ answer[c] = "none"
  /\ answer' = [answer EXCEPT ![c] = result]

Move(source, target, amount) ==
  balances' = [a \in Accounts |->
    balances[a] - (IF a = source THEN amount ELSE 0) + (IF a = target THEN amount ELSE 0)]

Use(store, nonce) ==
  /\ nonce \notin usedNonces[store]
  /\ usedNonces' = [usedNonces EXCEPT ![store] = @ \cup {nonce}]

Signed(r) == r.signer = IF r.method = "issue" THEN Deployer ELSE owners[r.from]

(* An issue (from Unallocated) or a transfer. *)
Pay(c, r) ==
  /\ r.method \in {"issue", "transfer"}
  /\ Signed(r)
  /\ r.amount > 0 /\ r.amount <= balances[r.from]
  /\ Use(Store(r), r.nonce)
  /\ Move(r.from, r.to, r.amount)
  /\ owners' = [owners EXCEPT ![r.to] = r.key]
  /\ Answer(c, "succeeded")

(* The whole balance of a witness id moves to the real UTXO, with its owner. *)
Claim(c, r) ==
  /\ r.method = "claim"
  /\ Signed(r)
  /\ balances[r.from] > 0
  /\ Move(r.from, r.to, balances[r.from])
  /\ owners' = [a \in Accounts |->
       IF a = r.to THEN r.signer ELSE IF a = r.from THEN NoOwner ELSE owners[a]]
  /\ Answer(c, "succeeded")
  /\ UNCHANGED usedNonces

Short(c, r) ==
  /\ Signed(r)
  /\ IF r.method = "claim"
     THEN balances[r.from] = 0 /\ UNCHANGED usedNonces
     ELSE balances[r.from] < r.amount /\ Use(Store(r), r.nonce)
  /\ Answer(c, "insufficient")
  /\ UNCHANGED <<balances, owners>>

Refuse(c, r) ==
  /\ \/ ~Signed(r)
     \/ r.method # "claim" /\ (r.amount <= 0 \/ r.nonce \in usedNonces[Store(r)])
  /\ Answer(c, "rejected")
  /\ UNCHANGED <<balances, owners, usedNonces>>

Next ==
  \E c \in Calls, r \in Requests :
    Pay(c, r) \/ Claim(c, r) \/ Short(c, r) \/ Refuse(c, r)

Spec == Init /\ [][Next]_vars

----------------------------------------------------------------------------
(* The order a wallet pays in.  It never pays from a seal to itself.  The  *)
(* real UTXO of a claim gets tokens from that claim alone, and its witness *)
(* id is paid by one transfer, which may be sent again with its nonce;     *)
(* neither is the map key of the unallocated supply.                       *)
InWalletOrder(requests) ==
  /\ \A r \in requests : r.from # r.to
  /\ \A k \in requests : k.method = "claim" =>
       /\ Unallocated \notin {k.from, k.to}
       /\ \A r \in requests :
            /\ r.to = k.to => r.method = "claim" /\ r.from = k.from
            /\ r.to = k.from =>
                 /\ r.method # "claim"
                 /\ \A q \in requests : q.to = k.from =>
                      Store(q) = Store(r) /\ q.nonce = r.nonce

WalletOrder == InWalletOrder(Requests)

(* A token is an account and its number there. *)
Tokens == UNION {{a} \X (1..balances[a]) : a \in Accounts}

(* No call makes or destroys a token. *)
SupplyKept == IsFiniteSet(Tokens) /\ Cardinality(Tokens) = TotalSupply

(* A seal with tokens has an owner, who can move them on. *)
FundedOwned == \A s \in Seals : balances[s] > 0 => owners[s] # NoOwner

(* In a wallet's order a claim that finds tokens finds none at the real    *)
(* UTXO: those of the witness id moved there with an earlier claim, or     *)
(* have yet to arrive.                                                     *)
ClaimTargetsEmpty ==
  \A k \in Requests : k.method = "claim" =>
    balances[k.from] = 0 \/ balances[k.to] = 0
=============================================================================
