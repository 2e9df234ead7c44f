------------------------------ MODULE MCRho20 ------------------------------
(***************************************************************************)
(* TLC instances of Rho20: three seals besides the witness id w, two       *)
(* holders and the deployer, two nonces, and the calls a wallet of this    *)
(* repository makes with them, the refused and the repeated ones included, *)
(* and payments to and from the key of the unallocated supply.             *)
(***************************************************************************)
EXTENDS Rho20Refinement, TLC

CONSTANTS a, b, w, u, dave, alice, bob, n1, n2

Issue(to, amount, key, nonce, signer) ==
  [method |-> "issue", from |-> Unallocated, to |-> to, amount |-> amount,
   key |-> key, nonce |-> nonce, signer |-> signer]
Transfer(from, to, amount, key, nonce, signer) ==
  [method |-> "transfer", from |-> from, to |-> to, amount |-> amount,
   key |-> key, nonce |-> nonce, signer |-> signer]
Claim(witness, utxo, signer) ==
  [method |-> "claim", from |-> witness, to |-> utxo, amount |-> 0,
   key |-> signer, nonce |-> n1, signer |-> signer]

\* A seal to be claimed is paid to by one request only, and only a claim
\* pays to the real UTXO: the order the wallet follows.
WalletCalls ==
  { Issue(a, 2, alice, n1, dave), Issue(b, 2, bob, n2, dave),
    Issue(a, 1, alice, n2, dave), Issue(b, 1, bob, n2, alice),
    Transfer(a, w, 1, bob, n1, alice), Transfer(a, b, 1, bob, n1, alice),
    Transfer(a, b, 2, bob, n2, alice), Transfer(a, b, 0, bob, n2, alice),
    Transfer(u, b, 1, bob, n1, bob),
    Transfer(a, Unallocated, 1, bob, n1, alice), Transfer(Unallocated, b, 2, bob, n1, bob),
    Claim(w, u, bob), Claim(w, u, alice) }

ASSUME WalletCallsInOrder == Requests = WalletCalls => Ledger!WalletOrder

\* A payment from a seal to itself, and a claim to a seal that is paid to.
UnorderedCalls ==
  { Issue(a, 2, alice, n1, dave), Transfer(a, a, 1, alice, n1, alice),
    Issue(w, 1, alice, n2, dave), Claim(w, a, alice) }

\* Two claims of one witness id, and two payments from one seal.
OverlappingCalls ==
  { Issue(a, 2, alice, n1, dave), Issue(b, 2, bob, n2, dave),
    Transfer(a, w, 2, bob, n1, alice), Transfer(a, b, 2, bob, n2, alice),
    Transfer(a, b, 0, bob, n1, alice), Claim(w, u, bob) }

Symmetry == Permutations(Calls)
=============================================================================
