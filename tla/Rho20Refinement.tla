-------------------------- MODULE Rho20Refinement --------------------------
(***************************************************************************)
(* How one-deploy-at-a-time evaluation of Rho20 implements TokenLedger.    *)
(***************************************************************************)
EXTENDS Rho20

(* The refinement mapping.  A call takes effect when its source is found   *)
(* to cover it: from then on the rest of its evaluation is counted as      *)
(* done, until then its nonce as unused.                                   *)
Committed == {"destination", "owner", "succeeded"}

Settled(acc) ==
  LET written == {x \in pending : x.account = acc}
      owing == {c \in Calls : pc[c] = "destination" /\ req[c].to = acc}
  IN  IF written # {} THEN (CHOOSE x \in written : TRUE).value
      ELSE IF owing # {} THEN balances[acc] + req[CHOOSE c \in owing : TRUE].amount
      ELSE balances[acc]

SettledOwners ==
  LET open == {c \in Calls : pc[c] \in {"destination", "owner"}}
  IN  IF open = {} THEN owners ELSE OwnersAfter(req[CHOOSE c \in open : TRUE])

SettledNonces ==
  [st \in Stores |-> usedNonces[st] \
     {req[c].nonce : c \in {d \in Calls :
        pc[d] = "source" /\ req[d].method # "claim" /\ Store(req[d]) = st}}]

AnswerOf(c) ==
  IF pc[c] \in Committed THEN "succeeded"
  ELSE IF pc[c] \in Answered THEN pc[c] ELSE "none"

Ledger == INSTANCE TokenLedger WITH
  balances <- [acc \in Accounts |-> Settled(acc)],
  owners <- SettledOwners,
  usedNonces <- SettledNonces,
  answer <- [c \in Calls |-> AnswerOf(c)]

(* Evaluated one deploy at a time, the contract implements the atomic      *)
(* ledger: each call takes effect at most once, all of it or none, and is  *)
(* answered with what it did (rho20_contract.rho:396, "Atomically migrates *)
(* BOTH balance AND ownership", and the success and error answers).        *)
ImplementsLedger == Ledger!Spec
=============================================================================
