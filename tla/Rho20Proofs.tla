---------------------------- MODULE Rho20Proofs ----------------------------
(***************************************************************************)
(* Theorems about Rho20 for every set of seals, keys, nonces, calls and    *)
(* requests, with calls overlapping or not.                                *)
(***************************************************************************)
EXTENDS Rho20, TLAPS

(* A call at one of the steps only issues and transfers take is one, and   *)
(* an issue or a transfer that got past authorisation has a positive       *)
(* amount: a credit computed later cannot lower the balance it adds to.    *)
AmountsPositive ==
  \A c \in Calls :
    /\ pc[c] \in {"nonce", "destination"} => req[c].method # "claim"
    /\ /\ pc[c] \in {"nonce", "source", "destination", "owner"}
       /\ req[c].method # "claim"
       => req[c].amount > 0

(* TypeOK is inductive only together with AmountsPositive: Credit adds the *)
(* amount of a call that was authorised several steps before.              *)
TypeInv == TypeOK /\ AmountsPositive

(* The nonce of every call that got past the nonce check is in the set the *)
(* check reads: the fact on which NonceOnce rests.                         *)
NonceRecorded ==
  \A c \in Calls : NonceSpent(c) => req[c].nonce \in usedNonces[Store(req[c])]

(* The inductive strengthening of NonceOnce. *)
NonceInv == NonceRecorded /\ NonceOnce

(* A request's fields have the types the actions rely on, and a call that  *)
(* spends a nonce has a set to record it in (the constants' assumptions).  *)
LEMMA RequestType ==
  ASSUME NEW r \in Requests
  PROVE  /\ r \in Request
         /\ r.method \in {"issue", "transfer", "claim"}
         /\ r.from \in Accounts /\ r.to \in Accounts
         /\ r.amount \in Int /\ r.key \in Keys /\ r.nonce \in Nonces
         /\ r.signer \in Keys
         /\ r.method # "claim" => Store(r) \in Stores
         /\ r # NoCall
  BY RequestAssumption DEF Request, Stores, Store

LEMMA InitTypeInv == Init => TypeInv
  BY SupplyAssumption DEF Init, InitialBalances, TypeInv, TypeOK, AmountsPositive, Accounts

LEMMA NextTypeInv == TypeInv /\ [Next]_vars => TypeInv'
<1> SUFFICES ASSUME TypeInv, [Next]_vars PROVE TypeInv'
  OBVIOUS
<1> USE DEF TypeInv, TypeOK, AmountsPositive, Running, Answered
<1>1. CASE UNCHANGED vars
  BY <1>1 DEF vars
<1>2. ASSUME NEW c \in Calls, NEW r \in Requests, Submit(c, r)
      PROVE  TypeInv'
  BY <1>2 DEF Submit, Goto
<1>3. ASSUME NEW c \in Calls, Authorize(c)
      PROVE  TypeInv'
  <2>1. Authorised(req[c]) /\ pc[c] = "authorize"
    BY <1>3 DEF Authorize
  <2>2. TypeOK'
    BY <1>3 DEF Authorize, Goto, callState
  <2>3. AmountsPositive'
    BY <1>3, <2>1 DEF Authorize, Authorised, Goto, callState
  <2> QED BY <2>2, <2>3
<1>4. ASSUME NEW c \in Calls, Refuse(c) \/ RefuseReplay(c) \/ Decline(c)
      PROVE  TypeInv'
  BY <1>4 DEF Refuse, RefuseReplay, Decline, Goto, callState
<1>5. ASSUME NEW c \in Calls, ConsumeNonce(c)
      PROVE  TypeInv'
  <2>1. req[c] \in Requests
    BY <1>5 DEF ConsumeNonce
  <2>2. usedNonces' \in [Stores -> SUBSET Nonces]
    BY <1>5, <2>1, RequestType DEF ConsumeNonce, NoncesAfter
  <2>3. TypeOK'
    BY <1>5, <2>2 DEF ConsumeNonce, Goto
  <2>4. AmountsPositive'
    BY <1>5 DEF ConsumeNonce, Goto
  <2> QED BY <2>3, <2>4
<1>6. ASSUME NEW c \in Calls, Debit(c)
      PROVE  TypeInv'
  <2>1. req[c] \in Requests
    BY <1>6 DEF Debit
  <2>2. WriteOf(c, req[c].from, balances[req[c].from] - req[c].amount)
          \in [call : Calls, account : Accounts, value : Nat]
    BY <1>6, <2>1, RequestType DEF Debit, Covers, WriteOf
  <2>3. TypeOK'
    BY <1>6, <2>2 DEF Debit, Goto
  <2>4. AmountsPositive'
    BY <1>6 DEF Debit, Goto
  <2> QED BY <2>3, <2>4
<1>7. ASSUME NEW c \in Calls, Migrate(c)
      PROVE  TypeInv'
  <2>1. req[c] \in Requests
    BY <1>7 DEF Migrate
  <2>2. ClaimWrites(c, req[c]) \subseteq [call : Calls, account : Accounts, value : Nat]
    BY <2>1, RequestType DEF ClaimWrites, WriteOf
  <2>3. TypeOK'
    BY <1>7, <2>2 DEF Migrate, Goto
  <2>4. AmountsPositive'
    BY <1>7 DEF Migrate, Goto
  <2> QED BY <2>3, <2>4
<1>8. ASSUME NEW c \in Calls, Credit(c)
      PROVE  TypeInv'
  <2>1. req[c] \in Requests
    BY <1>8 DEF Credit
  <2>2. req[c].amount > 0
    BY <1>8 DEF Credit
  <2>3. WriteOf(c, req[c].to, balances[req[c].to] + req[c].amount)
          \in [call : Calls, account : Accounts, value : Nat]
    BY <2>1, <2>2, RequestType DEF WriteOf
  <2>4. TypeOK'
    BY <1>8, <2>3 DEF Credit, Goto
  <2>5. AmountsPositive'
    BY <1>8 DEF Credit, Goto
  <2> QED BY <2>4, <2>5
<1>9. ASSUME NEW c \in Calls, RegisterOwner(c)
      PROVE  TypeInv'
  <2>1. req[c] \in Requests
    BY <1>9 DEF RegisterOwner
  <2>2. OwnersAfter(req[c]) \in [Accounts -> Keys \cup {NoOwner}]
    BY <2>1, RequestType DEF OwnersAfter
  <2>3. TypeOK'
    BY <1>9, <2>2 DEF RegisterOwner, Goto
  <2>4. AmountsPositive'
    BY <1>9 DEF RegisterOwner, Goto
  <2> QED BY <2>3, <2>4
<1>10. ASSUME NEW w \in pending, ApplyWrite(w)
      PROVE  TypeInv'
  BY <1>10 DEF ApplyWrite
<1> QED
  BY <1>1, <1>2, <1>3, <1>4, <1>5, <1>6, <1>7, <1>8, <1>9, <1>10 DEF Next, Step

(* Types hold in every reachable state, so no balance is ever negative     *)
(* (rho20_contract.rho:193, 336: the comparison before each debit).        *)
THEOREM TypeCorrect == Spec => []TypeOK
<1>1. Spec => []TypeInv
  BY InitTypeInv, NextTypeInv, PTL DEF Spec
<1>2. TypeInv => TypeOK
  BY DEF TypeInv
<1> QED BY <1>1, <1>2, PTL

----------------------------------------------------------------------------
LEMMA InitNonceInv == Init => NonceInv
  BY DEF Init, NonceInv, NonceRecorded, NonceOnce, NonceSpent

(* The sets of used nonces only grow, and a call that was past the nonce   *)
(* check keeps its request: so what is recorded stays recorded, and the    *)
(* one call that passes the check finds its nonce recorded by nobody.      *)
LEMMA NextNonceInv == TypeInv /\ NonceInv /\ [Next]_vars => NonceInv'
<1> SUFFICES ASSUME TypeInv, NonceInv, [Next]_vars PROVE NonceInv'
  OBVIOUS
<1> USE DEF NonceInv, NonceRecorded, NonceOnce, NonceSpent
<1> TypeOK
  BY DEF TypeInv
<1>1. CASE UNCHANGED vars
  BY <1>1 DEF vars
<1>2. ASSUME NEW c \in Calls, NEW r \in Requests, Submit(c, r)
      PROVE  NonceInv'
  BY <1>2 DEF Submit, Goto, TypeOK
<1>3. ASSUME NEW c \in Calls, Authorize(c)
      PROVE  NonceInv'
  BY <1>3 DEF Authorize, Goto, TypeOK, callState
<1>4. ASSUME NEW c \in Calls, Refuse(c) \/ RefuseReplay(c)
      PROVE  NonceInv'
  BY <1>4 DEF Refuse, RefuseReplay, Goto, TypeOK, callState
<1>5. ASSUME NEW c \in Calls, ConsumeNonce(c)
      PROVE  NonceInv'
  <2>1. /\ req' = req /\ req[c] \in Requests
        /\ pc' = [pc EXCEPT ![c] = "source"]
        /\ req[c].nonce \notin usedNonces[Store(req[c])]
        /\ usedNonces' = [usedNonces EXCEPT ![Store(req[c])] =
                            usedNonces[Store(req[c])] \cup {req[c].nonce}]
    BY <1>5 DEF ConsumeNonce, Goto, UsedNonce, NoncesAfter, TypeOK
  <2>2. Store(req[c]) \in Stores
    BY <1>5, <2>1, RequestType DEF ConsumeNonce, TypeInv, AmountsPositive
  <2>3. ASSUME NEW d \in Calls, NonceSpent(d)'
        PROVE  /\ req[d].nonce \in usedNonces'[Store(req[d])]
               /\ d # c => NonceSpent(d)
    BY <2>1, <2>2, <2>3 DEF TypeOK
  <2>4. NonceRecorded'
    BY <2>1, <2>3
  <2>5. NonceOnce'
    BY <2>1, <2>3
  <2> QED BY <2>4, <2>5
<1>6. ASSUME NEW c \in Calls, Debit(c) \/ Migrate(c) \/ Decline(c)
      PROVE  NonceInv'
  BY <1>6 DEF Debit, Migrate, Decline, Goto, TypeOK, callState
<1>7. ASSUME NEW c \in Calls, Credit(c) \/ RegisterOwner(c)
      PROVE  NonceInv'
  BY <1>7 DEF Credit, RegisterOwner, Goto, TypeOK
<1>8. ASSUME NEW w \in pending, ApplyWrite(w)
      PROVE  NonceInv'
  BY <1>8 DEF ApplyWrite
<1> QED
  BY <1>1, <1>2, <1>3, <1>4, <1>5, <1>6, <1>7, <1>8 DEF Next, Step

(* However calls overlap, a nonce authorises at most one issue, and at     *)
(* most one transfer of an account: replay protection needs no serial      *)
(* evaluation.                                                             *)
THEOREM NonceReplayProtected == Spec => []NonceOnce
<1>1. Spec => [](TypeInv /\ NonceInv)
  BY InitTypeInv, NextTypeInv, InitNonceInv, NextNonceInv, PTL DEF Spec
<1>2. NonceInv => NonceOnce
  BY DEF NonceInv
<1> QED BY <1>1, <1>2, PTL
=============================================================================
