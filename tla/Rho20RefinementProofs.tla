----------------------- MODULE Rho20RefinementProofs -----------------------
(***************************************************************************)
(* Theorems about Rho20 evaluated one deploy at a time, for every set of   *)
(* seals, keys, nonces and calls and for the requests of every client that *)
(* keeps the order of a wallet: it implements TokenLedger and inherits     *)
(* what TokenLedgerProofs proves of it.                                    *)
(***************************************************************************)
EXTENDS Rho20Refinement, Rho20Proofs

LP == INSTANCE TokenLedgerProofs WITH
  balances <- [acc \in Accounts |-> Settled(acc)],
  owners <- SettledOwners,
  usedNonces <- SettledNonces,
  answer <- [c \in Calls |-> AnswerOf(c)]

(* One call at a time is being evaluated, its writes included. *)
OneActive == \A c, d \in Calls : Active(c) /\ Active(d) => c = d

(* Writes are sent once the call is committed ...                          *)
WritesCommitted == \A x \in pending : pc[x.call] \in Committed

(* ... the debit before the credit ...                                     *)
DebitsFirst ==
  \A x \in pending : pc[x.call] = "destination" => x.account = req[x.call].from

(* ... and no two of them to one account: the order in which they are      *)
(* applied does not matter.                                                *)
OneWritePerAccount == \A x, y \in pending : x.account = y.account => x = y

(* Nobody takes a seal over between the check of a call's signature and    *)
(* its effect.                                                             *)
StillAuthorised == \A c \in Calls : pc[c] \in {"nonce", "source"} => Authorised(req[c])

SerialInv ==
  OneActive /\ WritesCommitted /\ DebitsFirst /\ OneWritePerAccount /\ StillAuthorised

(* The constant assumptions of this module: deploys are evaluated one at a *)
(* time, and clients call in a wallet's order.                             *)
SerialWallet == Serial /\ Ledger!WalletOrder

LEMMA NoSelfPayment == SerialWallet => \A r \in Requests : r.from # r.to
  BY DEF SerialWallet, Ledger!WalletOrder, Ledger!InWalletOrder

LEMMA InitSerialInv == Init => SerialInv
  BY DEF Init, SerialInv, OneActive, WritesCommitted, DebitsFirst, OneWritePerAccount,
         StillAuthorised, Active, Running, Committed

(* A call at a step before its first write finds no write pending and no   *)
(* other call at work.                                                     *)
LEMMA AloneBeforeCommit ==
  ASSUME TypeOK, SerialInv, NEW c \in Calls, pc[c] \in {"authorize", "nonce", "source"}
  PROVE  /\ pending = {}
         /\ \A d \in Calls : d # c => pc[d] \notin Running
<1>1. Active(c)
  BY DEF Active, Running
<1>2. \A d \in Calls : Active(d) => d = c
  BY <1>1 DEF SerialInv, OneActive
<1>3. pending = {}
  <2> SUFFICES ASSUME NEW x \in pending PROVE FALSE
    OBVIOUS
  <2>1. x.call \in Calls /\ Active(x.call)
    BY DEF TypeOK, Active
  <2> QED
    BY <1>2, <2>1 DEF SerialInv, WritesCommitted, Committed
<1> QED
  BY <1>2, <1>3 DEF Active

(* One lemma per kind of step.  A call's own progress ... *)
LEMMA GotoSerialInv ==
  ASSUME TypeOK, SerialInv, NEW c \in Calls, NEW label, Goto(c, label),
         pc[c] \in Running, label \in Running \cup Answered,
         UNCHANGED <<balances, owners, req, pending>>,
         pc[c] \in Committed => label \in {"owner", "succeeded"},
         label \in {"nonce", "source"} => Authorised(req[c])
  PROVE  SerialInv'
<1> USE DEF TypeOK, SerialInv
<1>1. pc' = [pc EXCEPT ![c] = label] /\ Active(c)
  BY DEF Goto, Active
<1>2. \A d \in Calls : Active(d)' => Active(d)
  BY <1>1 DEF Active
<1>3. OneActive'
  BY <1>2 DEF OneActive
<1>4. WritesCommitted' /\ DebitsFirst'
  BY <1>1 DEF WritesCommitted, DebitsFirst, Committed
<1>5. OneWritePerAccount'
  BY DEF OneWritePerAccount
<1>6. StillAuthorised'
  BY <1>1 DEF StillAuthorised, Authorised
<1> QED
  BY <1>3, <1>4, <1>5, <1>6

(* ... the writes it sends when there are none to those accounts ... *)
LEMMA SendSerialInv ==
  ASSUME TypeOK, SerialInv, NEW c \in Calls, NEW label, Goto(c, label),
         pc[c] \in Running, label \in {"destination", "owner"},
         NEW sent \in SUBSET Write, pending' = pending \cup sent,
         UNCHANGED <<balances, owners, req>>,
         \A x \in sent : x.call = c /\ (label = "destination" => x.account = req[c].from),
         \A x \in sent, y \in pending : x.account # y.account,
         \A x, y \in sent : x.account = y.account => x = y,
         label = "destination" => pending = {}
  PROVE  SerialInv'
<1> USE DEF TypeOK, SerialInv, Write
<1>1. pc' = [pc EXCEPT ![c] = label] /\ Active(c)
  BY DEF Goto, Active
<1>2. \A d \in Calls : Active(d)' => Active(d)
  BY <1>1 DEF Active
<1>3. OneActive'
  BY <1>2 DEF OneActive
<1>4. WritesCommitted'
  BY <1>1 DEF WritesCommitted, Committed
<1>5. DebitsFirst'
  BY <1>1 DEF DebitsFirst
<1>6. OneWritePerAccount'
  BY DEF OneWritePerAccount
<1>7. StillAuthorised'
  BY <1>1 DEF StillAuthorised, Authorised
<1> QED
  BY <1>3, <1>4, <1>5, <1>6, <1>7

(* ... and everything a step of serial evaluation does. *)
LEMMA NextSerialInv ==
  ASSUME SerialWallet, TypeInv, SerialInv, [Next]_vars
  PROVE  SerialInv'
<1> TypeOK /\ AmountsPositive
  BY DEF TypeInv
<1>1. CASE UNCHANGED vars
  BY <1>1 DEF vars, SerialInv, OneActive, WritesCommitted, DebitsFirst, OneWritePerAccount,
              StillAuthorised, Active, Authorised
<1>2. ASSUME NEW c \in Calls, NEW r \in Requests, Submit(c, r)
      PROVE  SerialInv'
  <2>1. \A d \in Calls : ~Active(d)
    BY <1>2 DEF Submit, SerialWallet, Quiescent
  <2>2. pending = {}
    BY <2>1 DEF TypeOK, Active
  <2>3. pc' = [pc EXCEPT ![c] = "authorize"] /\ pending' = {}
    BY <1>2, <2>2 DEF Submit, Goto
  <2>4. \A d \in Calls : Active(d)' => d = c
    BY <2>1, <2>3 DEF Active, TypeOK
  <2>5. OneActive' /\ WritesCommitted' /\ DebitsFirst' /\ OneWritePerAccount'
    BY <2>3, <2>4 DEF OneActive, WritesCommitted, DebitsFirst, OneWritePerAccount
  <2>6. StillAuthorised'
    BY <2>1, <2>3 DEF StillAuthorised, Active, Running, TypeOK
  <2> QED
    BY <2>5, <2>6 DEF SerialInv
<1>3. ASSUME NEW c \in Calls, Authorize(c)
      PROVE  SerialInv'
  BY <1>3, GotoSerialInv DEF Authorize, Running, Committed, callState
<1>4. ASSUME NEW c \in Calls, Refuse(c) \/ RefuseReplay(c) \/ Decline(c)
      PROVE  SerialInv'
  BY <1>4, GotoSerialInv
     DEF Refuse, RefuseReplay, Decline, Running, Answered, Committed, callState
<1>5. ASSUME NEW c \in Calls, ConsumeNonce(c)
      PROVE  SerialInv'
  BY <1>5, GotoSerialInv
     DEF ConsumeNonce, Running, Committed, SerialInv, StillAuthorised
<1>6. ASSUME NEW c \in Calls, Debit(c)
      PROVE  SerialInv'
  <2> DEFINE w == WriteOf(c, req[c].from, balances[req[c].from] - req[c].amount)
  <2>1. pending = {} /\ req[c] \in Requests
    BY <1>6, AloneBeforeCommit DEF Debit, TypeOK
  <2>2. w \in Write /\ w.call = c /\ w.account = req[c].from
    BY <2>1, RequestType DEF WriteOf, Write, TypeOK
  <2> HIDE DEF w
  <2> QED
    BY <1>6, <2>1, <2>2, SendSerialInv DEF Debit, Running, w
<1>7. ASSUME NEW c \in Calls, Migrate(c)
      PROVE  SerialInv'
  <2>1. pending = {} /\ req[c] \in Requests
    BY <1>7, AloneBeforeCommit DEF Migrate, TypeOK
  <2>2. req[c].from # req[c].to
    BY <2>1, NoSelfPayment
  <2>3. /\ ClaimWrites(c, req[c]) \in SUBSET Write
        /\ \A x \in ClaimWrites(c, req[c]) : x.call = c
        /\ \A x, y \in ClaimWrites(c, req[c]) : x.account = y.account => x = y
    BY <2>1, <2>2, RequestType DEF ClaimWrites, WriteOf, Write, TypeOK
  <2> QED
    BY <1>7, <2>1, <2>3, SendSerialInv DEF Migrate, Running
<1>8. ASSUME NEW c \in Calls, Credit(c)
      PROVE  SerialInv'
  <2> DEFINE w == WriteOf(c, req[c].to, balances[req[c].to] + req[c].amount)
  <2>1. req[c] \in Requests /\ pc[c] = "destination"
    BY <1>8 DEF Credit, TypeOK
  <2>2. req[c].from # req[c].to
    BY <2>1, NoSelfPayment
  <2>3. w \in Write /\ w.call = c /\ w.account = req[c].to
    BY <2>1, RequestType DEF WriteOf, Write, TypeOK
  <2>4. \A x \in pending : x.call = c
    BY <2>1 DEF TypeOK, SerialInv, OneActive, Active, Running
  <2>5. \A x \in pending : x.account = req[c].from
    BY <2>1, <2>4 DEF SerialInv, DebitsFirst
  <2> DEFINE sent == {w}
  <2>6. /\ pending' = pending \cup sent /\ Goto(c, "owner")
        /\ UNCHANGED <<balances, owners, req>>
    BY <1>8 DEF Credit
  <2> HIDE DEF w
  <2>7. /\ sent \in SUBSET Write
        /\ \A x \in sent : x.call = c
        /\ \A x \in sent, y \in pending : x.account # y.account
        /\ \A x, y \in sent : x.account = y.account => x = y
    BY <2>2, <2>3, <2>5
  <2> HIDE DEF sent
  <2> QED
    BY <1>8, <2>1, <2>6, <2>7, SendSerialInv DEF Running
<1>9. ASSUME NEW c \in Calls, RegisterOwner(c)
      PROVE  SerialInv'
  <2>1. pc' = [pc EXCEPT ![c] = "succeeded"] /\ pc[c] = "owner" /\ UNCHANGED <<req, pending>>
    BY <1>9 DEF RegisterOwner, Goto
  <2>2. \A d \in Calls : Active(d)' => Active(d)
    BY <2>1 DEF Active, TypeOK, Running
  <2>3. OneActive' /\ WritesCommitted' /\ DebitsFirst' /\ OneWritePerAccount'
    BY <2>1, <2>2
       DEF SerialInv, OneActive, WritesCommitted, DebitsFirst, OneWritePerAccount,
           Committed, TypeOK
  <2>4. \A d \in Calls : pc'[d] \notin {"nonce", "source"}
    BY <2>1 DEF SerialInv, OneActive, Active, Running, TypeOK
  <2> QED
    BY <2>3, <2>4 DEF SerialInv, StillAuthorised
<1>10. ASSUME NEW w \in pending, ApplyWrite(w)
       PROVE  SerialInv'
  <2>1. pending' = pending \ {w} /\ UNCHANGED <<owners, req, pc>>
    BY <1>10 DEF ApplyWrite
  <2>2. \A d \in Calls : Active(d)' => Active(d)
    BY <2>1 DEF Active
  <2> QED
    BY <2>1, <2>2
       DEF SerialInv, OneActive, WritesCommitted, DebitsFirst, OneWritePerAccount,
           StillAuthorised, Authorised
<1> QED
  BY <1>1, <1>2, <1>3, <1>4, <1>5, <1>6, <1>7, <1>8, <1>9, <1>10 DEF Next, Step

----------------------------------------------------------------------------
(* The refinement mapping without its CHOOSE: what the settled balances,   *)
(* owners and nonces are while one call at most is being evaluated.        *)
SettledFacts ==
  /\ \A x \in pending : Settled(x.account) = x.value
  /\ \A acc \in Accounts : (\A x \in pending : x.account # acc) =>
       /\ (\A c \in Calls : pc[c] # "destination" \/ req[c].to # acc) =>
            Settled(acc) = balances[acc]
       /\ \A c \in Calls : pc[c] = "destination" /\ req[c].to = acc =>
            Settled(acc) = balances[acc] + req[c].amount

OwnersFacts ==
  /\ (\A c \in Calls : pc[c] \notin {"destination", "owner"}) => SettledOwners = owners
  /\ \A c \in Calls : pc[c] \in {"destination", "owner"} => SettledOwners = OwnersAfter(req[c])

NoncesFacts ==
  /\ (\A c \in Calls : pc[c] = "source" => req[c].method = "claim") =>
       SettledNonces = usedNonces
  /\ \A c \in Calls : pc[c] = "source" /\ req[c].method # "claim" =>
       SettledNonces =
         [st \in Stores |-> usedNonces[st] \
            (IF st = Store(req[c]) THEN {req[c].nonce} ELSE {})]

LEMMA SettledOnce == TypeOK /\ SerialInv => SettledFacts
<1> SUFFICES ASSUME TypeOK, SerialInv PROVE SettledFacts
  OBVIOUS
<1>1. ASSUME NEW x \in pending PROVE Settled(x.account) = x.value
  <2>1. {y \in pending : y.account = x.account} = {x}
    BY <1>1 DEF SerialInv, OneWritePerAccount
  <2> QED
    BY <2>1 DEF Settled
<1>2. ASSUME NEW acc \in Accounts, \A x \in pending : x.account # acc,
             \A c \in Calls : pc[c] # "destination" \/ req[c].to # acc
      PROVE  Settled(acc) = balances[acc]
  BY <1>2 DEF Settled
<1>3. ASSUME NEW acc \in Accounts, \A x \in pending : x.account # acc,
             NEW c \in Calls, pc[c] = "destination", req[c].to = acc
      PROVE  Settled(acc) = balances[acc] + req[c].amount
  <2>1. {d \in Calls : pc[d] = "destination" /\ req[d].to = acc} = {c}
    BY <1>3 DEF SerialInv, OneActive, Active, Running
  <2>2. {x \in pending : x.account = acc} = {}
    BY <1>3
  <2> QED
    BY <2>1, <2>2 DEF Settled
<1> QED
  BY <1>1, <1>2, <1>3 DEF SettledFacts

LEMMA OwnersOnce == TypeOK /\ SerialInv => OwnersFacts
<1> SUFFICES ASSUME TypeOK, SerialInv PROVE OwnersFacts
  OBVIOUS
<1>1. ASSUME \A c \in Calls : pc[c] \notin {"destination", "owner"}
      PROVE  SettledOwners = owners
  BY <1>1 DEF SettledOwners
<1>2. ASSUME NEW c \in Calls, pc[c] \in {"destination", "owner"}
      PROVE  SettledOwners = OwnersAfter(req[c])
  <2>1. {d \in Calls : pc[d] \in {"destination", "owner"}} = {c}
    BY <1>2 DEF SerialInv, OneActive, Active, Running
  <2> QED
    BY <2>1 DEF SettledOwners
<1> QED
  BY <1>1, <1>2 DEF OwnersFacts

LEMMA NoncesOnce == TypeOK /\ SerialInv => NoncesFacts
<1> SUFFICES ASSUME TypeOK, SerialInv PROVE NoncesFacts
  OBVIOUS
<1> DEFINE held(st) == {req[c].nonce : c \in {d \in Calls :
                           pc[d] = "source" /\ req[d].method # "claim" /\ Store(req[d]) = st}}
<1>1. ASSUME \A c \in Calls : pc[c] = "source" => req[c].method = "claim"
      PROVE  SettledNonces = usedNonces
  <2>1. \A st \in Stores : held(st) = {}
    BY <1>1
  <2>2. \A st \in Stores : SettledNonces[st] = usedNonces[st]
    BY <2>1 DEF SettledNonces
  <2> QED
    BY <2>2 DEF SettledNonces, TypeOK
<1>2. ASSUME NEW c \in Calls, pc[c] = "source", req[c].method # "claim"
      PROVE  SettledNonces =
               [st \in Stores |-> usedNonces[st] \
                  (IF st = Store(req[c]) THEN {req[c].nonce} ELSE {})]
  <2>1. \A d \in Calls : pc[d] = "source" => d = c
    BY <1>2 DEF SerialInv, OneActive, Active, Running
  <2>2. \A st \in Stores :
          held(st) = IF st = Store(req[c]) THEN {req[c].nonce} ELSE {}
    BY <1>2, <2>1
  <2> QED
    BY <2>2 DEF SettledNonces
<1> QED
  BY <1>1, <1>2 DEF NoncesFacts

Mapped == SettledFacts /\ OwnersFacts /\ NoncesFacts

LEMMA MappedOnce == TypeInv /\ SerialInv => Mapped
  BY SettledOnce, OwnersOnce, NoncesOnce DEF Mapped, TypeInv

(* Until a call commits, the ledger's balances and owners are the          *)
(* contract's.                                                             *)
LEMMA SettledBeforeCommit ==
  ASSUME TypeOK, SerialInv, Mapped,
         NEW c \in Calls, pc[c] \in {"authorize", "nonce", "source"}
  PROVE  /\ \A acc \in Accounts : Settled(acc) = balances[acc]
         /\ SettledOwners = owners
         /\ \A d \in Calls : d # c => pc[d] \notin Running
         /\ pc[c] # "source" => SettledNonces = usedNonces
         /\ pending = {}
<1>1. pending = {} /\ \A d \in Calls : d # c => pc[d] \notin Running
  BY AloneBeforeCommit
<1>2. \A d \in Calls : pc[d] \notin {"destination", "owner"}
  BY <1>1 DEF Running
<1>3. pc[c] # "source" => \A d \in Calls : pc[d] # "source"
  BY <1>1 DEF Running
<1> QED
  BY <1>1, <1>2, <1>3 DEF Mapped, SettledFacts, OwnersFacts, NoncesFacts

(* A signature the contract accepts is one the ledger accepts. *)
LEMMA SignedAsAuthorised ==
  ASSUME NEW c \in Calls, req[c] \in Requests, SettledOwners = owners
  PROVE  /\ Authorised(req[c]) <=>
              Ledger!Signed(req[c]) /\ (req[c].method = "claim" \/ req[c].amount > 0)
  BY RequestAssumption DEF Authorised, Ledger!Signed

LEMMA AccountsAgree ==
  /\ Ledger!Accounts = Accounts /\ Ledger!Stores = Stores
  /\ \A r : Ledger!Store(r) = Store(r)
  BY DEF Ledger!Accounts, Accounts, Ledger!Stores, Stores, Ledger!Store, Store

(* The ledger takes a call's effect when its source covers it ... *)
LEMMA DebitPays ==
  ASSUME SerialWallet, TypeInv, NonceInv, SerialInv, Mapped, TypeOK', Mapped',
         NEW c \in Calls, Debit(c)
  PROVE  Ledger!Pay(c, req[c])
<1> DEFINE r == req[c]
<1> TypeOK /\ AmountsPositive
  BY DEF TypeInv
<1>1. /\ pc[c] = "source" /\ r.method # "claim" /\ r.amount <= balances[r.from]
      /\ pending' = pending \cup {WriteOf(c, r.from, balances[r.from] - r.amount)}
      /\ pc' = [pc EXCEPT ![c] = "destination"]
      /\ UNCHANGED <<balances, owners, usedNonces, req>>
    <2>1. /\ pc[c] = "source" /\ r.method # "claim" /\ Covers(r)
          /\ pending' = pending \cup {WriteOf(c, r.from, balances[r.from] - r.amount)}
          /\ pc' = [pc EXCEPT ![c] = "destination"]
          /\ UNCHANGED <<balances, owners, usedNonces, req>>
      BY DEF Debit, Goto
    <2>2. r \in Requests
      BY <2>1 DEF TypeOK
    <2>3. balances[r.from] \in Nat /\ r.amount \in Int
      BY <2>2, RequestType DEF TypeOK
    <2> QED
      BY <2>1, <2>3 DEF Covers
<1>2. /\ r \in Requests /\ r.from \in Accounts /\ r.to \in Accounts /\ Store(r) \in Stores
      /\ r.amount \in Int /\ r.amount > 0 /\ r.from # r.to /\ r.method \in {"issue", "transfer"}
  <2>1. r \in Requests
    BY <1>1 DEF TypeOK
  <2> QED
    BY <1>1, <2>1, RequestType, NoSelfPayment DEF AmountsPositive
<1>3. /\ \A acc \in Accounts : Settled(acc) = balances[acc]
      /\ SettledOwners = owners
      /\ \A d \in Calls : d # c => pc[d] \notin Running
      /\ pending = {}
  BY <1>1, SettledBeforeCommit
<1>4. Ledger!Signed(r) /\ r.amount > 0
  BY <1>1, <1>2, <1>3, SignedAsAuthorised DEF SerialInv, StillAuthorised
<1>5. /\ SettledNonces = [st \in Stores |-> usedNonces[st] \
                            (IF st = Store(r) THEN {r.nonce} ELSE {})]
      /\ r.nonce \in usedNonces[Store(r)]
  BY <1>1 DEF Mapped, NoncesFacts, NonceInv, NonceRecorded, NonceSpent
<1> DEFINE w == WriteOf(c, r.from, balances[r.from] - r.amount)
<1>6. w.account = r.from /\ w.value = balances[r.from] - r.amount /\ pending' = {w}
  BY <1>1, <1>3 DEF WriteOf
<1>7. \A acc \in Accounts :
        Settled(acc)' = balances[acc] - (IF acc = r.from THEN r.amount ELSE 0)
                                      + (IF acc = r.to THEN r.amount ELSE 0)
  <2> SUFFICES ASSUME NEW acc \in Accounts
               PROVE  Settled(acc)' = balances[acc] - (IF acc = r.from THEN r.amount ELSE 0)
                                                    + (IF acc = r.to THEN r.amount ELSE 0)
    OBVIOUS
  <2> HIDE DEF w
  <2>1. balances[acc] \in Nat
    BY DEF TypeOK
  <2>2. CASE acc = r.from
    <3>1. Settled(acc)' = w.value
      BY <1>6, <2>2 DEF Mapped, SettledFacts
    <3> QED
      BY <1>2, <1>6, <2>1, <2>2, <3>1
  <2>3. CASE acc = r.to
    <3>1. \A x \in pending' : x.account # acc
      BY <1>2, <1>6, <2>3
    <3>2. pc'[c] = "destination" /\ req'[c].to = acc
      BY <1>1, <2>3 DEF TypeOK
    <3>3. Settled(acc)' = balances[acc] + r.amount
      BY <1>1, <3>1, <3>2 DEF Mapped, SettledFacts
    <3> QED
      BY <1>2, <2>1, <2>3, <3>3
  <2>4. CASE acc # r.from /\ acc # r.to
    <3>1. \A x \in pending' : x.account # acc
      BY <1>6, <2>4
    <3>2. \A d \in Calls : pc'[d] # "destination" \/ req'[d].to # acc
      BY <1>1, <1>3, <2>4 DEF TypeOK, Running
    <3>3. Settled(acc)' = balances[acc]
      BY <1>1, <3>1, <3>2 DEF Mapped, SettledFacts
    <3> QED
      BY <2>1, <2>4, <3>3
  <2> QED
    BY <2>2, <2>3, <2>4
<1>8. SettledOwners' = [owners EXCEPT ![r.to] = r.key]
  <2>1. pc'[c] = "destination"
    BY <1>1 DEF TypeOK
  <2>2. SettledOwners' = OwnersAfter(req[c])'
    BY <2>1 DEF Mapped, OwnersFacts
  <2> QED
    BY <1>1, <2>2 DEF OwnersAfter
<1>9. SettledNonces' = usedNonces
  <2>1. \A d \in Calls : pc'[d] # "source"
    BY <1>1, <1>3 DEF TypeOK, Running
  <2> QED
    BY <1>1, <2>1 DEF Mapped, NoncesFacts
<1>10. /\ AnswerOf(c) = "none"
       /\ [d \in Calls |-> AnswerOf(d)]' = [[d \in Calls |-> AnswerOf(d)] EXCEPT ![c] = "succeeded"]
  BY <1>1 DEF AnswerOf, Committed, Answered, TypeOK
<1>11. Ledger!Move(r.from, r.to, r.amount)
  BY <1>3, <1>7, AccountsAgree DEF Ledger!Move
<1>12. Ledger!Use(Ledger!Store(r), r.nonce)
  BY <1>2, <1>5, <1>9, AccountsAgree DEF Ledger!Use, TypeOK
<1>13. Ledger!Answer(c, "succeeded")
  BY <1>10 DEF Ledger!Answer
<1> QED
  BY <1>2, <1>3, <1>4, <1>1, <1>8, <1>11, <1>12, <1>13 DEF Ledger!Pay

(* ... or the witness has tokens and the real UTXO has none ... *)
LEMMA MigrateClaims ==
  ASSUME SerialWallet, TypeInv, SerialInv, Mapped, TypeOK', Mapped', Ledger!ClaimTargetsEmpty,
         NEW c \in Calls, Migrate(c)
  PROVE  Ledger!Claim(c, req[c])
<1> DEFINE r == req[c]
           left == WriteOf(c, r.from, 0)
           moved == WriteOf(c, r.to, balances[r.from])
<1> TypeOK
  BY DEF TypeInv
<1>1. /\ pc[c] = "source" /\ r.method = "claim" /\ balances[r.from] > 0
      /\ pending' = pending \cup {left, moved}
      /\ pc' = [pc EXCEPT ![c] = "owner"]
      /\ UNCHANGED <<balances, owners, usedNonces, req>>
  BY DEF Migrate, Goto, Covers, ClaimWrites
<1>2. /\ r \in Requests /\ r.from \in Accounts /\ r.to \in Accounts /\ r.from # r.to
      /\ balances[r.from] \in Nat
  <2>1. r \in Requests
    BY <1>1 DEF TypeOK
  <2> QED
    BY <2>1, RequestType, NoSelfPayment DEF TypeOK
<1>3. /\ \A acc \in Accounts : Settled(acc) = balances[acc]
      /\ SettledOwners = owners
      /\ \A d \in Calls : d # c => pc[d] \notin Running
      /\ pending = {}
  BY <1>1, SettledBeforeCommit
<1>4. Ledger!Signed(r)
  BY <1>1, <1>2, <1>3, SignedAsAuthorised DEF SerialInv, StillAuthorised
<1>5. balances[r.to] = 0
  <2>1. Settled(r.from) = 0 \/ Settled(r.to) = 0
    BY <1>1, <1>2 DEF Ledger!ClaimTargetsEmpty
  <2> QED
    BY <1>1, <1>2, <1>3, <2>1
<1>6. /\ left.account = r.from /\ left.value = 0
      /\ moved.account = r.to /\ moved.value = balances[r.from]
      /\ pending' = {left, moved}
  BY <1>1, <1>3 DEF WriteOf
<1>7. \A acc \in Accounts :
        Settled(acc)' = balances[acc] - (IF acc = r.from THEN balances[r.from] ELSE 0)
                                      + (IF acc = r.to THEN balances[r.from] ELSE 0)
  <2> SUFFICES ASSUME NEW acc \in Accounts
               PROVE  Settled(acc)' =
                        balances[acc] - (IF acc = r.from THEN balances[r.from] ELSE 0)
                                      + (IF acc = r.to THEN balances[r.from] ELSE 0)
    OBVIOUS
  <2> HIDE DEF left, moved
  <2>1. balances[acc] \in Nat
    BY DEF TypeOK
  <2>2. CASE acc = r.from
    <3>1. Settled(acc)' = 0
      BY <1>6, <2>2 DEF Mapped, SettledFacts
    <3> QED
      BY <1>2, <2>1, <2>2, <3>1
  <2>3. CASE acc = r.to
    <3>1. Settled(acc)' = balances[r.from]
      BY <1>6, <2>3 DEF Mapped, SettledFacts
    <3> QED
      BY <1>2, <1>5, <2>3, <3>1
  <2>4. CASE acc # r.from /\ acc # r.to
    <3>1. \A x \in pending' : x.account # acc
      BY <1>6, <2>4
    <3>2. \A d \in Calls : pc'[d] # "destination"
      BY <1>1, <1>3 DEF TypeOK, Running
    <3>3. Settled(acc)' = balances[acc]
      BY <1>1, <3>1, <3>2 DEF Mapped, SettledFacts
    <3> QED
      BY <2>1, <2>4, <3>3
  <2> QED
    BY <2>2, <2>3, <2>4
<1>8. SettledOwners' = OwnersAfter(r)
  <2>1. pc'[c] = "owner"
    BY <1>1 DEF TypeOK
  <2>2. SettledOwners' = OwnersAfter(req[c])'
    BY <2>1 DEF Mapped, OwnersFacts
  <2> QED
    BY <1>1, <2>2 DEF OwnersAfter
<1>9. SettledNonces = usedNonces /\ SettledNonces' = usedNonces
  <2>1. \A d \in Calls : pc[d] = "source" => req[d].method = "claim"
    BY <1>1, <1>3 DEF Running
  <2>2. \A d \in Calls : pc'[d] # "source"
    BY <1>1, <1>3 DEF TypeOK, Running
  <2> QED
    BY <1>1, <2>1, <2>2 DEF Mapped, NoncesFacts
<1>10. /\ AnswerOf(c) = "none"
       /\ [d \in Calls |-> AnswerOf(d)]' = [[d \in Calls |-> AnswerOf(d)] EXCEPT ![c] = "succeeded"]
  BY <1>1 DEF AnswerOf, Committed, Answered, TypeOK
<1>11. Ledger!Move(r.from, r.to, balances[r.from])
  BY <1>3, <1>7, AccountsAgree DEF Ledger!Move
<1>12. Ledger!Answer(c, "succeeded")
  BY <1>10 DEF Ledger!Answer
<1> QED
  BY <1>1, <1>2, <1>3, <1>4, <1>8, <1>9, <1>11, <1>12, AccountsAgree DEF Ledger!Claim, OwnersAfter

(* ... or finds the source short ... *)
LEMMA DeclineIsShort ==
  ASSUME TypeInv, NonceInv, SerialInv, Mapped, TypeOK', Mapped', NEW c \in Calls, Decline(c)
  PROVE  Ledger!Short(c, req[c])
<1> DEFINE r == req[c]
<1> TypeOK
  BY DEF TypeInv
<1>1. /\ pc[c] = "source" /\ ~Covers(r)
      /\ pc' = [pc EXCEPT ![c] = "insufficient"]
      /\ UNCHANGED <<balances, owners, usedNonces, req, pending>>
  BY DEF Decline, Goto, callState
<1>2. /\ r \in Requests /\ r.from \in Accounts /\ r.amount \in Int /\ balances[r.from] \in Nat
  <2>1. r \in Requests
    BY <1>1 DEF TypeOK
  <2> QED
    BY <2>1, RequestType DEF TypeOK
<1>3. /\ \A acc \in Accounts : Settled(acc) = balances[acc]
      /\ SettledOwners = owners
      /\ \A d \in Calls : d # c => pc[d] \notin Running
      /\ pending = {}
  BY <1>1, SettledBeforeCommit
<1>4. Ledger!Signed(r)
  BY <1>1, <1>2, <1>3, SignedAsAuthorised DEF SerialInv, StillAuthorised
<1>5. \A d \in Calls : pc'[d] \notin {"source", "destination", "owner"}
  BY <1>1, <1>3 DEF TypeOK, Running
<1>6. /\ \A acc \in Accounts : Settled(acc)' = balances[acc]
      /\ SettledOwners' = owners
      /\ SettledNonces' = usedNonces
  BY <1>1, <1>3, <1>5 DEF Mapped, SettledFacts, OwnersFacts, NoncesFacts
<1>7. IF r.method = "claim"
      THEN balances[r.from] = 0 /\ SettledNonces' = SettledNonces
      ELSE balances[r.from] < r.amount /\ Ledger!Use(Ledger!Store(r), r.nonce)
  <2>1. CASE r.method = "claim"
    <3>1. \A d \in Calls : pc[d] = "source" => req[d].method = "claim"
      BY <1>3, <2>1 DEF Running
    <3> QED
      BY <1>1, <1>2, <1>6, <2>1, <3>1 DEF Mapped, NoncesFacts, Covers
  <2>2. CASE r.method # "claim"
    <3>1. /\ SettledNonces = [st \in Stores |-> usedNonces[st] \
                                (IF st = Store(r) THEN {r.nonce} ELSE {})]
          /\ r.nonce \in usedNonces[Store(r)]
      BY <1>1, <2>2 DEF Mapped, NoncesFacts, NonceInv, NonceRecorded, NonceSpent
    <3>2. Ledger!Use(Ledger!Store(r), r.nonce)
      <4>1. r \in Requests /\ Store(r) \in Stores
        BY <1>2, <2>2, RequestType
      <4> QED
        BY <1>6, <3>1, <4>1, AccountsAgree DEF Ledger!Use, TypeOK
    <3> QED
      BY <1>1, <1>2, <2>2, <3>2 DEF Covers
  <2> QED
    BY <2>1, <2>2
<1>8. Ledger!Answer(c, "insufficient")
  BY <1>1 DEF AnswerOf, Committed, Answered, TypeOK, Ledger!Answer
<1> QED
  BY <1>2, <1>3, <1>4, <1>6, <1>7, <1>8 DEF Ledger!Short

(* ... or refuses the call before that. *)
LEMMA RefusalRefuses ==
  ASSUME TypeInv, SerialInv, Mapped, TypeOK', Mapped',
         NEW c \in Calls, Refuse(c) \/ RefuseReplay(c)
  PROVE  Ledger!Refuse(c, req[c])
<1> DEFINE r == req[c]
<1> TypeOK /\ AmountsPositive
  BY DEF TypeInv
<1>1. /\ pc[c] \in {"authorize", "nonce"} /\ pc' = [pc EXCEPT ![c] = "rejected"]
      /\ \/ ~Authorised(r)
         \/ r.method # "claim" /\ UsedNonce(r)
      /\ UNCHANGED <<balances, owners, usedNonces, req, pending>>
  BY DEF Refuse, RefuseReplay, Goto, callState, AmountsPositive
<1>2. r \in Requests /\ r.amount \in Int
  <2>1. r \in Requests
    BY <1>1 DEF TypeOK
  <2> QED
    BY <2>1, RequestType
<1>3. /\ \A acc \in Accounts : Settled(acc) = balances[acc]
      /\ SettledOwners = owners
      /\ SettledNonces = usedNonces
      /\ \A d \in Calls : d # c => pc[d] \notin Running
      /\ pending = {}
  BY <1>1, SettledBeforeCommit
<1>4. \A d \in Calls : pc'[d] \notin {"source", "destination", "owner"}
  BY <1>1, <1>3 DEF TypeOK, Running
<1>5. /\ \A acc \in Accounts : Settled(acc)' = balances[acc]
      /\ SettledOwners' = owners
      /\ SettledNonces' = usedNonces
  BY <1>1, <1>3, <1>4 DEF Mapped, SettledFacts, OwnersFacts, NoncesFacts
<1>6. \/ ~Ledger!Signed(r)
      \/ r.method # "claim" /\ (r.amount <= 0 \/ r.nonce \in SettledNonces[Ledger!Store(r)])
  BY <1>1, <1>2, <1>3, SignedAsAuthorised, AccountsAgree DEF UsedNonce
<1>7. Ledger!Answer(c, "rejected")
  BY <1>1 DEF AnswerOf, Committed, Answered, TypeOK, Ledger!Answer
<1> QED
  BY <1>2, <1>3, <1>5, <1>6, <1>7 DEF Ledger!Refuse

(* The steps before and after change nothing the ledger sees. *)
SettledKept ==
  /\ \A acc \in Accounts : Settled(acc)' = Settled(acc)
  /\ SettledOwners' = SettledOwners
  /\ SettledNonces' = SettledNonces
  /\ \A d \in Calls : AnswerOf(d)' = AnswerOf(d)

LEMMA SubmitStutters ==
  ASSUME SerialWallet, TypeInv, SerialInv, Mapped, TypeOK', Mapped',
         NEW c \in Calls, NEW r \in Requests, Submit(c, r)
  PROVE  SettledKept
<1> TypeOK
  BY DEF TypeInv
<1>1. /\ \A d \in Calls : ~Active(d)
      /\ pc[c] = "idle" /\ pc' = [pc EXCEPT ![c] = "authorize"]
      /\ UNCHANGED <<balances, owners, usedNonces, pending>>
  BY DEF Submit, SerialWallet, Quiescent, Goto
<1>2. pending = {}
  BY <1>1 DEF TypeOK, Active
<1>3. /\ \A d \in Calls : pc[d] \notin Running
      /\ \A d \in Calls : pc'[d] \notin {"source", "destination", "owner"}
  BY <1>1 DEF Active, TypeOK, Running
<1>4. \A acc \in Accounts : Settled(acc) = balances[acc] /\ Settled(acc)' = balances[acc]
  BY <1>1, <1>2, <1>3 DEF Mapped, SettledFacts, Running
<1>5. SettledOwners = owners /\ SettledOwners' = owners
  BY <1>1, <1>3 DEF Mapped, OwnersFacts, Running
<1>6. SettledNonces = usedNonces /\ SettledNonces' = usedNonces
  BY <1>1, <1>3 DEF Mapped, NoncesFacts, Running
<1>7. \A d \in Calls : AnswerOf(d)' = AnswerOf(d)
  BY <1>1 DEF AnswerOf, Committed, Answered, TypeOK
<1> QED
  BY <1>4, <1>5, <1>6, <1>7 DEF SettledKept

LEMMA AuthorizeStutters ==
  ASSUME TypeInv, SerialInv, Mapped, TypeOK', Mapped', NEW c \in Calls,
         Authorize(c) \/ ConsumeNonce(c)
  PROVE  SettledKept
<1> TypeOK /\ AmountsPositive
  BY DEF TypeInv
<1>1. /\ pc[c] \in {"authorize", "nonce"}
      /\ \E label \in {"source", "nonce"} : pc' = [pc EXCEPT ![c] = label]
      /\ UNCHANGED <<balances, owners, req, pending>>
  BY DEF Authorize, ConsumeNonce, Goto, callState
<1>2. /\ \A acc \in Accounts : Settled(acc) = balances[acc]
      /\ SettledOwners = owners
      /\ SettledNonces = usedNonces
      /\ \A d \in Calls : d # c => pc[d] \notin Running
      /\ pending = {}
  BY <1>1, SettledBeforeCommit
<1>3. \A d \in Calls : pc'[d] \notin {"destination", "owner"} /\ (pc'[d] = "source" => d = c)
  BY <1>1, <1>2 DEF TypeOK, Running
<1>4. \A acc \in Accounts : Settled(acc)' = balances[acc]
  BY <1>1, <1>2, <1>3 DEF Mapped, SettledFacts
<1>5. SettledOwners' = owners
  BY <1>1, <1>3 DEF Mapped, OwnersFacts
<1>6. SettledNonces' = usedNonces
  <2>1. CASE Authorize(c)
    <3>1. usedNonces' = usedNonces
      BY <2>1 DEF Authorize, callState
    <3>2. \A d \in Calls : pc'[d] = "source" => req'[d].method = "claim"
      BY <1>1, <1>3, <2>1 DEF Authorize, Goto, TypeOK
    <3> QED
      BY <3>1, <3>2 DEF Mapped, NoncesFacts
  <2>2. CASE ConsumeNonce(c)
    <3>1. /\ req[c] \in Requests /\ req[c].nonce \notin usedNonces[Store(req[c])]
          /\ pc'[c] = "source" /\ req'[c].method # "claim" /\ req' = req
          /\ usedNonces' = [usedNonces EXCEPT ![Store(req[c])] =
                              usedNonces[Store(req[c])] \cup {req[c].nonce}]
      BY <2>2 DEF ConsumeNonce, Goto, TypeOK, UsedNonce, NoncesAfter, AmountsPositive
    <3>2. Store(req[c]) \in Stores
      BY <3>1, RequestType
    <3>3. SettledNonces' = [st \in Stores |-> usedNonces'[st] \
            (IF st = Store(req[c]) THEN {req[c].nonce} ELSE {})]
      BY <3>1 DEF Mapped, NoncesFacts
    <3>4. \A st \in Stores :
            usedNonces'[st] \ (IF st = Store(req[c]) THEN {req[c].nonce} ELSE {})
              = usedNonces[st]
      BY <3>1, <3>2 DEF TypeOK
    <3> QED
      BY <3>3, <3>4 DEF TypeOK
  <2> QED
    BY <2>1, <2>2
<1>7. \A d \in Calls : AnswerOf(d)' = AnswerOf(d)
  BY <1>1 DEF AnswerOf, Committed, Answered, TypeOK
<1> QED
  BY <1>2, <1>4, <1>5, <1>6, <1>7 DEF SettledKept

(* A credit is the write the ledger already counts as made. *)
LEMMA CreditStutters ==
  ASSUME SerialWallet, TypeInv, SerialInv, Mapped, TypeOK', Mapped', NEW c \in Calls, Credit(c)
  PROVE  SettledKept
<1> DEFINE r == req[c]
           w == WriteOf(c, r.to, balances[r.to] + r.amount)
<1> TypeOK
  BY DEF TypeInv
<1>1. /\ pc[c] = "destination" /\ pc' = [pc EXCEPT ![c] = "owner"]
      /\ pending' = pending \cup {w}
      /\ UNCHANGED <<balances, owners, usedNonces, req>>
  BY DEF Credit, Goto
<1>2. r.from # r.to /\ r.to \in Accounts
  <2>1. r \in Requests
    BY <1>1 DEF TypeOK
  <2> QED
    BY <2>1, RequestType, NoSelfPayment
<1>3. \A d \in Calls : Active(d) => d = c
  BY <1>1 DEF SerialInv, OneActive, Active, Running
<1>4. \A x \in pending : x.account = r.from
  BY <1>1, <1>3 DEF TypeOK, Active, SerialInv, DebitsFirst
<1>5. \A d \in Calls : d # c => pc[d] \notin Running
  BY <1>3 DEF Active
<1>6. w.account = r.to /\ w.value = balances[r.to] + r.amount
  BY DEF WriteOf
<1>7. ASSUME NEW acc \in Accounts
      PROVE  Settled(acc)' = Settled(acc)
  <2> HIDE DEF w
  <2>1. CASE acc = r.to
    <3>1. Settled(acc) = balances[acc] + r.amount
      BY <1>1, <1>2, <1>4, <2>1 DEF Mapped, SettledFacts
    <3>2. Settled(acc)' = balances[acc] + r.amount
      BY <1>1, <1>6, <2>1 DEF Mapped, SettledFacts
    <3> QED
      BY <3>1, <3>2
  <2>2. CASE acc # r.to /\ \E x \in pending : x.account = acc
    BY <1>1, <2>2 DEF Mapped, SettledFacts
  <2>3. CASE acc # r.to /\ \A x \in pending : x.account # acc
    <3>1. \A d \in Calls : pc[d] # "destination" \/ req[d].to # acc
      BY <1>5, <2>3 DEF Running
    <3>2. \A d \in Calls : pc'[d] # "destination"
      BY <1>1, <1>5 DEF TypeOK, Running
    <3>3. \A x \in pending' : x.account # acc
      BY <1>1, <1>6, <2>3
    <3> QED
      BY <1>1, <1>7, <2>3, <3>1, <3>2, <3>3 DEF Mapped, SettledFacts
  <2> QED
    BY <2>1, <2>2, <2>3
<1>8. SettledOwners' = SettledOwners
  <2>1. pc'[c] = "owner"
    BY <1>1 DEF TypeOK
  <2>2. SettledOwners = OwnersAfter(req[c]) /\ SettledOwners' = OwnersAfter(req[c])'
    BY <1>1, <2>1 DEF Mapped, OwnersFacts
  <2> QED
    BY <1>1, <2>2 DEF OwnersAfter
<1>9. SettledNonces' = SettledNonces
  <2>1. \A d \in Calls : pc[d] # "source" /\ pc'[d] # "source"
    BY <1>1, <1>5 DEF TypeOK, Running
  <2> QED
    BY <1>1, <2>1 DEF Mapped, NoncesFacts
<1>10. \A d \in Calls : AnswerOf(d)' = AnswerOf(d)
  BY <1>1 DEF AnswerOf, Committed, Answered, TypeOK
<1> QED
  BY <1>7, <1>8, <1>9, <1>10 DEF SettledKept

(* So is the new owner. *)
LEMMA RegisterOwnerStutters ==
  ASSUME TypeInv, SerialInv, Mapped, TypeOK', Mapped', NEW c \in Calls, RegisterOwner(c)
  PROVE  SettledKept
<1> TypeOK
  BY DEF TypeInv
<1>1. /\ pc[c] = "owner" /\ pc' = [pc EXCEPT ![c] = "succeeded"]
      /\ owners' = OwnersAfter(req[c])
      /\ UNCHANGED <<balances, usedNonces, req, pending>>
  BY DEF RegisterOwner, Goto
<1>2. \A d \in Calls : d # c => pc[d] \notin Running
  BY <1>1 DEF SerialInv, OneActive, Active, Running
<1>3. /\ \A d \in Calls : pc[d] \notin {"source", "destination"}
      /\ \A d \in Calls : pc'[d] \notin {"source", "destination", "owner"}
  BY <1>1, <1>2 DEF TypeOK, Running
<1>4. ASSUME NEW acc \in Accounts
      PROVE  Settled(acc)' = Settled(acc)
  <2>1. CASE \E x \in pending : x.account = acc
    BY <1>1, <2>1 DEF Mapped, SettledFacts
  <2>2. CASE \A x \in pending : x.account # acc
    BY <1>1, <1>3, <1>4, <2>2 DEF Mapped, SettledFacts
  <2> QED
    BY <2>1, <2>2
<1>5. SettledOwners' = SettledOwners
  BY <1>1, <1>3 DEF Mapped, OwnersFacts
<1>6. SettledNonces' = SettledNonces
  BY <1>1, <1>3 DEF Mapped, NoncesFacts
<1>7. \A d \in Calls : AnswerOf(d)' = AnswerOf(d)
  BY <1>1 DEF AnswerOf, Committed, Answered, TypeOK
<1> QED
  BY <1>4, <1>5, <1>6, <1>7 DEF SettledKept

(* And so is each write, whichever is applied first. *)
LEMMA ApplyWriteStutters ==
  ASSUME SerialWallet, TypeInv, SerialInv, Mapped, TypeOK', Mapped',
         NEW w \in pending, ApplyWrite(w)
  PROVE  SettledKept
<1> TypeOK
  BY DEF TypeInv
<1>1. /\ balances' = [balances EXCEPT ![w.account] = w.value]
      /\ pending' = pending \ {w}
      /\ UNCHANGED <<owners, usedNonces, req, pc>>
  BY DEF ApplyWrite
<1>2. w.account \in Accounts /\ w.call \in Calls
  BY DEF TypeOK
<1>3. \A x \in pending' : x.account # w.account
  BY <1>1 DEF SerialInv, OneWritePerAccount
<1>4. \A d \in Calls : pc[d] # "destination" \/ req[d].to # w.account
  <2> SUFFICES ASSUME NEW d \in Calls, pc[d] = "destination", req[d].to = w.account
               PROVE  FALSE
    OBVIOUS
  <2>1. w.call = d
    BY <1>2 DEF SerialInv, OneActive, Active, Running
  <2>2. w.account = req[d].from
    BY <2>1 DEF SerialInv, DebitsFirst
  <2>3. req[d] \in Requests
    BY DEF TypeOK
  <2> QED
    BY <2>2, <2>3, NoSelfPayment
<1>5. ASSUME NEW acc \in Accounts
      PROVE  Settled(acc)' = Settled(acc)
  <2>1. CASE acc = w.account
    <3>1. Settled(acc) = w.value
      BY <2>1 DEF Mapped, SettledFacts
    <3>2. Settled(acc)' = balances'[acc]
      BY <1>1, <1>2, <1>3, <1>4, <2>1 DEF Mapped, SettledFacts
    <3> QED
      BY <1>1, <1>2, <2>1, <3>1, <3>2 DEF TypeOK
  <2>2. CASE acc # w.account /\ \E x \in pending : x.account = acc
    BY <1>1, <2>2 DEF Mapped, SettledFacts
  <2>3. CASE acc # w.account /\ \A x \in pending : x.account # acc
    <3>1. balances'[acc] = balances[acc]
      BY <1>1, <1>5, <2>3 DEF TypeOK
    <3>2. \A x \in pending' : x.account # acc
      BY <1>1, <2>3
    <3>3. CASE \E d \in Calls : pc[d] = "destination" /\ req[d].to = acc
      BY <1>1, <1>5, <2>3, <3>1, <3>2, <3>3 DEF Mapped, SettledFacts
    <3>4. CASE \A d \in Calls : pc[d] # "destination" \/ req[d].to # acc
      BY <1>1, <1>5, <2>3, <3>1, <3>2, <3>4 DEF Mapped, SettledFacts
    <3> QED
      BY <3>3, <3>4
  <2> QED
    BY <2>1, <2>2, <2>3
<1>6. SettledOwners' = SettledOwners
  BY <1>1 DEF SettledOwners, OwnersAfter
<1>7. SettledNonces' = SettledNonces
  BY <1>1 DEF SettledNonces
<1>8. \A d \in Calls : AnswerOf(d)' = AnswerOf(d)
  BY <1>1 DEF AnswerOf
<1> QED
  BY <1>5, <1>6, <1>7, <1>8 DEF SettledKept

----------------------------------------------------------------------------
(* Initial states are the ledger's, and every step is one of the ledger's  *)
(* or none.                                                                *)
LEMMA InitImplements == Init => Ledger!Init
<1> SUFFICES ASSUME Init PROVE Ledger!Init
  OBVIOUS
<1>1. TypeInv /\ SerialInv
  BY InitTypeInv, InitSerialInv
<1>2. Mapped
  BY <1>1, MappedOnce
<1>3. pending = {} /\ \A c \in Calls : pc[c] = "idle"
  BY DEF Init
<1>4. /\ \A acc \in Accounts : Settled(acc) = balances[acc]
      /\ SettledOwners = owners /\ SettledNonces = usedNonces
  BY <1>2, <1>3 DEF Mapped, SettledFacts, OwnersFacts, NoncesFacts
<1>5. \A c \in Calls : AnswerOf(c) = "none"
  BY <1>3 DEF AnswerOf, Committed, Answered
<1> QED
  BY <1>4, <1>5, AccountsAgree DEF Ledger!Init, Init, InitialBalances

LEMMA NextImplements ==
  ASSUME SerialWallet, TypeInv, NonceInv, SerialInv, Mapped, TypeOK', Mapped',
         Ledger!ClaimTargetsEmpty, [Next]_vars
  PROVE  [Ledger!Next]_(Ledger!vars)
<1> TypeOK
  BY DEF TypeInv
<1>1. ASSUME SettledKept PROVE UNCHANGED Ledger!vars
  BY <1>1 DEF SettledKept, Ledger!vars
<1>2. CASE UNCHANGED vars
  BY <1>2 DEF vars, Ledger!vars, Settled, SettledOwners, SettledNonces, AnswerOf, OwnersAfter
<1>3. ASSUME NEW c \in Calls, NEW r \in Requests, Submit(c, r)
      PROVE  UNCHANGED Ledger!vars
  BY <1>1, <1>3, SubmitStutters
<1>4. ASSUME NEW c \in Calls,
             Authorize(c) \/ ConsumeNonce(c) \/ Credit(c) \/ RegisterOwner(c)
      PROVE  UNCHANGED Ledger!vars
  BY <1>1, <1>4, AuthorizeStutters, CreditStutters, RegisterOwnerStutters
<1>5. ASSUME NEW c \in Calls, Debit(c) \/ Migrate(c) \/ Decline(c) \/ Refuse(c) \/ RefuseReplay(c)
      PROVE  Ledger!Next
  <2>1. req[c] \in Requests
    BY <1>5 DEF TypeOK, Debit, Migrate, Decline, Refuse, RefuseReplay
  <2>2. \/ Ledger!Pay(c, req[c]) \/ Ledger!Claim(c, req[c])
        \/ Ledger!Short(c, req[c]) \/ Ledger!Refuse(c, req[c])
    BY <1>5, DebitPays, MigrateClaims, DeclineIsShort, RefusalRefuses
  <2> QED
    BY <1>5, <2>1, <2>2 DEF Ledger!Next
<1>6. ASSUME NEW w \in pending, ApplyWrite(w)
      PROVE  UNCHANGED Ledger!vars
  BY <1>1, <1>6, ApplyWriteStutters
<1> QED
  BY <1>2, <1>3, <1>4, <1>5, <1>6 DEF Next, Step

(* The invariant that carries the proof: the evaluation's own, and the     *)
(* ledger's for the settled state.  Migrate needs the latter.              *)
SerialLedgerInv == TypeInv /\ NonceInv /\ SerialInv /\ LP!LedgerInv

LEMMA LedgerFits ==
  ASSUME SerialWallet
  PROVE  /\ LP!RequestsTyped /\ LP!WalletOrder
         /\ Ledger!Init <=> LP!Init
         /\ [Ledger!Next]_(Ledger!vars) <=> [LP!Next]_(LP!vars)
         /\ Ledger!ClaimTargetsEmpty <=> LP!ClaimTargetsEmpty
<1>1. LP!RequestsTyped
  BY RequestType, RequestAssumption, SupplyAssumption, KeyAssumption, AccountAssumption
     DEF LP!RequestsTyped, LP!Accounts, Accounts
<1>2. LP!WalletOrder
  BY DEF SerialWallet, Ledger!WalletOrder, LP!WalletOrder, Ledger!InWalletOrder,
         LP!InWalletOrder, Ledger!Store, LP!Store
<1>3. Ledger!Init <=> LP!Init
  BY DEF Ledger!Init, LP!Init, Ledger!Accounts, LP!Accounts, Ledger!Stores, LP!Stores
<1>4. Ledger!ClaimTargetsEmpty <=> LP!ClaimTargetsEmpty
  BY DEF Ledger!ClaimTargetsEmpty, LP!ClaimTargetsEmpty
<1>5. Ledger!vars = LP!vars /\ Ledger!vars' = LP!vars'
  BY DEF Ledger!vars, LP!vars
<1>6. Ledger!Next <=> LP!Next
  BY DEF Ledger!Next, LP!Next, Ledger!Pay, LP!Pay, Ledger!Claim, LP!Claim, Ledger!Short, LP!Short,
         Ledger!Refuse, LP!Refuse, Ledger!Signed, LP!Signed, Ledger!Use, LP!Use,
         Ledger!Move, LP!Move, Ledger!Answer, LP!Answer, Ledger!Accounts, LP!Accounts,
         Ledger!Store, LP!Store
<1> QED
  BY <1>1, <1>2, <1>3, <1>4, <1>5, <1>6

LEMMA InitSerialLedgerInv == SerialWallet => (Init => SerialLedgerInv)
<1> SUFFICES ASSUME SerialWallet, Init PROVE SerialLedgerInv
  OBVIOUS
<1>1. TypeInv /\ NonceInv /\ SerialInv
  BY InitTypeInv, InitNonceInv, InitSerialInv
<1>2. LP!LedgerInv
  BY InitImplements, LedgerFits, LP!InitLedger
<1> QED
  BY <1>1, <1>2 DEF SerialLedgerInv

LEMMA NextSerialLedgerInv ==
  SerialWallet =>
    (SerialLedgerInv /\ [Next]_vars => SerialLedgerInv' /\ [Ledger!Next]_(Ledger!vars))
<1> SUFFICES ASSUME SerialWallet, SerialLedgerInv, [Next]_vars
             PROVE  SerialLedgerInv' /\ [Ledger!Next]_(Ledger!vars)
  OBVIOUS
<1>1. TypeInv /\ NonceInv /\ SerialInv /\ LP!LedgerInv
  BY DEF SerialLedgerInv
<1>2. TypeInv' /\ NonceInv' /\ SerialInv'
  BY <1>1, NextTypeInv, NextNonceInv, NextSerialInv
<1>3. Mapped /\ Mapped'
  BY <1>1, <1>2, MappedOnce, PTL
<1>4. TypeOK'
  BY <1>2 DEF TypeInv
<1>5. LP!ClaimTargetsEmpty
  BY <1>1 DEF LP!LedgerInv
<1>6. [Ledger!Next]_(Ledger!vars)
  BY <1>1, <1>3, <1>4, <1>5, LedgerFits, NextImplements
<1>7. LP!LedgerInv'
  BY <1>1, <1>6, LedgerFits, LP!NextLedger
<1> QED
  BY <1>2, <1>6, <1>7 DEF SerialLedgerInv

(* Evaluated one deploy at a time, for clients that keep a wallet's order, *)
(* the contract implements the atomic ledger (rho20_contract.rho:396,      *)
(* "Atomically migrates BOTH balance AND ownership"): no call is seen half *)
(* done, whatever the order its unacknowledged writes are applied in.      *)
THEOREM SerialImplementsLedger ==
  ASSUME SerialWallet
  PROVE  Spec => ImplementsLedger
<1>1. Init => SerialLedgerInv
  BY InitSerialLedgerInv
<1>2. SerialLedgerInv /\ [Next]_vars => SerialLedgerInv' /\ [Ledger!Next]_(Ledger!vars)
  BY NextSerialLedgerInv
<1>3. Init => Ledger!Init
  BY InitImplements
<1> QED
  BY <1>1, <1>2, <1>3, PTL DEF Spec, ImplementsLedger, Ledger!Spec

LEMMA QuiescentFacts ==
  SerialWallet => (SerialLedgerInv => SupplyFixed /\ FundedSealsOwned)
<1> SUFFICES ASSUME SerialWallet, SerialLedgerInv, Quiescent
             PROVE  /\ Cardinality(Tokens) = TotalSupply
                    /\ \A s \in Seals : balances[s] > 0 => owners[s] # NoOwner
  BY DEF SupplyFixed, FundedSealsOwned
<1>1. TypeInv /\ SerialInv /\ LP!SupplyKept /\ LP!FundedOwned
  BY DEF SerialLedgerInv, LP!LedgerInv
<1>2. Mapped
  BY <1>1, MappedOnce
<1>3. pending = {} /\ \A c \in Calls : pc[c] \notin Running
  BY <1>1 DEF Quiescent, Active, TypeInv, TypeOK
<1>4. (\A acc \in Accounts : Settled(acc) = balances[acc]) /\ SettledOwners = owners
  BY <1>2, <1>3 DEF Mapped, SettledFacts, OwnersFacts, Running
<1>5. Tokens = LP!Tokens
  BY <1>4 DEF Tokens, LP!Tokens, Accounts, LP!Accounts
<1>6. Cardinality(Tokens) = TotalSupply
  BY <1>1, <1>5 DEF LP!SupplyKept, Cardinality, LP!Cardinality
<1>7. \A s \in Seals : balances[s] > 0 => owners[s] # NoOwner
  BY <1>1, <1>4 DEF LP!FundedOwned, Accounts
<1> QED
  BY <1>6, <1>7

(* Between deploys there are exactly as many tokens as the template fixed  *)
(* (contract_library.rs:18, "Fixed supply set at deployment (never         *)
(* changes)").  The runs Rho20SelfTransfer and Rho20OccupiedClaim show the *)
(* order of a wallet is needed, Rho20Overlap that serial evaluation is.    *)
THEOREM SerialSupplyFixed ==
  ASSUME SerialWallet
  PROVE  Spec => []SupplyFixed
<1>1. Init => SerialLedgerInv
  BY InitSerialLedgerInv
<1>2. SerialLedgerInv /\ [Next]_vars => SerialLedgerInv'
  BY NextSerialLedgerInv
<1>3. SerialLedgerInv => SupplyFixed
  BY QuiescentFacts
<1> QED
  BY <1>1, <1>2, <1>3, PTL DEF Spec

(* Between deploys no seal holds tokens that nobody's signature can move.  *)
THEOREM SerialFundedSealsOwned ==
  ASSUME SerialWallet
  PROVE  Spec => []FundedSealsOwned
<1>1. Init => SerialLedgerInv
  BY InitSerialLedgerInv
<1>2. SerialLedgerInv /\ [Next]_vars => SerialLedgerInv'
  BY NextSerialLedgerInv
<1>3. SerialLedgerInv => FundedSealsOwned
  BY QuiescentFacts
<1> QED
  BY <1>1, <1>2, <1>3, PTL DEF Spec
=============================================================================
