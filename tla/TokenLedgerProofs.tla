------------------------- MODULE TokenLedgerProofs -------------------------
(***************************************************************************)
(* Theorems about TokenLedger, for every set of seals, keys, nonces, calls *)
(* and requests.  What implements the ledger inherits them: see            *)
(* Rho20RefinementProofs.                                                  *)
(***************************************************************************)
EXTENDS TokenLedger, FiniteSetTheorems, TLAPS

(* What the ledger takes a request for. *)
RequestsTyped ==
  /\ \A r \in Requests :
       /\ r.method \in {"issue", "transfer", "claim"}
       /\ r.from \in Accounts /\ r.to \in Accounts
       /\ r.method = "issue" => r.from = Unallocated
       /\ r.amount \in Int /\ r.nonce \in Nonces
       /\ r.key \in Keys /\ r.signer \in Keys
  /\ NoOwner \notin Keys
  /\ Unallocated \notin Seals
  /\ TotalSupply \in Nat

TypeOK ==
  /\ balances \in [Accounts -> Nat]
  /\ owners \in [Accounts -> Keys \cup {NoOwner}]
  /\ usedNonces \in [Stores -> SUBSET Nonces]

(* Before the transfer to a claim's witness id took effect neither it nor  *)
(* the real UTXO has tokens: what makes ClaimTargetsEmpty inductive.       *)
UnpaidClaimsEmpty ==
  \A k, r \in Requests :
    k.method = "claim" /\ r.to = k.from /\ r.nonce \notin usedNonces[Store(r)] =>
      balances[k.from] = 0 /\ balances[k.to] = 0

----------------------------------------------------------------------------
(* The tokens of balances given as a function. *)
TokensIn(f) == {x \in Accounts \X Nat : x[2] \in 1..f[x[1]]}

LEMMA TokensAsSet == TypeOK => Tokens = TokensIn(balances)
  BY DEF TypeOK, Tokens, TokensIn

AfterMove(f, s, t, m) ==
  [a \in Accounts |-> f[a] - (IF a = s THEN m ELSE 0) + (IF a = t THEN m ELSE 0)]

(* A move takes the last tokens of one account and appends them to another *)
(* one: a bijection.                                                       *)
LEMMA MoveKeepsTokens ==
  ASSUME NEW f \in [Accounts -> Nat], IsFiniteSet(TokensIn(f)),
         NEW s \in Accounts, NEW t \in Accounts, s # t, NEW m \in Nat, m <= f[s]
  PROVE  /\ AfterMove(f, s, t, m) \in [Accounts -> Nat]
         /\ IsFiniteSet(TokensIn(AfterMove(f, s, t, m)))
         /\ Cardinality(TokensIn(AfterMove(f, s, t, m))) = Cardinality(TokensIn(f))
<1> DEFINE g == AfterMove(f, s, t, m)
           kept == f[s] - m
           Moved(x) == IF x[1] = s /\ x[2] > kept THEN <<t, f[t] + (x[2] - kept)>> ELSE x
           h == [x \in TokensIn(f) |-> Moved(x)]
<1>0. g \in [Accounts -> Nat]
  BY DEF AfterMove
<1>1. /\ g[s] = kept /\ g[t] = f[t] + m /\ kept \in Nat /\ f[t] \in Nat /\ f[s] = kept + m
      /\ \A a \in Accounts \ {s, t} : g[a] = f[a]
  BY DEF AfterMove
<1>2. \A x \in TokensIn(f) : Moved(x) \in TokensIn(g)
  <2> SUFFICES ASSUME NEW x \in TokensIn(f) PROVE Moved(x) \in TokensIn(g)
    OBVIOUS
  <2>1. x \in Accounts \X Nat /\ x[2] >= 1 /\ x[2] <= f[x[1]]
    BY DEF TokensIn
  <2>2. CASE x[1] = s /\ x[2] > kept
    BY <1>1, <2>1, <2>2 DEF TokensIn
  <2>3. CASE ~(x[1] = s /\ x[2] > kept)
    BY <1>1, <2>1, <2>3 DEF TokensIn
  <2> QED
    BY <2>2, <2>3
<1>3. \A x, y \in TokensIn(f) : Moved(x) = Moved(y) => x = y
  <2> SUFFICES ASSUME NEW x \in TokensIn(f), NEW y \in TokensIn(f), Moved(x) = Moved(y)
               PROVE  x = y
    OBVIOUS
  <2>1. /\ x \in Accounts \X Nat /\ x[2] >= 1 /\ x[2] <= f[x[1]] /\ x = <<x[1], x[2]>>
        /\ y \in Accounts \X Nat /\ y[2] >= 1 /\ y[2] <= f[y[1]] /\ y = <<y[1], y[2]>>
    BY DEF TokensIn
  <2> QED
    BY <1>1, <2>1
<1>4. \A y \in TokensIn(g) : \E x \in TokensIn(f) : Moved(x) = y
  <2> SUFFICES ASSUME NEW y \in TokensIn(g) PROVE \E x \in TokensIn(f) : Moved(x) = y
    OBVIOUS
  <2>1. y \in Accounts \X Nat /\ y[2] >= 1 /\ y[2] <= g[y[1]] /\ y = <<y[1], y[2]>>
    BY DEF TokensIn
  <2>2. CASE y[1] = t /\ y[2] > f[t]
    <3> DEFINE x == <<s, kept + (y[2] - f[t])>>
    <3>1. x \in TokensIn(f)
      BY <1>1, <2>1, <2>2 DEF TokensIn
    <3>2. Moved(x) = y
      BY <1>1, <2>1, <2>2
    <3> QED
      BY <3>1, <3>2
  <2>3. CASE ~(y[1] = t /\ y[2] > f[t])
    <3>1. y \in TokensIn(f) /\ Moved(y) = y
      BY <1>1, <2>1, <2>3 DEF TokensIn
    <3> QED
      BY <3>1
  <2> QED
    BY <2>2, <2>3
<1>5. h \in Bijection(TokensIn(f), TokensIn(g))
  <2> HIDE DEF Moved
  <2> QED
    BY <1>2, <1>3, <1>4 DEF Bijection, Injection, Surjection, IsInjective
<1> QED
  BY <1>0, <1>5, FS_Bijection DEF ExistsBijection

----------------------------------------------------------------------------
LedgerInv == TypeOK /\ SupplyKept /\ FundedOwned /\ ClaimTargetsEmpty /\ UnpaidClaimsEmpty

LEMMA InitLedger == RequestsTyped /\ WalletOrder => (Init => LedgerInv)
<1> SUFFICES ASSUME RequestsTyped, WalletOrder, Init PROVE LedgerInv
  OBVIOUS
<1> USE DEF RequestsTyped, Init, Accounts
<1>1. TypeOK
  BY DEF TypeOK
<1>2. SupplyKept
  <2>1. Tokens = {Unallocated} \X (1..TotalSupply)
    <3>1. Tokens = TokensIn(balances)
      BY <1>1, TokensAsSet
    <3>2. TokensIn(balances) = {Unallocated} \X (1..TotalSupply)
      BY DEF TokensIn
    <3> QED
      BY <3>1, <3>2
  <2>2. IsFiniteSet({Unallocated}) /\ Cardinality({Unallocated}) = 1
    BY FS_Singleton
  <2>3. IsFiniteSet(1..TotalSupply) /\ Cardinality(1..TotalSupply) = TotalSupply
    BY FS_Interval
  <2> QED
    BY <2>1, <2>2, <2>3, FS_Product DEF SupplyKept
<1>3. FundedOwned /\ ClaimTargetsEmpty /\ UnpaidClaimsEmpty
  BY DEF FundedOwned, ClaimTargetsEmpty, UnpaidClaimsEmpty, WalletOrder, InWalletOrder
<1> QED
  BY <1>1, <1>2, <1>3 DEF LedgerInv

(* A step moves tokens from one account to another, or none. *)
LEMMA NextTypeAndSupply ==
  ASSUME RequestsTyped, WalletOrder, TypeOK, SupplyKept, [Next]_vars
  PROVE  TypeOK' /\ SupplyKept'
<1> USE DEF RequestsTyped, TypeOK
<1>1. ASSUME UNCHANGED balances, TypeOK'
      PROVE  SupplyKept'
  BY <1>1 DEF SupplyKept, Tokens
<1>2. ASSUME NEW s \in Accounts, NEW t \in Accounts, s # t, NEW m \in Nat, m <= balances[s],
             Move(s, t, m)
      PROVE  /\ balances' \in [Accounts -> Nat]
             /\ TypeOK' => SupplyKept'
  <2>1. Tokens = TokensIn(balances) /\ (TypeOK' => Tokens' = TokensIn(balances'))
    BY TokensAsSet DEF Tokens, TokensIn
  <2>2. balances' = AfterMove(balances, s, t, m)
    BY <1>2 DEF Move, AfterMove
  <2>3. IsFiniteSet(TokensIn(balances)) /\ Cardinality(TokensIn(balances)) = TotalSupply
    BY <2>1 DEF SupplyKept
  <2>4. /\ balances' \in [Accounts -> Nat]
        /\ IsFiniteSet(TokensIn(balances')) /\ Cardinality(TokensIn(balances')) = TotalSupply
    BY <1>2, <2>2, <2>3, MoveKeepsTokens
  <2> QED
    BY <2>1, <2>4 DEF SupplyKept
<1>3. CASE UNCHANGED vars
  BY <1>1, <1>3 DEF vars
<1>4. ASSUME NEW c \in Calls, NEW r \in Requests, Pay(c, r)
      PROVE  TypeOK' /\ SupplyKept'
  <2>1. /\ r.to \in Accounts /\ r.amount \in Nat /\ r.amount <= balances[r.from]
        /\ r.from # r.to
    BY <1>4 DEF Pay, Accounts, WalletOrder, InWalletOrder
  <2>2. balances' \in [Accounts -> Nat] /\ (TypeOK' => SupplyKept')
    BY <1>2, <1>4, <2>1 DEF Pay
  <2>3. TypeOK'
    BY <1>4, <2>2 DEF Pay, Use
  <2> QED
    BY <2>2, <2>3
<1>5. ASSUME NEW c \in Calls, NEW r \in Requests, Claim(c, r)
      PROVE  TypeOK' /\ SupplyKept'
  <2>1. r.to \in Accounts /\ balances[r.from] \in Nat /\ r.from # r.to
    BY <1>5 DEF Claim, Accounts, WalletOrder, InWalletOrder
  <2>2. balances' \in [Accounts -> Nat] /\ (TypeOK' => SupplyKept')
    BY <1>2, <1>5, <2>1 DEF Claim
  <2>3. TypeOK'
    BY <1>5, <2>2 DEF Claim
  <2> QED
    BY <2>2, <2>3
<1>6. ASSUME NEW c \in Calls, NEW r \in Requests, Short(c, r) \/ Refuse(c, r)
      PROVE  TypeOK' /\ SupplyKept'
  BY <1>1, <1>6 DEF Short, Refuse, Use
<1> QED
  BY <1>3, <1>4, <1>5, <1>6 DEF Next

(* The target of every move gets an owner with it, and a claim leaves      *)
(* nothing where it deletes the owner.                                     *)
LEMMA NextFundedOwned ==
  ASSUME RequestsTyped, WalletOrder, TypeOK, FundedOwned, [Next]_vars
  PROVE  FundedOwned'
<1> USE DEF RequestsTyped, TypeOK, FundedOwned, Accounts
<1>1. ASSUME NEW c \in Calls, NEW r \in Requests, Pay(c, r)
      PROVE  FundedOwned'
  <2>1. r.from # r.to
    BY DEF WalletOrder, InWalletOrder
  <2> QED
    BY <1>1, <2>1 DEF Pay, Move
<1>2. ASSUME NEW c \in Calls, NEW r \in Requests, Claim(c, r)
      PROVE  FundedOwned'
  <2>1. r.from # r.to
    BY DEF WalletOrder, InWalletOrder
  <2> QED
    BY <1>2, <2>1 DEF Claim, Move
<1> QED
  BY <1>1, <1>2 DEF Next, Short, Refuse, vars

(* Tokens come to a witness id once, when nothing is at the real UTXO, and *)
(* leave it whole.                                                         *)
LEMMA NextClaims ==
  ASSUME RequestsTyped, WalletOrder, TypeOK, ClaimTargetsEmpty, UnpaidClaimsEmpty, [Next]_vars
  PROVE  ClaimTargetsEmpty' /\ UnpaidClaimsEmpty'
<1> USE DEF RequestsTyped, TypeOK
<1> SUFFICES ASSUME NEW k \in Requests, k.method = "claim"
             PROVE  /\ (balances[k.from] = 0 \/ balances[k.to] = 0)'
                    /\ \A q \in Requests : q.to = k.from /\ q.nonce \notin usedNonces'[Store(q)] =>
                         balances'[k.from] = 0 /\ balances'[k.to] = 0
  BY DEF ClaimTargetsEmpty, UnpaidClaimsEmpty
<1>0. \A q \in Requests : q.method # "claim" \/ q.to = k.from => q.method # "claim" /\ Store(q) \in Stores
  BY DEF WalletOrder, InWalletOrder, Store, Stores
<1>1. k.from \in Accounts /\ k.to \in Accounts /\ k.from # k.to
  BY DEF WalletOrder, InWalletOrder, Accounts
<1>2. /\ balances[k.from] = 0 \/ balances[k.to] = 0
      /\ \A q \in Requests : q.to = k.from /\ q.nonce \notin usedNonces[Store(q)] =>
           balances[k.from] = 0 /\ balances[k.to] = 0
  BY DEF ClaimTargetsEmpty, UnpaidClaimsEmpty
<1>3. \A st \in Stores : usedNonces[st] \subseteq usedNonces'[st]
  BY DEF Next, Pay, Claim, Short, Refuse, Use, vars
<1>4. CASE UNCHANGED balances
  BY <1>0, <1>2, <1>3, <1>4
<1>5. ASSUME NEW s \in Accounts, NEW t \in Accounts, s # t, NEW m \in Nat, m <= balances[s],
             Move(s, t, m), t \notin {k.from, k.to}
      PROVE  /\ balances[k.from] = 0 => balances'[k.from] = 0
             /\ balances[k.to] = 0 => balances'[k.to] = 0
  <2>1. ASSUME NEW x \in {k.from, k.to}, balances[x] = 0
        PROVE  balances'[x] = 0
    <3>1. x \in Accounts /\ x # t
      BY <1>1, <1>5
    <3>2. CASE x = s
      <4>1. m = 0
        BY <1>5, <2>1, <3>2
      <4> QED
        BY <1>5, <2>1, <3>1, <3>2, <4>1 DEF Move
    <3>3. CASE x # s
      BY <1>5, <2>1, <3>1, <3>3 DEF Move
    <3> QED
      BY <3>2, <3>3
  <2> QED
    BY <2>1
<1>6. ASSUME NEW c \in Calls, NEW r \in Requests, Pay(c, r)
      PROVE  /\ (balances[k.from] = 0 \/ balances[k.to] = 0)'
             /\ \A q \in Requests : q.to = k.from /\ q.nonce \notin usedNonces'[Store(q)] =>
                  balances'[k.from] = 0 /\ balances'[k.to] = 0
  <2>1. /\ r.to \in Accounts /\ r.amount \in Nat \ {0} /\ r.amount <= balances[r.from]
        /\ r.nonce \notin usedNonces[Store(r)] /\ r.nonce \in usedNonces'[Store(r)]
        /\ Move(r.from, r.to, r.amount) /\ r.from # r.to
    BY <1>0, <1>6 DEF Pay, Use, WalletOrder, InWalletOrder
  <2>2. r.to # k.to
    BY <1>6 DEF WalletOrder, InWalletOrder, Pay
  <2>3. CASE r.to = k.from
    <3>1. balances[k.from] = 0 /\ balances[k.to] = 0
      BY <1>2, <2>1, <2>3
    <3>2. balances'[k.to] = 0
      BY <1>1, <2>1, <2>3, <3>1 DEF Move
    <3>3. \A q \in Requests : q.to = k.from => q.nonce \in usedNonces'[Store(q)]
      BY <2>1, <2>3 DEF WalletOrder, InWalletOrder
    <3> QED
      BY <3>2, <3>3
  <2>4. CASE r.to # k.from
    BY <1>0, <1>2, <1>3, <1>5, <2>1, <2>2, <2>4
  <2> QED
    BY <2>3, <2>4
<1>7. ASSUME NEW c \in Calls, NEW r \in Requests, Claim(c, r)
      PROVE  /\ (balances[k.from] = 0 \/ balances[k.to] = 0)'
             /\ \A q \in Requests : q.to = k.from /\ q.nonce \notin usedNonces'[Store(q)] =>
                  balances'[k.from] = 0 /\ balances'[k.to] = 0
  <2>1. /\ r.to \in Accounts /\ balances[r.from] \in Nat \ {0} /\ UNCHANGED usedNonces
        /\ Move(r.from, r.to, balances[r.from]) /\ r.from # r.to /\ r.method = "claim"
    BY <1>7 DEF Claim, Accounts, WalletOrder, InWalletOrder
  <2>2. r.to # k.from
    BY <2>1 DEF WalletOrder, InWalletOrder
  <2>3. CASE r.to = k.to
    <3>1. r.from = k.from
      BY <2>3 DEF WalletOrder, InWalletOrder
    <3>2. balances'[k.from] = 0
      BY <1>1, <2>1, <2>3, <3>1 DEF Move
    <3> QED
      BY <1>2, <2>1, <3>1, <3>2
  <2>4. CASE r.to # k.to
    BY <1>0, <1>2, <1>3, <1>5, <2>1, <2>2, <2>4
  <2> QED
    BY <2>3, <2>4
<1> QED
  BY <1>4, <1>6, <1>7 DEF Next, Short, Refuse, vars

LEMMA NextLedger ==
  RequestsTyped /\ WalletOrder => (LedgerInv /\ [Next]_vars => LedgerInv')
  BY NextTypeAndSupply, NextFundedOwned, NextClaims DEF LedgerInv

(* The ledger makes and destroys no token, leaves none without an owner    *)
(* and, when clients keep the order of a wallet, never lets a claim meet   *)
(* tokens at its real UTXO.                                                *)
THEOREM LedgerKeepsTokens ==
  ASSUME RequestsTyped, WalletOrder
  PROVE  Spec => [](SupplyKept /\ FundedOwned /\ ClaimTargetsEmpty)
<1>1. Init => LedgerInv
  BY InitLedger
<1>2. LedgerInv /\ [Next]_vars => LedgerInv'
  BY NextLedger
<1>3. LedgerInv => SupplyKept /\ FundedOwned /\ ClaimTargetsEmpty
  BY DEF LedgerInv
<1> QED
  BY <1>1, <1>2, <1>3, PTL DEF Spec
=============================================================================
