------------------------- MODULE ConsignmentProofs -------------------------
(***************************************************************************)
(* Theorems about Consignment for every set of opids and every bound on    *)
(* deploys, outputs and consignments.                                      *)
(***************************************************************************)
EXTENDS Consignment, SequenceTheorems, FiniteSetTheorems, TLAPS

DeployRecords == [op : Ops, block : Nat, accepted : BOOLEAN]

(***************************************************************************)
(* What validation relies on but does not look at: a result is only given  *)
(* out for a final deploy, and a transaction, the one being built as well  *)
(* as those that came with a consignment, holds hashes of results only.    *)
(***************************************************************************)
ResultsFinal == \A d \in results : Finalized(d)
OfResults(t) == \A d \in Nat \ {0} : Commits(t, d) => d \in results
TxOfResults == OfResults(tx)
SentOfResults == \A c \in sent : c.witness # NoTx => OfResults(c.witness)
AcceptedValid ==
  \A c \in accepted :
    /\ c.block \in 1..final
    /\ c.witness # NoTx
    /\ OfResults(c.witness)
    /\ c.genesis \/ CommitmentVerified(c)

ProofInv ==
  /\ TypeOK
  /\ ResultsFinal
  /\ SealsFollowFinality

LEMMA InitTypeOK == Init => TypeOK
  BY DEF Init, TypeOK

LEMMA InitProofInv == Init => ProofInv
  BY InitTypeOK
     DEF Init, ProofInv, ResultsFinal, SealsFollowFinality

(* Deploys are only added, each keeps its opid and its block, and blocks   *)
(* stay final.                                                             *)
DeploysGrow ==
  /\ Len(deploys') >= Len(deploys)
  /\ final' >= final
  /\ \A d \in 1..Len(deploys) :
       /\ deploys'[d].op = deploys[d].op
       /\ deploys[d].block # 0 => deploys'[d].block = deploys[d].block

LEMMA CallGrows ==
  ASSUME TypeOK, NEW o \in Ops, Call(o)
  PROVE  TypeOK' /\ DeploysGrow
<1> DEFINE new == [op |-> o, block |-> 0, accepted |-> FALSE]
<1>1. /\ deploys \in Seq(DeployRecords) /\ new \in DeployRecords
      /\ deploys' = Append(deploys, new)
  BY DEF TypeOK, Call, DeployRecords
<1>2. /\ deploys' \in Seq(DeployRecords)
      /\ Len(deploys') = Len(deploys) + 1
      /\ Len(deploys) \in Nat
      /\ \A d \in 1..Len(deploys) : deploys'[d] = deploys[d]
  <2> HIDE DEF new
  <2> QED BY <1>1
<1> QED
  BY <1>2 DEF TypeOK, Call, DeploysGrow, wallet, chain, DeployRecords

LEMMA IncludeGrows ==
  ASSUME TypeOK, NEW d \in 1..Len(deploys), NEW b \in {height, height + 1},
         NEW ok \in BOOLEAN, Include(d, b, ok)
  PROVE  TypeOK' /\ DeploysGrow
<1> DEFINE moved == [deploys[d] EXCEPT !.block = b, !.accepted = ok]
<1>1. deploys \in Seq(DeployRecords) /\ Len(deploys) \in Nat
  BY DEF TypeOK, DeployRecords
<1>2. deploys[d] \in DeployRecords
  BY <1>1
<1>3. height \in Nat /\ final \in 0..height /\ b \in Nat
  BY DEF TypeOK
<1>4. /\ deploys' = [deploys EXCEPT ![d] = moved] /\ deploys[d].block = 0
      /\ height' = b
      /\ UNCHANGED <<final, waiting, results, seals, anchors>>
  BY <1>1 DEF Include, wallet
<1>5. moved \in DeployRecords /\ moved.op = deploys[d].op
  BY <1>2, <1>3 DEF DeployRecords
<1> HIDE DEF moved
<1>6. /\ deploys' \in Seq(DeployRecords)
      /\ Len(deploys') = Len(deploys)
      /\ deploys'[d] = moved
      /\ \A x \in 1..Len(deploys) : x # d => deploys'[x] = deploys[x]
  BY <1>1, <1>4, <1>5
<1>7. DeploysGrow
  BY <1>1, <1>3, <1>4, <1>5, <1>6 DEF DeploysGrow
<1>8. TypeOK'
  BY <1>3, <1>4, <1>6 DEF TypeOK, DeployRecords
<1> QED
  BY <1>7, <1>8

LEMMA NextTypeOK == TypeOK /\ [Next]_vars => TypeOK' /\ DeploysGrow
<1> SUFFICES ASSUME TypeOK, [Next]_vars PROVE TypeOK' /\ DeploysGrow
  OBVIOUS
<1>1. deploys' = deploys /\ final' >= final => DeploysGrow
  BY DEF DeploysGrow, TypeOK
<1>2. Len(deploys) \in Nat /\ \A d \in 1..Len(deploys) : deploys[d].op \in Ops
  <2>1. deploys \in Seq(DeployRecords)
    BY DEF TypeOK, DeployRecords
  <2>2. Len(deploys) \in Nat /\ \A d \in 1..Len(deploys) : deploys[d] \in DeployRecords
    BY <2>1
  <2> QED
    BY <2>2 DEF DeployRecords
<1>3. ASSUME Return PROVE TypeOK' /\ DeploysGrow
  <2>1. /\ waiting \in 1..Len(deploys)
        /\ UNCHANGED <<deploys, height, final, anchors>>
        /\ seals' = seals \cup {deploys[waiting].op}
        /\ results' = results \cup {waiting}
        /\ waiting' = 0
    BY <1>3 DEF Return, TypeOK, wallet, chain
  <2> QED
    BY <1>1, <1>2, <2>1 DEF TypeOK
<1>4. ASSUME Fail PROVE TypeOK' /\ DeploysGrow
  BY <1>1, <1>2, <1>4 DEF Fail, TypeOK, wallet, chain
<1>5. ASSUME NEW d \in results, NEW kind \in Kinds, AddAnchor(deploys[d].op, kind)
      PROVE  TypeOK' /\ DeploysGrow
  <2>1. deploys[d].op \in Ops
    BY <1>2 DEF TypeOK
  <2>2. /\ UNCHANGED <<deploys, height, final, waiting, results, seals>>
        /\ anchors' \in [Ops -> Kinds \cup {"none"}]
    BY <1>5, <2>1 DEF AddAnchor, TypeOK, calls, chain
  <2> QED
    BY <1>1, <2>2 DEF TypeOK
<1>6. ASSUME NEW o \in Ops, RemoveAnchor(o) PROVE TypeOK' /\ DeploysGrow
  BY <1>1, <1>6 DEF RemoveAnchor, TypeOK, calls, chain
<1>7. ASSUME UNCHANGED <<calls, anchors>> PROVE TypeOK' /\ DeploysGrow
  BY <1>1, <1>7 DEF TypeOK, calls, chain
<1>8. ASSUME Finalize PROVE TypeOK' /\ DeploysGrow
  BY <1>1, <1>8 DEF Finalize, TypeOK, wallet
<1> QED
  BY CallGrows, IncludeGrows, <1>3, <1>4, <1>5, <1>6, <1>7, <1>8
     DEF Next, StartTx, EmbedOpReturn, EmbedTapret, Receive, Pack, Decode, Accept, calls,
         wallet, vars

(* Deploys, results, seals and anchors keep their types. *)
THEOREM ConsignmentTypeOK == Spec => []TypeOK
<1> QED
  BY InitTypeOK, NextTypeOK, PTL DEF Spec

----------------------------------------------------------------------------
(* Finality is for good, so what rests on it stays. *)
LEMMA FinalStays ==
  ASSUME TypeOK, TypeOK', DeploysGrow
  PROVE  \A d : Finalized(d) => Finalized(d)' /\ deploys'[d].op = deploys[d].op
<1> SUFFICES ASSUME NEW d, Finalized(d)
             PROVE  Finalized(d)' /\ deploys'[d].op = deploys[d].op
  OBVIOUS
<1>1. /\ Len(deploys) \in Nat /\ d \in 1..Len(deploys)
      /\ deploys[d].block \in 1..final /\ deploys[d].block # 0
  BY DEF TypeOK, Finalized
<1>2. Len(deploys') \in Nat /\ final' \in Nat /\ final \in Nat
  BY DEF TypeOK
<1> QED
  BY <1>1, <1>2 DEF DeploysGrow, Finalized

(* A result is only returned for the awaited deploy, once it is final, and *)
(* with the seals of its opid.                                             *)
LEMMA NextResults ==
  ASSUME TypeOK, TypeOK', DeploysGrow, ResultsFinal, SealsFollowFinality, [Next]_vars
  PROVE  /\ ResultsFinal' /\ SealsFollowFinality'
         /\ results \subseteq results'
<1>1. \A d : Finalized(d) => Finalized(d)' /\ deploys'[d].op = deploys[d].op
  BY FinalStays
<1>2. \A d : Finalized(d) => d \in 1..Len(deploys)
  BY DEF Finalized
<1>3. \A d : (Finalized(d))' => d \in 1..Len(deploys')
  BY DEF Finalized
<1>4. ASSUME Return
      PROVE  ResultsFinal' /\ SealsFollowFinality' /\ results \subseteq results'
  <2>1. /\ Finalized(waiting)
        /\ deploys' = deploys
        /\ seals' = seals \cup {deploys[waiting].op}
        /\ results' = results \cup {waiting}
    BY <1>4 DEF Return, Answerable
  <2> QED
    BY <1>1, <1>2, <1>3, <2>1 DEF ResultsFinal, SealsFollowFinality
<1>5. ASSUME UNCHANGED <<results, seals>>
      PROVE  ResultsFinal' /\ SealsFollowFinality' /\ results \subseteq results'
  <2>1. ResultsFinal'
    BY <1>1, <1>5 DEF ResultsFinal
  <2>2. \A d \in results' : deploys'[d].op \in seals'
    BY <1>1, <1>5 DEF ResultsFinal, SealsFollowFinality
  <2>3. \A o \in seals' : \E d \in 1..Len(deploys') : deploys'[d].op = o /\ Finalized(d)'
    BY <1>1, <1>3, <1>5 DEF SealsFollowFinality
  <2> QED
    BY <1>5, <2>1, <2>2, <2>3 DEF SealsFollowFinality
<1> QED
  BY <1>4, <1>5
     DEF Next, Call, Include, Finalize, Fail, StartTx, EmbedOpReturn, EmbedTapret, AddAnchor,
         RemoveAnchor, Receive, Pack, Decode, Accept, calls, wallet, vars

LEMMA NextProofInv == ProofInv /\ [Next]_vars => ProofInv'
<1> SUFFICES ASSUME ProofInv, [Next]_vars PROVE ProofInv'
  OBVIOUS
<1>1. TypeOK /\ TypeOK' /\ DeploysGrow /\ ResultsFinal /\ SealsFollowFinality
  BY NextTypeOK DEF ProofInv
<1>2. ResultsFinal' /\ SealsFollowFinality' /\ results \subseteq results'
  BY <1>1, NextResults
<1> QED
  BY <1>1, <1>2 DEF ProofInv

LEMMA ProofInvAlways == Spec => []ProofInv
<1> QED
  BY InitProofInv, NextProofInv, PTL DEF Spec

(* contract.rs:238-248: in every order of calls, failures and late blocks, *)
(* the tracker holds seals only for operations with a final deploy, and    *)
(* for all whose result was returned.                                      *)
THEOREM SealsNeedFinality == Spec => []SealsFollowFinality
<1>1. ProofInv => SealsFollowFinality
  BY DEF ProofInv
<1> QED
  BY ProofInvAlways, <1>1, PTL

----------------------------------------------------------------------------
(***************************************************************************)
(* The first output of a witness has to exist for an OP_RETURN commitment  *)
(* to be one of the transaction's outputs: transactions start with a       *)
(* payment and outputs are only inserted.                                  *)
(***************************************************************************)
Outputs == {q \in Seq([opreturn : Nat]) : Len(q) > 0}
Transactions == [outputs : Outputs, tapret : Nat]
Consignments ==
  [block : Nat, state : Nat \ {0}, anchor : Kinds, witness : Transactions \cup {NoTx},
   seals : SUBSET {InvoiceSeal}, genesis : BOOLEAN]

WitnessInv == tx \in Transactions /\ sent \subseteq Consignments /\ accepted \subseteq Consignments

(* A commitment inserted between outputs leaves a list of outputs. *)
LEMMA InsertedOutputs ==
  ASSUME NEW q \in Outputs, NEW d \in Nat, NEW i \in Nat \ {0}, i <= Len(q) + 1
  PROVE  OutputInserted(q, i, d) \in Outputs
<1> DEFINE S == [opreturn : Nat]
           o == OpReturn(d)
<1>1. q \in Seq(S) /\ Len(q) \in Nat /\ o \in S
  BY DEF Outputs, OpReturn
<1> HIDE DEF S, o
<1>2. /\ SubSeq(q, 1, i - 1) \in Seq(S)
      /\ Len(SubSeq(q, 1, i - 1)) = i - 1
  <2>1. \A j \in 1..(i - 1) : q[j] \in S
    BY <1>1
  <2> QED
    BY <2>1, SubSeqProperties
<1>3. /\ SubSeq(q, i, Len(q)) \in Seq(S)
      /\ Len(SubSeq(q, i, Len(q))) = Len(q) - i + 1
  <2>1. \A j \in i..Len(q) : q[j] \in S
    BY <1>1
  <2> QED
    BY <1>1, <2>1, SubSeqProperties
<1>4. /\ <<o>> \in Seq(S)
      /\ Len(<<o>>) = 1
  BY <1>1
<1> DEFINE left == SubSeq(q, 1, i - 1) \o <<o>>
           right == SubSeq(q, i, Len(q))
<1>5. left \in Seq(S) /\ Len(left) = i
  BY <1>2, <1>4, ConcatProperties
<1>6. left \o right \in Seq(S) /\ Len(left \o right) = Len(q) + 1
  <2> HIDE DEF left
  <2>1. right \in Seq(S) /\ Len(right) = Len(q) - i + 1
    BY <1>3
  <2> HIDE DEF right
  <2>2. left \o right \in Seq(S) /\ Len(left \o right) = Len(left) + Len(right)
    BY <1>5, <2>1, ConcatProperties
  <2> QED
    BY <1>1, <1>5, <2>1, <2>2
<1>7. left \o right = OutputInserted(q, i, d)
  BY DEF OutputInserted, InsertAt, o
<1> HIDE DEF left, right
<1> QED
  BY <1>1, <1>6, <1>7 DEF Outputs, S

(* What an insertion leaves at each index. *)
LEMMA InsertedAt ==
  ASSUME NEW q \in Outputs, NEW d \in Nat, NEW i \in Nat \ {0}, i <= Len(q) + 1
  PROVE  /\ Len(OutputInserted(q, i, d)) = Len(q) + 1
         /\ \A j \in 1..(Len(q) + 1) :
              /\ j < i => OutputInserted(q, i, d)[j] = q[j]
              /\ j = i => OutputInserted(q, i, d)[j] = OpReturn(d)
              /\ j > i => OutputInserted(q, i, d)[j] = q[j - 1]
<1> DEFINE S == [opreturn : Nat]
           o == OpReturn(d)
           before == SubSeq(q, 1, i - 1)
           after == SubSeq(q, i, Len(q))
           left == before \o <<o>>
<1>1. q \in Seq(S) /\ Len(q) \in Nat /\ o \in S
  BY DEF Outputs, OpReturn
<1>2. OutputInserted(q, i, d) = left \o after
  BY DEF OutputInserted, InsertAt
<1> HIDE DEF S, o
<1>3. /\ before \in Seq(S) /\ Len(before) = i - 1
      /\ \A j \in 1..(i - 1) : before[j] = q[j]
  <2>1. \A j \in 1..(i - 1) : q[j] \in S
    BY <1>1
  <2> QED
    BY <2>1, SubSeqProperties
<1>4. /\ after \in Seq(S) /\ Len(after) = Len(q) - i + 1
      /\ \A j \in 1..(Len(q) - i + 1) : after[j] = q[i + j - 1]
  <2>1. \A j \in i..Len(q) : q[j] \in S
    BY <1>1
  <2> QED
    BY <1>1, <2>1, SubSeqProperties
<1> DEFINE mid == <<o>>
<1>5. mid \in Seq(S) /\ Len(mid) = 1 /\ mid[1] = o
  BY <1>1
<1>6. left = before \o mid
  OBVIOUS
<1> HIDE DEF left, mid
<1>7. /\ left \in Seq(S) /\ Len(left) = i
      /\ \A j \in 1..(i - 1) : left[j] = q[j]
      /\ left[i] = o
  <2>1. /\ before \o mid \in Seq(S) /\ Len(before \o mid) = Len(before) + Len(mid)
        /\ \A j \in 1..(Len(before) + Len(mid)) :
             (before \o mid)[j] = IF j <= Len(before) THEN before[j] ELSE mid[j - Len(before)]
    BY <1>3, <1>5, ConcatProperties
  <2>2. left \in Seq(S) /\ Len(left) = i
    BY <1>3, <1>5, <1>6, <2>1
  <2>3. \A j \in 1..(i - 1) : left[j] = q[j]
    BY <1>3, <1>5, <1>6, <2>1
  <2>4. left[i] = mid[1]
    BY <1>3, <1>5, <1>6, <2>1
  <2> QED
    BY <1>5, <2>2, <2>3, <2>4
<1>8. /\ Len(left \o after) = Len(q) + 1
      /\ \A j \in 1..(Len(q) + 1) :
           (left \o after)[j] = IF j <= i THEN left[j] ELSE after[j - i]
  <2>1. /\ Len(left \o after) = Len(left) + Len(after)
        /\ \A j \in 1..(Len(left) + Len(after)) :
             (left \o after)[j] = IF j <= Len(left) THEN left[j] ELSE after[j - Len(left)]
    BY <1>4, <1>7, ConcatProperties
  <2>2. Len(left) = i /\ Len(left) + Len(after) = Len(q) + 1
    BY <1>1, <1>4, <1>7
  <2> QED
    BY <2>1, <2>2
<1>9. ASSUME NEW j \in 1..(Len(q) + 1)
      PROVE  /\ j < i => (left \o after)[j] = q[j]
             /\ j = i => (left \o after)[j] = o
             /\ j > i => (left \o after)[j] = q[j - 1]
  <2>1. ASSUME j < i PROVE (left \o after)[j] = q[j]
    <3>1. j \in 1..(i - 1) /\ j <= i
      BY <1>9, <2>1
    <3> QED
      BY <1>7, <1>8, <1>9, <3>1
  <2>2. ASSUME j = i PROVE (left \o after)[j] = o
    <3>1. j <= i
      BY <1>9, <2>2
    <3> QED
      BY <1>7, <1>8, <1>9, <2>2, <3>1
  <2>3. ASSUME j > i PROVE (left \o after)[j] = q[j - 1]
    <3>1. ~(j <= i) /\ j - i \in 1..(Len(q) - i + 1) /\ i + (j - i) - 1 = j - 1
      BY <1>1, <1>9, <2>3
    <3>2. (left \o after)[j] = after[j - i]
      BY <1>8, <1>9, <3>1
    <3>3. after[j - i] = q[i + (j - i) - 1]
      BY <1>4, <3>1
    <3> QED
      BY <3>1, <3>2, <3>3
  <2> QED
    BY <2>1, <2>2, <2>3
<1> QED
  BY <1>1, <1>2, <1>8, <1>9 DEF o

(* Nothing is in the new list that was not inserted or there before. *)
LEMMA InsertedFrom ==
  ASSUME NEW q \in Outputs, NEW d \in Nat, NEW i \in Nat \ {0}, i <= Len(q) + 1,
         NEW k \in DOMAIN OutputInserted(q, i, d)
  PROVE  \/ OutputInserted(q, i, d)[k] = OpReturn(d)
         \/ \E j \in DOMAIN q : OutputInserted(q, i, d)[k] = q[j]
<1> DEFINE p == OutputInserted(q, i, d)
<1>1. /\ Len(p) = Len(q) + 1
      /\ \A j \in 1..(Len(q) + 1) :
           /\ j < i => p[j] = q[j]
           /\ j = i => p[j] = OpReturn(d)
           /\ j > i => p[j] = q[j - 1]
  BY InsertedAt
<1>2. p \in Outputs
  BY InsertedOutputs
<1> HIDE DEF p
<1>3. k \in 1..(Len(q) + 1) /\ DOMAIN q = 1..Len(q) /\ Len(q) \in Nat
  <2>1. k \in DOMAIN p
    BY DEF p
  <2> QED
    BY <1>1, <1>2, <2>1 DEF Outputs
<1>4. CASE k < i
  BY <1>1, <1>3, <1>4 DEF p
<1>5. CASE k = i
  BY <1>1, <1>3, <1>5 DEF p
<1>6. CASE k > i
  <2>1. k - 1 \in 1..Len(q)
    BY <1>3, <1>6
  <2> QED
    BY <1>1, <1>3, <1>6, <2>1 DEF p
<1> QED
  BY <1>3, <1>4, <1>5, <1>6

LEMMA InitWitnessInv == Init => WitnessInv
<1>1. <<Payment>> \in Outputs
  BY DEF Payment, Outputs
<1> QED
  BY <1>1 DEF Init, WitnessInv, Unanchored, Transactions

LEMMA NextWitnessInv == TypeOK /\ WitnessInv /\ [Next]_vars => WitnessInv'
<1> SUFFICES ASSUME TypeOK, WitnessInv, [Next]_vars PROVE WitnessInv'
  OBVIOUS
<1> USE DEF WitnessInv
<1>1. results \subseteq Nat
  BY DEF TypeOK
<1>2. Unanchored \in Transactions
  BY DEF Unanchored, Payment, Transactions, Outputs
<1>3. ASSUME NEW d \in results, NEW i \in 1..MaxOutputs, EmbedOpReturn(d, i)
      PROVE  WitnessInv'
  <2>1. tx.outputs \in Outputs /\ tx.tapret \in Nat
    BY DEF Transactions
  <2>2. OutputInserted(tx.outputs, i, d) \in Outputs
    BY <1>1, <1>3, <2>1, BoundAssumption, InsertedOutputs DEF EmbedOpReturn
  <2>3. tx' = [tx EXCEPT !.outputs = OutputInserted(tx.outputs, i, d)]
        /\ UNCHANGED <<sent, accepted>>
    BY <1>3 DEF EmbedOpReturn
  <2> QED
    BY <2>2, <2>3 DEF Transactions
<1>4. ASSUME NEW d \in results, EmbedTapret(d) PROVE WitnessInv'
  BY <1>1, <1>4 DEF EmbedTapret, Transactions
<1>5. ASSUME NEW c, Receive(c), c \in Consignments PROVE WitnessInv'
  BY <1>5 DEF Receive
<1>6. \A d \in 1..Len(deploys) : deploys[d] \in DeployRecords
  <2>1. deploys \in Seq(DeployRecords)
    BY DEF TypeOK, DeployRecords
  <2> QED
    BY <2>1
<1>7. ASSUME NEW d \in results, NEW genesis \in BOOLEAN,
             NEW witness \in {tx, NoTx}, NEW vouts \in {{}, {InvoiceSeal}},
             Pack(d, genesis, witness, vouts)
      PROVE  WitnessInv'
  <2>1. deploys[d].op \in Ops /\ deploys[d].block \in Nat /\ d \in Nat \ {0}
    BY <1>6 DEF TypeOK, DeployRecords
  <2>2. AnchorOf(d, genesis) \in Kinds
    BY <1>7, <2>1 DEF Pack, AnchorOf, Kinds, TypeOK
  <2>3. [block |-> deploys[d].block, state |-> d, anchor |-> AnchorOf(d, genesis),
         witness |-> witness, seals |-> vouts, genesis |-> genesis] \in Consignments
    BY <2>1, <2>2 DEF Consignments
  <2> QED
    BY <1>7, <1>5, <2>3 DEF Pack
<1>8. ASSUME NEW b \in 1..height, NEW d \in 1..Len(deploys), NEW kind \in Kinds,
             NEW genesis \in BOOLEAN, NEW witness \in {tx, NoTx},
             NEW vouts \in {{}, {InvoiceSeal}},
             Decode(b, d, kind, genesis, witness, vouts)
      PROVE  WitnessInv'
  <2>1. [block |-> b, state |-> d, anchor |-> kind,
         witness |-> witness, seals |-> vouts, genesis |-> genesis] \in Consignments
    BY DEF Consignments
  <2> QED
    BY <1>8, <1>5, <2>1 DEF Decode
<1>9. ASSUME NEW c \in sent, Accept(c) PROVE WitnessInv'
  BY <1>9 DEF Accept
<1>10. ASSUME StartTx PROVE WitnessInv'
  BY <1>2, <1>10 DEF StartTx
<1>11. ASSUME UNCHANGED <<tx, sent, accepted>> PROVE WitnessInv'
  BY <1>11
<1>12. ASSUME \/ \E o \in Ops : Call(o) \/ RemoveAnchor(o)
              \/ \E d \in 1..Len(deploys), b \in {height, height + 1}, ok \in BOOLEAN :
                   Include(d, b, ok)
              \/ Finalize \/ Return \/ Fail
              \/ \E d \in results, kind \in Kinds : AddAnchor(deploys[d].op, kind)
       PROVE  WitnessInv'
  BY <1>11, <1>12 DEF Call, Include, Finalize, Return, Fail, AddAnchor, RemoveAnchor, wallet
<1> HIDE DEF WitnessInv
<1> QED
  BY <1>3, <1>4, <1>7, <1>8, <1>9, <1>10, <1>11, <1>12 DEF Next, wallet, vars

LEMMA WitnessInvAlways == Spec => []WitnessInv
<1> QED
  BY InitWitnessInv, NextWitnessInv, ConsignmentTypeOK, PTL DEF Spec

----------------------------------------------------------------------------
(* The hashes in transactions are those of results. *)
HashInv == TxOfResults /\ SentOfResults /\ AcceptedValid

LEMMA InitHashInv == Init => HashInv
<1>1. \A d \in Nat \ {0} : ~Commits(Unanchored, d)
  BY DEF Commits, Unanchored, Payment
<1> QED
  BY <1>1 DEF Init, HashInv, TxOfResults, SentOfResults, AcceptedValid, OfResults

LEMMA NextHashInv ==
  ProofInv /\ ProofInv' /\ WitnessInv /\ HashInv /\ [Next]_vars => HashInv'
<1> SUFFICES ASSUME ProofInv, ProofInv', WitnessInv, HashInv, [Next]_vars
             PROVE  HashInv'
  OBVIOUS
<1>1. /\ results \subseteq results'
      /\ final \in Nat /\ final' \in Nat /\ final <= final'
  <2>1. DeploysGrow /\ TypeOK /\ TypeOK'
    BY NextTypeOK DEF ProofInv
  <2> QED
    BY <2>1, NextResults DEF ProofInv, DeploysGrow, TypeOK
<1>2. /\ \A t : OfResults(t) => OfResults(t)'
      /\ \A b : b \in 1..final => b \in 1..final'
  BY <1>1 DEF OfResults, Commits
<1>3. TxOfResults'
  <2>1. CASE tx' = tx
    BY <1>2, <2>1 DEF HashInv, TxOfResults, OfResults, Commits
  <2>2. CASE StartTx
    <3>1. \A d \in Nat \ {0} : ~Commits(Unanchored, d)
      BY DEF Commits, Unanchored, Payment
    <3> QED
      BY <2>2, <3>1 DEF StartTx, TxOfResults, OfResults, Commits
  <2>3. ASSUME NEW d \in results, NEW i \in 1..MaxOutputs, EmbedOpReturn(d, i)
        PROVE  TxOfResults'
    <3>1. /\ tx.outputs \in Outputs /\ d \in Nat /\ i \in Nat \ {0}
          /\ i <= Len(tx.outputs) + 1
          /\ tx'.outputs = OutputInserted(tx.outputs, i, d)
          /\ tx'.tapret = tx.tapret
      BY <2>3, BoundAssumption DEF EmbedOpReturn, WitnessInv, Transactions, ProofInv, TypeOK
    <3>2. ASSUME NEW x \in Nat \ {0}, Commits(tx', x) PROVE x \in results'
      <4>1. CASE tx'.tapret = x
        <5>1. Commits(tx, x)
          BY <3>1, <4>1 DEF Commits
        <5> QED
          BY <1>1, <5>1 DEF HashInv, TxOfResults, OfResults
      <4>2. ASSUME NEW k \in DOMAIN tx'.outputs, tx'.outputs[k].opreturn = x
            PROVE  x \in results'
        <5>1. \/ tx'.outputs[k] = OpReturn(d)
              \/ \E j \in DOMAIN tx.outputs : tx'.outputs[k] = tx.outputs[j]
          BY <3>1, InsertedFrom
        <5>2. x = d \/ Commits(tx, x)
          BY <4>2, <5>1 DEF OpReturn, Commits
        <5> QED
          BY <1>1, <5>2 DEF HashInv, TxOfResults, OfResults
      <4> QED
        BY <3>2, <4>1, <4>2 DEF Commits
    <3> QED
      BY <3>2 DEF TxOfResults, OfResults, Commits
  <2>4. ASSUME NEW d \in results, EmbedTapret(d) PROVE TxOfResults'
    <3>1. tx'.tapret = d /\ tx'.outputs = tx.outputs
      BY <2>4 DEF EmbedTapret, WitnessInv, Transactions
    <3>2. ASSUME NEW x \in Nat \ {0}, Commits(tx', x) PROVE x \in results'
      BY <1>1, <3>1, <3>2 DEF Commits, HashInv, TxOfResults, OfResults
    <3> QED
      BY <3>2 DEF TxOfResults, OfResults, Commits
  <2> QED
    BY <2>1, <2>2, <2>3, <2>4
       DEF Next, Call, Include, Finalize, Return, Fail, AddAnchor, RemoveAnchor, Receive,
           Pack, Decode, Accept, wallet, vars
<1>4. SentOfResults' /\ AcceptedValid'
  <2>1. ASSUME NEW c, Receive(c), c.witness \in {tx, NoTx}
        PROVE  SentOfResults' /\ AcceptedValid'
    BY <1>2, <2>1 DEF Receive, HashInv, TxOfResults, SentOfResults, AcceptedValid
  <2>2. ASSUME NEW c \in sent, Accept(c) PROVE SentOfResults' /\ AcceptedValid'
    <3>1. /\ accepted' = accepted \cup {c} /\ sent' = sent /\ final' = final
          /\ c.block \in 1..final /\ c.witness # NoTx
          /\ c.genesis \/ CommitmentVerified(c)
      BY <2>2 DEF Accept, Valid, BlockFinalized, calls, chain
    <3> QED
      BY <1>2, <3>1 DEF HashInv, SentOfResults, AcceptedValid
  <2>3. ASSUME UNCHANGED <<sent, accepted>> PROVE SentOfResults' /\ AcceptedValid'
    BY <1>2, <2>3 DEF HashInv, SentOfResults, AcceptedValid
  <2>4. ASSUME NEW d \in results, NEW genesis \in BOOLEAN,
               NEW witness \in {tx, NoTx}, NEW vouts \in {{}, {InvoiceSeal}},
               Pack(d, genesis, witness, vouts)
        PROVE  SentOfResults' /\ AcceptedValid'
    BY <2>1, <2>4 DEF Pack
  <2>5. ASSUME NEW b \in 1..height, NEW d \in 1..Len(deploys), NEW kind \in Kinds,
               NEW genesis \in BOOLEAN, NEW witness \in {tx, NoTx},
               NEW vouts \in {{}, {InvoiceSeal}},
               Decode(b, d, kind, genesis, witness, vouts)
        PROVE  SentOfResults' /\ AcceptedValid'
    BY <2>1, <2>5 DEF Decode
  <2> QED
    BY <2>2, <2>3, <2>4, <2>5
       DEF Next, Call, Include, Finalize, Return, Fail, StartTx, EmbedOpReturn, EmbedTapret,
           AddAnchor, RemoveAnchor, wallet, vars
<1> QED
  BY <1>3, <1>4 DEF HashInv

LEMMA HashInvAlways == Spec => []HashInv
<1> QED
  BY InitHashInv, NextHashInv, ProofInvAlways, WitnessInvAlways, PTL DEF Spec

(* What validation found in the witness is one of its commitments. *)
LEMMA VerifiedCommits ==
  ASSUME NEW c \in Consignments, c.witness # NoTx, CommitmentVerified(c)
  PROVE  Commits(c.witness, c.state)
<1>1. c.witness \in Transactions
  BY DEF Consignments
<1>2. 1 \in DOMAIN c.witness.outputs
  BY <1>1 DEF Transactions, Outputs
<1> QED
  BY <1>2 DEF CommitmentVerified, TapretCommits, OpReturnCommits, Commits

(* consignment.rs:236-333: however a consignment's fields were put         *)
(* together and whatever deploys were repeated, failed or landed late, an  *)
(* accepted one names a final block, and a transfer's transaction commits  *)
(* to its state hash, which belongs to a final deploy.                     *)
THEOREM AcceptedTransfersProven == Spec => []AcceptedIsProven
<1>1. ProofInv /\ WitnessInv /\ HashInv => AcceptedIsProven
  <2> SUFFICES ASSUME ProofInv, WitnessInv, HashInv, NEW c \in accepted
               PROVE  /\ c.block \in 1..final
                      /\ c.genesis \/ (Commits(c.witness, c.state) /\ Finalized(c.state))
    BY DEF AcceptedIsProven
  <2>1. /\ c.block \in 1..final
        /\ c.witness # NoTx
        /\ OfResults(c.witness)
        /\ c.genesis \/ CommitmentVerified(c)
    BY DEF HashInv, AcceptedValid
  <2>2. c \in Consignments /\ c.state \in Nat
    BY DEF WitnessInv, Consignments
  <2>3. c.state # 0
    BY DEF WitnessInv, Consignments
  <2>4. ASSUME ~c.genesis PROVE Commits(c.witness, c.state) /\ Finalized(c.state)
    <3>1. Commits(c.witness, c.state)
      BY <2>1, <2>2, <2>4, VerifiedCommits
    <3>2. c.state \in results
      BY <2>1, <2>2, <2>3, <3>1 DEF OfResults
    <3> QED
      BY <3>1, <3>2 DEF ProofInv, ResultsFinal
  <2> QED
    BY <2>1, <2>4
<1> QED
  BY ProofInvAlways, WitnessInvAlways, HashInvAlways, <1>1, PTL

(* The transaction that proved one state to a recipient can, with the same *)
(* kind of anchor, prove no other, whichever block a consignment names and *)
(* however many hashes the transaction carries.                            *)
THEOREM TransactionProvesOneState == Spec => []OneStatePerTransaction
<1>1. HashInv /\ WitnessInv => OneStatePerTransaction
  <2> SUFFICES ASSUME HashInv, WitnessInv, NEW c \in accepted,
                      NEW d \in 1..Len(deploys), NEW b \in 1..height,
                      ~c.genesis, d # c.state,
                      Valid([c EXCEPT !.block = b, !.state = d])
               PROVE  FALSE
    BY DEF OneStatePerTransaction
  <2> DEFINE e == [c EXCEPT !.block = b, !.state = d]
  <2>1. c \in Consignments
    BY DEF WitnessInv
  <2>2. /\ e.state = d /\ e.anchor = c.anchor
        /\ e.witness = c.witness /\ e.genesis = c.genesis
    BY <2>1 DEF Consignments
  <2> HIDE DEF e
  <2>3. CommitmentVerified(c)
    BY DEF HashInv, AcceptedValid
  <2>4. Valid(e)
    BY DEF e
  <2>5. CommitmentVerified(e)
    BY <2>2, <2>4 DEF Valid
  <2> QED
    BY <2>2, <2>3, <2>5 DEF CommitmentVerified, TapretCommits, OpReturnCommits
<1> QED
  BY HashInvAlways, WitnessInvAlways, <1>1, PTL

----------------------------------------------------------------------------
(* The payments behind the inserted output move up by one: a bijection. *)
LEMMA InsertionKeepsPayments ==
  ASSUME NEW t \in Transactions, NEW u \in Transactions, NEW d \in Nat \ {0},
         NEW i \in Nat \ {0}, i <= Len(t.outputs) + 1,
         u.outputs = OutputInserted(t.outputs, i, d)
  PROVE  /\ Payments(u) = Payments(t)
         /\ \A j \in DOMAIN t.outputs : \E k \in DOMAIN u.outputs : u.outputs[k] = t.outputs[j]
<1> DEFINE q == t.outputs
           p == u.outputs
           P == {j \in DOMAIN q : q[j] = Payment}
           Q == {j \in DOMAIN p : p[j] = Payment}
           Up(j) == IF j < i THEN j ELSE j + 1
           h == [j \in P |-> Up(j)]
<1>1. /\ q \in Outputs /\ Len(q) \in Nat
      /\ DOMAIN q = 1..Len(q) /\ DOMAIN p = 1..Len(p)
  BY DEF Transactions, Outputs
<1>2. /\ Len(p) = Len(q) + 1
      /\ i \in 1..(Len(q) + 1)
      /\ \A j \in 1..(Len(q) + 1) :
           /\ j < i => p[j] = q[j]
           /\ j = i => p[j] = OpReturn(d)
           /\ j > i => p[j] = q[j - 1]
  <2>1. q \in Outputs /\ i <= Len(q) + 1 /\ p = OutputInserted(q, i, d)
    BY <1>1
  <2> HIDE DEF q, p
  <2>2. /\ Len(OutputInserted(q, i, d)) = Len(q) + 1
        /\ \A j \in 1..(Len(q) + 1) :
             /\ j < i => OutputInserted(q, i, d)[j] = q[j]
             /\ j = i => OutputInserted(q, i, d)[j] = OpReturn(d)
             /\ j > i => OutputInserted(q, i, d)[j] = q[j - 1]
    BY <2>1, InsertedAt
  <2>3. i \in 1..(Len(q) + 1)
    BY <1>1, <2>1
  <2> QED
    BY <2>1, <2>2, <2>3
<1> HIDE DEF q, p
<1>3. \A j \in 1..Len(q) : Up(j) \in 1..Len(p) /\ p[Up(j)] = q[j]
  BY <1>1, <1>2
<1>4. OpReturn(d) # Payment
  BY DEF OpReturn, Payment
<1>5. h \in Bijection(P, Q)
  <2>1. \A j \in P : Up(j) \in Q
    BY <1>1, <1>3
  <2>2. \A j, k \in P : Up(j) = Up(k) => j = k
    BY <1>1
  <2>3. \A k \in Q : \E j \in P : Up(j) = k
    <3> SUFFICES ASSUME NEW k \in Q PROVE \E j \in P : Up(j) = k
      OBVIOUS
    <3>1. k \in 1..(Len(q) + 1) /\ p[k] = Payment /\ k # i
      BY <1>1, <1>2, <1>4
    <3>2. CASE k < i
      <4>1. k \in 1..Len(q) /\ q[k] = Payment /\ Up(k) = k
        <5>1. k \in 1..Len(q) /\ Up(k) = k
          BY <1>1, <1>2, <3>1, <3>2
        <5>2. p[k] = q[k]
          BY <1>2, <3>1, <3>2
        <5> QED
          BY <3>1, <5>1, <5>2
      <4> QED
        BY <1>1, <4>1
    <3>3. CASE k > i
      <4>1. k - 1 \in 1..Len(q) /\ q[k - 1] = Payment /\ Up(k - 1) = k
        BY <1>1, <1>2, <3>1, <3>3
      <4> QED
        BY <1>1, <4>1
    <3> QED
      BY <1>1, <3>1, <3>2, <3>3
  <2> HIDE DEF Up, P, Q
  <2> QED
    BY <2>1, <2>2, <2>3 DEF Bijection, Injection, Surjection, IsInjective
<1>6. IsFiniteSet(P)
  <2>1. P \subseteq 1..Len(q) /\ IsFiniteSet(1..Len(q))
    BY <1>1, FS_Interval
  <2> QED
    BY <2>1, FS_Subset
<1>7. Cardinality(Q) = Cardinality(P)
  BY <1>5, <1>6, FS_Bijection DEF ExistsBijection
<1> QED
  BY <1>1, <1>3, <1>7 DEF Payments, q, p

(* Embedding a commitment keeps a transaction's payments and the           *)
(* commitments it carries (opreturn.rs: the output is inserted, not        *)
(* overwritten; tapret.rs: the taproot output's key alone is tweaked).     *)
THEOREM EmbeddingKeepsCommitments == Spec => EmbeddingKeepsTx
<1> DEFINE Kept ==
      tx' # Unanchored =>
        /\ Payments(tx') = Payments(tx)
        /\ \A d \in Deploys : Commits(tx, d) => Commits(tx', d)
<1>1. TypeOK /\ WitnessInv /\ [Next]_vars => WitnessInv'
  BY NextWitnessInv
<1>2. ASSUME TypeOK, WitnessInv, WitnessInv', [Next]_vars
      PROVE  [Kept]_tx
  <2>1. results \subseteq Nat \ {0}
    BY <1>2 DEF TypeOK
  <2>2. tx \in Transactions /\ tx' \in Transactions
    BY <1>2 DEF WitnessInv
  <2>3. ASSUME NEW d \in results, NEW i \in 1..MaxOutputs, EmbedOpReturn(d, i)
        PROVE  Kept
    <3>1. /\ i \in Nat \ {0} /\ i <= Len(tx.outputs) + 1
          /\ tx'.outputs = OutputInserted(tx.outputs, i, d)
          /\ tx'.tapret = tx.tapret
      BY <2>2, <2>3, BoundAssumption DEF EmbedOpReturn, Transactions
    <3>2. /\ Payments(tx') = Payments(tx)
          /\ \A j \in DOMAIN tx.outputs :
               \E k \in DOMAIN tx'.outputs : tx'.outputs[k] = tx.outputs[j]
      BY <2>1, <2>2, <2>3, <3>1, InsertionKeepsPayments
    <3> QED
      BY <3>1, <3>2 DEF Commits
  <2>4. ASSUME NEW d \in results, EmbedTapret(d) PROVE Kept
    <3>1. tx.tapret = 0 /\ tx'.outputs = tx.outputs
      BY <2>2, <2>4 DEF EmbedTapret, Transactions
    <3> QED
      BY <3>1 DEF Commits, Payments, Deploys
  <2> QED
    BY <1>2, <2>3, <2>4
       DEF Next, Call, Include, Finalize, Return, Fail, StartTx, AddAnchor, RemoveAnchor,
           Receive, Pack, Decode, Accept, wallet, vars
<1>3. TypeOK /\ WitnessInv /\ WitnessInv' /\ [Next]_vars => [Kept]_tx
  BY <1>2
<1> QED
  BY <1>1, <1>3, ConsignmentTypeOK, WitnessInvAlways, PTL DEF Spec, EmbeddingKeepsTx
=============================================================================
