---------------------------- MODULE Consignment ----------------------------
(***************************************************************************)
(* A transfer from the sender's call to the recipient's verdict: the       *)
(* contract handle (contract.rs) calls a method through the executor and   *)
(* tracks its seals, the wallet commits the state hash in a Bitcoin        *)
(* transaction (opreturn.rs, tapret.rs), stores the anchor and packs a     *)
(* consignment, which the recipient validates (consignment.rs).            *)
(*                                                                         *)
(* A call's opid is the hash of its contract, method and parameters, so a  *)
(* call repeated with the same parameters has the opid of the first one;   *)
(* its deploy, and with it the state hash, is another.  A state hash is    *)
(* therefore named by the deploy it belongs to.  The contract accepts a    *)
(* call or refuses it, a repeated one by its nonce once it was accepted;   *)
(* nothing here asks which, as no one reads the channel `ret`.             *)
(*                                                                         *)
(* A consignment names a block, a state hash, an anchor, a transaction and *)
(* seals.  What `new` packs takes the first two from one result; what a    *)
(* recipient decodes may combine any, and validation meets both.           *)
(***************************************************************************)
EXTENDS Integers, FiniteSets, Sequences, SequencesExt

CONSTANTS
  Ops,              \* opids, one for each contract, method and parameters
  MayRefuse,        \* the opids whose calls the contract may refuse
  NoTx,             \* a consignment without a witness transaction
  MaxDeploys,       \* bound: the deploys the sender makes
  MaxOutputs,       \* bound: the outputs of a transaction
  MaxConsignments   \* bound: the consignments the sender packs

ASSUME OpsAssumption == Ops # {} /\ MayRefuse \subseteq Ops
ASSUME BoundAssumption ==
  MaxDeploys \in Nat \ {0} /\ MaxOutputs \in Nat /\ MaxConsignments \in Nat

VARIABLES
  deploys,    \* the deploys sent, in order: the opid, the block that holds
              \* it (0 for none), and whether the contract accepted the call
  height,     \* the blocks the shard made
  final,      \* those finalized, the first ones
  waiting,    \* the deploy the handle awaits, 0 for none
  results,    \* the deploys whose result a call returned
  seals,      \* the opids the tracker holds seals for
  anchors,    \* the tracker's anchor of each opid
  tx,         \* the Bitcoin transaction the wallet is building
  sent,       \* the consignments packed or decoded
  accepted    \* those the recipient validated

chain == <<height, final>>
wallet == <<anchors, tx, sent, accepted>>
calls == <<deploys, chain, waiting, results, seals>>
vars == <<calls, wallet>>

Deploys == 1..MaxDeploys
Kinds == {"tapret", "opreturn"}   \* an anchor with and without a dbc_proof

(***************************************************************************)
(* A transaction: its outputs in order, an OP_RETURN one with the state    *)
(* hash it holds, and the state hash its taproot output commits to, 0 for  *)
(* none.                                                                   *)
(***************************************************************************)
Payment == [opreturn |-> 0]
OpReturn(d) == [opreturn |-> d]
Unanchored == [outputs |-> <<Payment>>, tapret |-> 0]

Finalized(d) == d \in 1..Len(deploys) /\ deploys[d].block \in 1..final

Init ==
  /\ deploys = <<>>
  /\ height = 0
  /\ final = 0
  /\ waiting = 0
  /\ results = {}
  /\ seals = {}
  /\ anchors = [o \in Ops |-> "none"]
  /\ tx = Unanchored
  /\ sent = {}
  /\ accepted = {}

----------------------------------------------------------------------------
(* F1r3flyRgbContract::call_method: the deploy is sent and awaited. *)
Call(o) ==
  /\ waiting = 0
  /\ Len(deploys) < MaxDeploys
  /\ deploys' = Append(deploys, [op |-> o, block |-> 0, accepted |-> FALSE])
  /\ waiting' = Len(deploys) + 1
  /\ UNCHANGED <<chain, results, seals, wallet>>

Made(o) == \E d \in 1..Len(deploys) : deploys[d].op = o /\ deploys[d].accepted

(* The shard evaluates a deploy in a block, the last one or a new one ... *)
Include(d, b, ok) ==
  /\ deploys[d].block = 0
  /\ b \in {height, height + 1} /\ b > final
  /\ ok \in IF Made(deploys[d].op) THEN {FALSE}
            ELSE IF deploys[d].op \in MayRefuse THEN BOOLEAN ELSE {TRUE}
  /\ deploys' = [deploys EXCEPT ![d].block = b, ![d].accepted = ok]
  /\ height' = b
  /\ UNCHANGED <<final, waiting, results, seals, wallet>>

(* ... and finalizes its blocks in order, in its own time, whether or not  *)
(* anyone still waits.                                                     *)
Finalize ==
  /\ final < height
  /\ final' = final + 1
  /\ UNCHANGED <<deploys, height, waiting, results, seals, wallet>>

\* Mutant: inclusion in a block is enough.
IsIncluded(d) == deploys[d].block # 0

Answerable(d) == Finalized(d)

(* deploy_and_wait saw the block finalized: the seals are tracked under the *)
(* opid and the result is returned.                                         *)
Return ==
  /\ waiting # 0
  /\ Answerable(waiting)
  /\ seals' = seals \cup {deploys[waiting].op}
  /\ results' = results \cup {waiting}
  /\ waiting' = 0
  /\ UNCHANGED <<deploys, chain, wallet>>

(* Sending failed on the way back, or 60 or 20 attempts were not enough:  *)
(* DeploymentFailed, and nothing is tracked.  The deploy may still land.  *)
Fail ==
  /\ waiting # 0
  /\ waiting' = 0
  /\ UNCHANGED <<deploys, chain, results, seals, wallet>>

----------------------------------------------------------------------------
(* The wallet starts a transaction, the first one or a replacement. *)
StartTx ==
  /\ tx # Unanchored
  /\ tx' = Unanchored
  /\ UNCHANGED <<calls, anchors, sent, accepted>>

\* Mutant: the output at the index is replaced.
OutputReplaced(outputs, i, d) ==
  IF i <= Len(outputs) THEN [outputs EXCEPT ![i] = OpReturn(d)]
  ELSE Append(outputs, OpReturn(d))

(* Vec::insert: the output at the index and those behind it move up. *)
OutputInserted(outputs, i, d) == InsertAt(outputs, i, OpReturn(d))

(* embed_opreturn_commitment; i counts from 1. *)
EmbedOpReturn(d, i) ==
  /\ Len(tx.outputs) < MaxOutputs
  /\ i <= Len(tx.outputs) + 1
  /\ tx' = [tx EXCEPT !.outputs = OutputInserted(@, i, d)]
  /\ UNCHANGED <<calls, anchors, sent, accepted>>

(* embed_tapret_commitment, in an output that holds no commitment yet. *)
EmbedTapret(d) ==
  /\ tx.tapret = 0
  /\ tx' = [tx EXCEPT !.tapret = d]
  /\ UNCHANGED <<calls, anchors, sent, accepted>>

(* add_anchor with create_anchor's or create_opreturn_anchor's result: one *)
(* slot per opid, the latest anchor wins.                                  *)
AddAnchor(o, kind) ==
  /\ anchors[o] # kind
  /\ anchors' = [anchors EXCEPT ![o] = kind]
  /\ UNCHANGED <<calls, tx, sent, accepted>>

(* remove_anchor, when the transaction is replaced. *)
RemoveAnchor(o) ==
  /\ anchors[o] # "none"
  /\ anchors' = [anchors EXCEPT ![o] = "none"]
  /\ UNCHANGED <<calls, tx, sent, accepted>>

----------------------------------------------------------------------------
(* The anchor of the opid, or the placeholder, which has no proof. *)
AnchorOf(d, genesis) == IF genesis THEN "opreturn" ELSE anchors[deploys[d].op]

(* extract_seal: whatever the invoice, the first output of the transaction. *)
InvoiceSeal == 1

Receive(c) ==
  /\ Cardinality(sent) < MaxConsignments
  /\ sent' = sent \cup {c}
  /\ UNCHANGED <<calls, anchors, tx, accepted>>

(* F1r3flyConsignment::new, from a result. *)
Pack(d, genesis, witness, vouts) ==
  /\ AnchorOf(d, genesis) # "none"
  /\ Receive([block |-> deploys[d].block, state |-> d,
              anchor |-> AnchorOf(d, genesis), witness |-> witness,
              seals |-> vouts, genesis |-> genesis])

(* F1r3flyConsignment::from_bytes: the fields are decoded one by one, each *)
(* from whatever result, anchor and transaction its packer had.            *)
Decode(b, d, kind, genesis, witness, vouts) ==
  /\ deploys[d].block # 0
  /\ Receive([block |-> b, state |-> d, anchor |-> kind, witness |-> witness,
              seals |-> vouts, genesis |-> genesis])

(* verify_tapret_proof_in_tx: the taproot output commits to the state hash. *)
TapretCommits(c) == c.witness.tapret = c.state

\* Mutant: an OP_RETURN output is found, its data not compared.
HoldsOpReturn(c) == c.witness.outputs[1].opreturn # 0

\* Mutant: the hash is looked for in every output.
AnyOutputCommits(c) ==
  \E i \in DOMAIN c.witness.outputs : c.witness.outputs[i].opreturn = c.state

(* extract_opreturn_commitment of output 0, compared with the state hash. *)
OpReturnCommits(c) == c.witness.outputs[1].opreturn = c.state

(* The anchor's proof, if it has one, or the OP_RETURN output. *)
CommitmentVerified(c) ==
  IF c.anchor = "tapret" THEN TapretCommits(c) ELSE OpReturnCommits(c)

\* Mutant: the node knows the block.
BlockKnown(b) == b \in 1..height

(* is_block_finalized, asked of the recipient's node; an error is a no. *)
BlockFinalized(b) == b \in 1..final

(* The block, and the commitment to the state hash: neither is compared    *)
(* with the other, and the deploy id is not read.                          *)
Valid(c) ==
  /\ BlockFinalized(c.block)
  /\ c.witness # NoTx
  /\ c.genesis \/ CommitmentVerified(c)
  /\ c.seals # {}

(* F1r3flyConsignment::validate by the recipient, whose answer is Ok. *)
Accept(c) ==
  /\ Valid(c)
  /\ accepted' = accepted \cup {c}
  /\ UNCHANGED <<calls, anchors, tx, sent>>

----------------------------------------------------------------------------
Next ==
  \/ \E o \in Ops : Call(o)
  \/ \E d \in 1..Len(deploys), b \in {height, height + 1}, ok \in BOOLEAN :
       Include(d, b, ok)
  \/ Finalize
  \/ Return
  \/ Fail
  \/ StartTx
  \/ \E d \in results, i \in 1..MaxOutputs : EmbedOpReturn(d, i)
  \/ \E d \in results : EmbedTapret(d)
  \/ \E d \in results, kind \in Kinds : AddAnchor(deploys[d].op, kind)
  \/ \E o \in Ops : RemoveAnchor(o)
  \/ \E d \in results, genesis \in BOOLEAN,
        witness \in {tx, NoTx}, vouts \in {{}, {InvoiceSeal}} :
       Pack(d, genesis, witness, vouts)
  \/ \E b \in 1..height, d \in 1..Len(deploys), kind \in Kinds,
        genesis \in BOOLEAN, witness \in {tx, NoTx}, vouts \in {{}, {InvoiceSeal}} :
       Decode(b, d, kind, genesis, witness, vouts)
  \/ \E c \in sent : Accept(c)

Spec == Init /\ [][Next]_vars

----------------------------------------------------------------------------
Commits(t, d) ==
  t.tapret = d \/ \E i \in DOMAIN t.outputs : t.outputs[i].opreturn = d

TypeOK ==
  /\ deploys \in Seq([op : Ops, block : Nat, accepted : BOOLEAN])
  /\ height \in Nat
  /\ final \in 0..height
  /\ waiting \in 0..Len(deploys)
  /\ results \subseteq 1..Len(deploys)
  /\ seals \subseteq Ops
  /\ anchors \in [Ops -> Kinds \cup {"none"}]

(* contract.rs:238-248: seals are tracked only for an operation one of     *)
(* whose deploys is final, and for every one whose result was returned,    *)
(* whichever deploys failed, were repeated or landed late.                 *)
SealsFollowFinality ==
  /\ \A o \in seals : \E d \in 1..Len(deploys) : deploys[d].op = o /\ Finalized(d)
  /\ \A d \in results : deploys[d].op \in seals

(* consignment.rs:236-333 with executor.rs:319-351: whatever the fields of *)
(* an accepted consignment were put together from, its block is final, and *)
(* for a transfer the transaction that came with it commits to the state   *)
(* hash and the deploy of that hash is final too.  Validation never asks   *)
(* for the last part: it holds because execute gives a state hash out only *)
(* after finality and the wallet embeds what execute gave it.              *)
AcceptedIsProven ==
  \A c \in accepted :
    /\ c.block \in 1..final
    /\ c.genesis \/ (Commits(c.witness, c.state) /\ Finalized(c.state))

(* Once a transaction has proved a state to a recipient by one kind of     *)
(* anchor, no consignment of another state that comes with the same        *)
(* transaction and anchor is valid, whichever block it names and however   *)
(* many hashes were embedded.                                              *)
OneStatePerTransaction ==
  \A c \in accepted, d \in 1..Len(deploys), b \in 1..height :
    ~c.genesis /\ d # c.state => ~Valid([c EXCEPT !.block = b, !.state = d])

Payments(t) == Cardinality({i \in DOMAIN t.outputs : t.outputs[i] = Payment})

(* Embedding a commitment in a transaction keeps its payments and the      *)
(* commitments it already carries.                                         *)
EmbeddingKeepsTx ==
  [][tx' # Unanchored =>
       /\ Payments(tx') = Payments(tx)
       /\ \A d \in Deploys : Commits(tx, d) => Commits(tx', d)]_tx

(* consignment.rs:213-216, "Verifies: ... 3. Seals are valid UTXOs": the   *)
(* seals of an accepted transfer are outputs of its transaction that can   *)
(* be spent.                                                               *)
SealsSpendable ==
  \A c \in accepted : ~c.genesis =>
    \A v \in c.seals : c.witness.outputs[v] = Payment

(* consignment.rs:213-215, "Verifies: 1. F1r3fly state proof is valid      *)
(* (query shard)": the state an accepted transfer brings is one in which   *)
(* the contract made the transfer.                                         *)
AcceptedTransferMade ==
  \A c \in accepted : ~c.genesis => Made(deploys[c.state].op)
=============================================================================
