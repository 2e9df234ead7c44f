------------------------------ MODULE Queries ------------------------------
(***************************************************************************)
(* Reading a contract: F1r3flyExecutor::query_state and                    *)
(* query_by_registry_uri (src/src/executor.rs), and the contract handle's  *)
(* balance and owner_of (src/src/contract.rs).                             *)
(*                                                                         *)
(* A query is an exploratory deploy that the node evaluates on its last    *)
(* finalized state; the reply comes back over HTTP as Rholang expressions  *)
(* wrapped in their types.  A reply, a JSON value and a result are records *)
(* whose type says which kind they are.                                    *)
(*                                                                         *)
(* The module has no behaviours of its own: Payment moves the shard.       *)
(***************************************************************************)
EXTENDS Integers

CONSTANTS
  Seals,     \* UTXO identifiers, witness ids included
  ReadSeals, \* those that are read
  Keys,      \* public keys, as the contract stores them
  NoOwner    \* the empty string, which stands for no owner

ASSUME OwnerAssumption == NoOwner \notin Keys /\ ReadSeals \subseteq Seals

VARIABLES
  final,   \* the finalized state: registered, balances, owners
  known,   \* the reader's executor has the contract's metadata
  query,   \* the query whose reply is awaited
  result   \* what the last query returned

queryVars == <<known, query, result>>

(* The four ways to read; totalSupply is listed in contract_library.rs:28  *)
(* and is no method of the template.                                       *)
Query ==
  [call : {"balance"}, method : {"balanceOf"}, seal : ReadSeals]
    \cup [call : {"owner_of"}, method : {"ownerOf"}, seal : ReadSeals]
    \cup [call : {"query_state", "query_by_registry_uri"},
          method : {"getMetadata", "totalSupply"}, seal : ReadSeals]

----------------------------------------------------------------------------
Failed == [type |-> "failed"]    \* no answer, an HTTP error, or no expr array
NoExpr == [type |-> "none"]      \* an empty expr array
Nil == [type |-> "ExprNil"]
Metadata == [type |-> "ExprMap"]
IntExpr(n) == [type |-> "ExprInt", data |-> n]
StringExpr(s) == [type |-> "ExprString", data |-> s]
Tuple(e) == [type |-> "ExprTuple", first |-> e]

NoQuery == [call |-> "none"]

Methods == {"balanceOf", "ownerOf", "getMetadata"}

(* What the contract sends on ret. *)
Answer(q, state) ==
  CASE q.method = "balanceOf" -> IntExpr(state.balances[q.seal])
    [] q.method = "ownerOf" -> StringExpr(state.owners[q.seal])
    [] OTHER -> Metadata

(* The node's reply: the answer alone or in a tuple with a continuation.   *)
(* Without a contract at the URI, or a method of that name, `return` stays *)
(* empty or the node says Nil.                                             *)
Replies(q, state) ==
  IF state.registered /\ q.method \in Methods
  THEN {Answer(q, state), Tuple(Answer(q, state))}
  ELSE {NoExpr, Nil}

----------------------------------------------------------------------------
Error == [type |-> "error"]
Object == [type |-> "object"]
Number(n) == [type |-> "number", data |-> n]
String(s) == [type |-> "string", data |-> s]

(* convert_rholang_to_json, of the node's client library: a tuple stays    *)
(* wrapped.                                                                *)
Json(e) ==
  CASE e.type = "ExprInt" -> Number(e.data)
    [] e.type = "ExprString" -> String(e.data)
    [] OTHER -> Object

\* Mutant: an empty expr array is an empty object, as in query_by_registry_uri.
ParsedLeniently(r) ==
  CASE r.type \in {"failed", "ExprNil"} -> Error
    [] r.type = "none" -> Object
    [] r.type = "ExprTuple" -> Json(r.first)
    [] OTHER -> Json(r)

(* parse_rholang_result *)
Parsed(r) ==
  CASE r.type \in {"failed", "none", "ExprNil"} -> Error
    [] r.type = "ExprTuple" -> Json(r.first)
    [] OTHER -> Json(r)

(* query_by_registry_uri returns the first expression as it came, and an   *)
(* empty object where there is none.                                       *)
Unparsed(r) ==
  CASE r.type = "failed" -> Error
    [] r.type = "none" -> Object
    [] OTHER -> r

(* as_u64, or as_i64 when it is not negative *)
Balance(v) == IF v.type = "number" /\ v.data >= 0 THEN v ELSE Error

(* A value that is no string counts as no owner. *)
Owner(v) ==
  CASE v.type \in {"string", "error"} -> v
    [] OTHER -> String(NoOwner)

Result(q, r) ==
  CASE q.call = "balance" -> Balance(Parsed(r))
    [] q.call = "owner_of" -> Owner(Parsed(r))
    [] q.call = "query_state" -> Parsed(r)
    [] OTHER -> Unparsed(r)

----------------------------------------------------------------------------
(* The executor looks the contract up in its cache, ContractNotFound if it *)
(* is not there; by URI it needs no cache.                                 *)
Ask(q) ==
  /\ query = NoQuery
  /\ known \/ q.call = "query_by_registry_uri"
  /\ query' = q /\ result' = Error
  /\ UNCHANGED known

Answered(reply) ==
  /\ query # NoQuery
  /\ query' = NoQuery /\ result' = Result(query, reply)
  /\ UNCHANGED known

NodeReplies == query # NoQuery /\ \E reply \in Replies(query, final) : Answered(reply)

NodeFails == Answered(Failed)

(* register_contract, from the metadata a consignment brings. *)
Register ==
  /\ ~known
  /\ known' = TRUE
  /\ UNCHANGED <<query, result>>

----------------------------------------------------------------------------
(* What a reader is told is true of the finalized state: a balance is the  *)
(* seal's, an owner its owner, no owner means it has none.  A contract     *)
(* that is not there, a method it lacks or a node that cannot be reached   *)
(* is an error and never a zero balance or an unowned seal                 *)
(* (executor.rs:1195-1265, contract.rs:306-388).                           *)
AnswersTrue ==
  [][query # NoQuery /\ query' = NoQuery /\ result' # Error =>
       /\ query.call = "balance" =>
            final.registered /\ result' = Number(final.balances[query.seal])
       /\ query.call = "owner_of" =>
            final.registered /\ result' = String(final.owners[query.seal])]_<<query, result>>
=============================================================================
