----------------------------- MODULE Deployment -----------------------------
(***************************************************************************)
(* Deploying and upgrading contracts: F1r3flyExecutor::deploy_contract     *)
(* (src/src/executor.rs), the clones of the executor a contract collection *)
(* hands out (src/src/contracts.rs) and the registration logic of the      *)
(* contract on the shard (rho20_contract.rho:33-48).                       *)
(*                                                                         *)
(* A derivation index determines the child key, hence the registry URI and *)
(* the ContractId, so an index stands for all four.  A version is the      *)
(* clock's reading substituted for {{VERSION}}.  A caller may give up on a *)
(* deploy (timeout, lost connection) that the shard evaluates afterwards.  *)
(* A deploy may also end in an error on the shard (its phlo used up, the   *)
(* supply no Int of Rholang, the abort after a failed registration): its   *)
(* block is finalized all the same, with nothing of it done.               *)
(* The process may end at any time; a new one restores what the wallet     *)
(* saved last, while deploys of the old one may still be in flight.        *)
(***************************************************************************)
EXTENDS Integers, FiniteSets

CONSTANTS
  Shared,        \* the executor of the collection
  Clones,        \* the executors of its contracts
  CloneDeploys,  \* clients also deploy through contract.executor_mut()
  ClockFalls,    \* the clock may be set back
  MaxIndex,      \* bound: derivation indices explored
  MaxClock,      \* bound: clock readings explored
  MaxDeploys,    \* bound: deploys the node is sent
  MaxErred       \* bound: deploys that end in an error

ASSUME CloneAssumption == Shared \notin Clones /\ CloneDeploys \in BOOLEAN
ASSUME ClockAssumption == ClockFalls \in BOOLEAN
ASSUME BoundAssumption == MaxIndex \in Nat /\ MaxClock \in Nat \ {0} /\ MaxDeploys \in Nat
                          /\ MaxErred \in Nat

Executors == {Shared} \cup Clones
Indices == 0..MaxIndex
Versions == 1..MaxClock
None == 0    \* no version: the registry lookup is Nil, the cache has no entry

Deploy == [by : Executors, index : Indices, version : Versions, auto : BOOLEAN]

VARIABLES
  index,       \* derivation_index of each executor
  autoDerive,
  cached,      \* contracts: the version each executor knows at each index
  alive,       \* executors created so far
  phase,       \* where each executor's deploy_contract is
  current,     \* the deploy it is about
  inFlight,    \* deploys the node holds and has not evaluated
  evaluated,   \* deploys in a finalized block
  erred,       \* those of them that ended in an error
  registry,    \* version registered at each URI
  clock,
  kept,        \* contracts this process got from deploy_contract or the save
  saved,       \* what the wallet saved of all this
  installed    \* history: deploys that initialised and registered a contract

executorVars == <<index, autoDerive, cached, alive>>
callVars == <<phase, current>>
walletVars == <<kept, saved>>
shardVars == <<inFlight, evaluated, erred, registry, installed>>
vars == <<executorVars, callVars, walletVars, shardVars, clock>>

NoDeploy == [by |-> Shared, index |-> 0, version |-> 1, auto |-> FALSE]

(* What a wallet reads from the executor and the collection to save it:    *)
(* derivation_index, contracts_metadata, and the contracts listed.         *)
Image ==
  [index |-> index[Shared], contracts |-> cached[Shared], listed |-> alive,
   kept |-> kept]

Init ==
  /\ index = [e \in Executors |-> 0]
  /\ autoDerive = [e \in Executors |-> TRUE]
  /\ cached = [e \in Executors |-> [i \in Indices |-> None]]
  /\ alive = {Shared}
  /\ phase = [e \in Executors |-> "idle"]
  /\ current = [e \in Executors |-> NoDeploy]
  /\ inFlight = {} /\ evaluated = {} /\ erred = {} /\ installed = {}
  /\ registry = [i \in Indices |-> None]
  /\ clock = 1
  /\ kept = {}
  /\ saved = Image

May(e) == e \in alive /\ (e = Shared \/ CloneDeploys)

SetAutoDerive(e) ==
  /\ May(e) /\ phase[e] = "idle"
  /\ autoDerive' = [autoDerive EXCEPT ![e] = ~@]
  /\ UNCHANGED <<index, cached, alive, callVars, shardVars, clock, walletVars>>

\* Mutant: auto_derive moves no index.
SameIndex(e) == index[e]
\* The index after deriving the child key, before anything is sent.
NextIndex(e) == IF autoDerive[e] THEN index[e] + 1 ELSE index[e]

(* Derive the child key, move the index on, substitute key and timestamp. *)
BeginDeploy(e) ==
  /\ May(e) /\ phase[e] = "idle"
  /\ NextIndex(e) <= MaxIndex
  /\ Cardinality(inFlight \cup evaluated) < MaxDeploys
  /\ current' = [current EXCEPT ![e] =
       [by |-> e, index |-> index[e], version |-> clock, auto |-> autoDerive[e]]]
  /\ index' = [index EXCEPT ![e] = NextIndex(e)]
  /\ phase' = [phase EXCEPT ![e] = "sending"]
  /\ UNCHANGED <<autoDerive, cached, alive, shardVars, clock, walletVars>>

(* deploy_with_timestamp: the node has the deploy. *)
Send(e) ==
  /\ phase[e] = "sending"
  /\ phase' = [phase EXCEPT ![e] = "waiting"]
  /\ inFlight' = inFlight \cup {current[e]}
  /\ UNCHANGED <<executorVars, current, evaluated, erred, registry, installed, clock, walletVars>>

End(e) ==
  /\ phase' = [phase EXCEPT ![e] = "idle"]
  /\ current' = [current EXCEPT ![e] = NoDeploy]

(* DeploymentFailed: the deploy could not be sent, was not seen in a block *)
(* within the attempts, or its block not finalized.  What was sent stays   *)
(* in flight.                                                              *)
Fail(e) ==
  /\ phase[e] \in {"sending", "waiting"}
  /\ End(e)
  /\ UNCHANGED <<executorVars, shardVars, clock, walletVars>>

\* Mutant: only the branch for a new URI is there.
InitialisesNew(d) == registry[d.index] = None
\* The two branches on prevEnvCh that call initEnv.
Initialises(d) == registry[d.index] = None \/ registry[d.index] < d.version

(* The shard evaluates the contract's source, or fails to (ok is FALSE),   *)
(* and finalizes the block either way.                                     *)
Evaluate(d, ok) ==
  /\ ok \/ Cardinality(erred) < MaxErred
  /\ inFlight' = inFlight \ {d}
  /\ evaluated' = evaluated \cup {d}
  /\ erred' = IF ok THEN erred ELSE erred \cup {d}
  /\ IF ok /\ Initialises(d)
     THEN /\ registry' = [registry EXCEPT ![d.index] = d.version]
          /\ installed' = installed \cup {d}
     ELSE UNCHANGED <<registry, installed>>
  /\ UNCHANGED <<executorVars, callVars, clock, walletVars>>

\* Mutant: the metadata is cached without waiting for the block.
WithoutWaiting(e) == phase[e] = "waiting"
\* In a finalized block: nobody asks how the deploy ended there.
Landed(e) == phase[e] = "waiting" /\ current[e] \in evaluated

CacheAfter(e) == [cached[e] EXCEPT ![current[e].index] = current[e].version]

Return(e) ==
  /\ Landed(e)
  /\ End(e)
  /\ kept' = kept \cup {current[e]}
  /\ UNCHANGED <<shardVars, clock, saved>>

(* deploy_contract caches the contract's metadata and returns its id. *)
Confirm(e) ==
  /\ Return(e)
  /\ cached' = [cached EXCEPT ![e] = CacheAfter(e)]
  /\ UNCHANGED <<index, autoDerive, alive>>

(* F1r3flyRgbContracts::issue: k is the new contract's clone of the shared *)
(* executor, its index and cache as they are now.                          *)
ConfirmIssue(k) ==
  /\ k \notin alive
  /\ Return(Shared)
  /\ cached' = [cached EXCEPT ![Shared] = CacheAfter(Shared), ![k] = CacheAfter(Shared)]
  /\ index' = [index EXCEPT ![k] = index[Shared]]
  /\ autoDerive' = [autoDerive EXCEPT ![k] = autoDerive[Shared]]
  /\ alive' = alive \cup {k}

\* Utc::now() only moves forward unless the clock of the machine is set back.
ClockMoves == \E t \in Versions : (t > clock \/ ClockFalls) /\ clock' = t

Tick ==
  /\ ClockMoves
  /\ UNCHANGED <<executorVars, callVars, shardVars, walletVars>>

(* No call borrows the executor meanwhile. *)
Save ==
  /\ phase[Shared] = "idle"
  /\ saved # Image
  /\ saved' = Image
  /\ UNCHANGED <<executorVars, callVars, shardVars, clock, kept>>

\* Mutant: the new executor starts at index 0 again.
FreshIndex == 0
RestoredIndex == saved.index

(* The process ends, whatever it was doing.  A new one makes an executor,  *)
(* set_derivation_index, register_contract for all metadata, and loads the *)
(* contracts with clones of it.  It takes longer than the clock's tick.    *)
Restart ==
  /\ ClockMoves
  /\ index' = [e \in Executors |-> IF e \in saved.listed THEN RestoredIndex ELSE 0]
  /\ autoDerive' = [e \in Executors |-> TRUE]
  /\ cached' = [e \in Executors |->
       IF e \in saved.listed THEN saved.contracts ELSE [i \in Indices |-> None]]
  /\ alive' = saved.listed
  /\ phase' = [e \in Executors |-> "idle"]
  /\ current' = [e \in Executors |-> NoDeploy]
  /\ kept' = saved.kept
  /\ UNCHANGED <<shardVars, saved>>

Progress(e) == Send(e) \/ Fail(e) \/ Confirm(e)

Next ==
  \/ \E e \in Executors : SetAutoDerive(e) \/ BeginDeploy(e) \/ Progress(e)
  \/ \E k \in Clones : ConfirmIssue(k)
  \/ \E d \in inFlight, ok \in BOOLEAN : Evaluate(d, ok)
  \/ Tick \/ Save \/ Restart

Spec == Init /\ [][Next]_vars

----------------------------------------------------------------------------
TypeOK ==
  /\ index \in [Executors -> Indices]
  /\ autoDerive \in [Executors -> BOOLEAN]
  /\ cached \in [Executors -> [Indices -> Versions \cup {None}]]
  /\ alive \subseteq Executors
  /\ phase \in [Executors -> {"idle", "sending", "waiting"}]
  /\ current \in [Executors -> Deploy]
  /\ inFlight \subseteq Deploy /\ evaluated \subseteq Deploy
  /\ erred \subseteq Deploy /\ installed \subseteq Deploy
  /\ registry \in [Indices -> Versions \cup {None}]
  /\ clock \in Versions
  /\ kept \subseteq Deploy
  /\ saved \in [index : Indices, contracts : [Indices -> Versions \cup {None}],
               listed : SUBSET Executors, kept : SUBSET Deploy]

\* What a cache holds at i is at its URI, in that version or a later one.
Registered(cache, i) == cache[i] <= registry[i]
\* What is cached is a deploy that ended in an error.
ErredAs(cache, i) == \E d \in erred : d.index = i /\ d.version = cache[i]

(* A contract an executor knows, now or after a restart, is registered, in *)
(* its version or a later one, unless the deploy that put it in the cache  *)
(* ended in an error on the shard: failed, timed out, late and restored    *)
(* deploys leave no entry that call_method could not look up               *)
(* (executor.rs:486, 526).                                                 *)
KnownIsRegistered ==
  \A i \in Indices :
    /\ \A e \in Executors : Registered(cached[e], i) \/ ErredAs(cached[e], i)
    /\ Registered(saved.contracts, i) \/ ErredAs(saved.contracts, i)

(* call_method "uses rho:registry:lookup to find the persistent contract"  *)
(* and takes a contract for deployed when it is in the cache               *)
(* (executor.rs:512, 526), "4. Caches the contract metadata for future     *)
(* method calls" (executor.rs:359): what is cached is registered.          *)
CachedIsRegistered ==
  \A e \in Executors, i \in Indices : Registered(cached[e], i)

(* "Each deploy_contract() increments derivation_index, producing unique   *)
(* child keys and unique registry URIs" (executor.rs:116-117), for the     *)
(* contracts a process knows, from its own calls or from the save it was   *)
(* restored from: no two deployed with auto_derive share an id.            *)
ContractsDistinct ==
  \A c, d \in kept : c.auto /\ d.auto /\ c.index = d.index => c = d

(* What is at the URI of a contract that was installed by a deploy with    *)
(* auto_derive, and that the present process knows, is that contract; once *)
(* it was saved, this holds in every later process.  No deploy initialises *)
(* it anew, which would empty its ledger (rho20_contract.rho:48): none     *)
(* that failed for its caller and is evaluated late, and none that an      *)
(* earlier process lost in a crash.  A contract that returned after the    *)
(* last save, and was forgotten in a crash, is not protected: the restored *)
(* index is given to the next deploy.                                      *)
ContractsUntouched ==
  \A c \in kept : c.auto /\ c \in installed => registry[c.index] = c.version

(* "v1_id == v2_id (upgraded at same URI)" (executor.rs:228): a deploy     *)
(* that deploy_contract is about to report as Ok, and that did not end in  *)
(* an error, is what is at its URI, whatever was deployed there before it  *)
(* and lands late.                                                         *)
UpgradeInstalled ==
  \A e \in Executors :
    Landed(e) /\ current[e] \notin erred
      => registry[current[e].index] = current[e].version
=============================================================================
