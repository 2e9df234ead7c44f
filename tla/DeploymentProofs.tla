-------------------------- MODULE DeploymentProofs --------------------------
(***************************************************************************)
(* Theorems about Deployment for every set of clones and every bound on    *)
(* indices and clock readings.                                             *)
(***************************************************************************)
EXTENDS Deployment, TLAPS

(* A deploy's record has the fields of the type. *)
LEMMA DeployFields ==
  ASSUME NEW d \in Deploy
  PROVE  /\ d.by \in Executors /\ d.index \in Indices
         /\ d.version \in Versions /\ d.auto \in BOOLEAN
  BY DEF Deploy

LEMMA InitTypeOK == Init => TypeOK
  BY BoundAssumption
     DEF Init, TypeOK, Executors, Indices, Versions, None, Deploy, NoDeploy, Image

(* Return, and with it both ways deploy_contract ends well, keeps what a   *)
(* cache may hold: the version of the deploy that landed.                  *)
LEMMA CacheAfterType ==
  ASSUME TypeOK, NEW e \in Executors
  PROVE  /\ CacheAfter(e) \in [Indices -> Versions \cup {None}]
         /\ \A i \in Indices :
              CacheAfter(e)[i] = IF i = current[e].index THEN current[e].version
                                 ELSE cached[e][i]
  <1>1. current[e] \in Deploy /\ cached[e] \in [Indices -> Versions \cup {None}]
    BY DEF TypeOK
  <1>2. current[e].index \in Indices /\ current[e].version \in Versions
    BY <1>1, DeployFields
  <1> QED
    BY <1>1, <1>2 DEF CacheAfter

LEMMA NoDeployType == NoDeploy \in Deploy
  BY BoundAssumption DEF NoDeploy, Deploy, Executors, Indices, Versions

(* Every step of the executors, the wallet, the shard and the clock keeps  *)
(* the types.                                                              *)
LEMMA NextTypeOK == TypeOK /\ [Next]_vars => TypeOK'
<1> SUFFICES ASSUME TypeOK, [Next]_vars PROVE TypeOK'
  OBVIOUS
<1> USE DEF TypeOK
<1>1. ASSUME NEW e \in Executors, SetAutoDerive(e) PROVE TypeOK'
  BY <1>1 DEF SetAutoDerive, callVars, shardVars, walletVars
<1>2. ASSUME NEW e \in Executors, BeginDeploy(e) PROVE TypeOK'
  <2>1. NextIndex(e) \in Indices
    BY <1>2, BoundAssumption DEF BeginDeploy, NextIndex, Indices
  <2>2. [by |-> e, index |-> index[e], version |-> clock, auto |-> autoDerive[e]] \in Deploy
    BY DEF Deploy
  <2> QED
    BY <1>2, <2>1, <2>2 DEF BeginDeploy, shardVars, walletVars
<1>3. ASSUME NEW e \in Executors, Send(e) PROVE TypeOK'
  BY <1>3 DEF Send, executorVars, walletVars
<1>4. ASSUME NEW e \in Executors, Fail(e) PROVE TypeOK'
  BY <1>4, NoDeployType DEF Fail, End, executorVars, shardVars, walletVars
<1>5. ASSUME NEW e \in Executors, Confirm(e) PROVE TypeOK'
  BY <1>5, CacheAfterType, NoDeployType DEF Confirm, Return, End, shardVars
<1>6. ASSUME NEW k \in Clones, ConfirmIssue(k) PROVE TypeOK'
  <2>1. Shared \in Executors /\ k \in Executors
    BY DEF Executors
  <2>2. CacheAfter(Shared) \in [Indices -> Versions \cup {None}]
    BY <2>1, CacheAfterType
  <2> QED
    BY <1>6, <2>1, <2>2, NoDeployType DEF ConfirmIssue, Return, End, shardVars
<1>7. ASSUME NEW d \in inFlight, NEW ok \in BOOLEAN, Evaluate(d, ok) PROVE TypeOK'
  <2>1. d \in Deploy /\ d.index \in Indices /\ d.version \in Versions
    BY DeployFields
  <2>2. registry' \in [Indices -> Versions \cup {None}] /\ installed' \subseteq Deploy
    BY <1>7, <2>1 DEF Evaluate
  <2>3. inFlight' \subseteq Deploy /\ evaluated' \subseteq Deploy /\ erred' \subseteq Deploy
    BY <1>7, <2>1 DEF Evaluate
  <2> QED
    BY <1>7, <2>2, <2>3 DEF Evaluate, executorVars, callVars, walletVars
<1>8. ASSUME Tick PROVE TypeOK'
  BY <1>8 DEF Tick, ClockMoves, executorVars, callVars, shardVars, walletVars
<1>9. ASSUME Save PROVE TypeOK'
  <2>1. Shared \in Executors
    BY DEF Executors
  <2> QED
    BY <1>9, <2>1 DEF Save, Image, executorVars, callVars, shardVars
<1>10. ASSUME Restart PROVE TypeOK'
  <2>1. clock' \in Versions
    BY <1>10 DEF Restart, ClockMoves
  <2>2. /\ saved.index \in Indices /\ saved.listed \subseteq Executors
        /\ saved.contracts \in [Indices -> Versions \cup {None}]
        /\ saved.kept \subseteq Deploy
    OBVIOUS
  <2>3. index' \in [Executors -> Indices] /\ autoDerive' \in [Executors -> BOOLEAN]
    BY <1>10, <2>2, BoundAssumption DEF Restart, RestoredIndex, Indices
  <2>4. cached' \in [Executors -> [Indices -> Versions \cup {None}]]
    BY <1>10, <2>2 DEF Restart
  <2> QED
    BY <1>10, <2>1, <2>2, <2>3, <2>4, NoDeployType DEF Restart, shardVars
<1>11. ASSUME UNCHANGED vars PROVE TypeOK'
  BY <1>11 DEF vars, executorVars, callVars, walletVars, shardVars
<1> QED
  BY <1>1, <1>2, <1>3, <1>4, <1>5, <1>6, <1>7, <1>8, <1>9, <1>10, <1>11 DEF Next, Progress

(* Executors, calls, wallet, shard and clock keep their types in every behaviour. *)
THEOREM DeploymentTypeOK == Spec => []TypeOK
<1> QED
  BY InitTypeOK, NextTypeOK, PTL DEF Spec

----------------------------------------------------------------------------
(* The registry changes in one step only, and only upwards. *)
LEMMA RegistryGrows ==
  TypeOK /\ [Next]_vars => \A i \in Indices : registry'[i] >= registry[i]
<1> SUFFICES ASSUME TypeOK, [Next]_vars, NEW i \in Indices
             PROVE  registry'[i] >= registry[i]
  OBVIOUS
<1>1. registry \in [Indices -> Versions \cup {None}] /\ registry[i] \in Int
  BY DEF TypeOK, Versions, None
<1>2. ASSUME NEW d \in inFlight, NEW ok \in BOOLEAN, Evaluate(d, ok)
      PROVE  registry'[i] >= registry[i]
  <2>1. d.index \in Indices /\ d.version \in Versions
    BY DeployFields DEF TypeOK
  <2>2. \/ registry' = registry
        \/ Initialises(d) /\ registry' = [registry EXCEPT ![d.index] = d.version]
    BY <1>2 DEF Evaluate
  <2> QED
    BY <1>1, <2>1, <2>2 DEF Initialises, Versions, None
<1>3. ASSUME UNCHANGED registry PROVE registry'[i] >= registry[i]
  BY <1>1, <1>3
<1> QED
  BY <1>2, <1>3
     DEF Next, Progress, SetAutoDerive, BeginDeploy, Send, Fail, Confirm, ConfirmIssue,
         Return, Tick, Save, Restart, shardVars, vars

----------------------------------------------------------------------------
(* Beyond KnownIsRegistered: a deploy the shard did not refuse left its    *)
(* URI at its own version or a later one, whichever branch of the contract *)
(* it took.                                                                *)
Settled == (evaluated \ erred) \cup installed
SettledIsRegistered == \A d \in Settled : d.version <= registry[d.index]
RegistryInv == TypeOK /\ SettledIsRegistered /\ KnownIsRegistered

LEMMA InitRegistryInv == Init => RegistryInv
  BY InitTypeOK
     DEF Init, RegistryInv, SettledIsRegistered, Settled, KnownIsRegistered, Registered, None,
         Image, Executors

(* The deploy just evaluated is in its registry entry or a later one is;   *)
(* the others stay below an entry that only grows.                         *)
LEMMA NextSettled == RegistryInv /\ [Next]_vars => SettledIsRegistered'
<1> SUFFICES ASSUME RegistryInv, [Next]_vars PROVE SettledIsRegistered'
  OBVIOUS
<1>1. TypeOK /\ TypeOK' /\ SettledIsRegistered
  BY NextTypeOK DEF RegistryInv
<1>2. \A i \in Indices : registry[i] \in Int /\ registry'[i] \in Int
                         /\ registry'[i] >= registry[i]
  BY <1>1, RegistryGrows DEF TypeOK, Versions, None
<1>3. \A d \in Settled : d.index \in Indices /\ d.version \in Int
  BY <1>1, DeployFields DEF TypeOK, Versions, Settled
<1>4. \A c \in Settled : c.version <= registry'[c.index]
  BY <1>1, <1>2, <1>3 DEF SettledIsRegistered
<1>5. ASSUME NEW d \in inFlight, NEW ok \in BOOLEAN, Evaluate(d, ok)
      PROVE  SettledIsRegistered'
  <2>1. d.index \in Indices /\ d.version \in Int
    BY <1>1, DeployFields DEF TypeOK, Versions
  <2>2. ok => d.version <= registry'[d.index]
    BY <1>1, <1>2, <1>5, <2>1 DEF Evaluate, Initialises, TypeOK, None
  <2>3. \A c \in Settled' : c \in Settled \/ (c = d /\ ok)
    BY <1>5 DEF Evaluate, Settled
  <2> QED
    BY <1>4, <2>2, <2>3 DEF SettledIsRegistered
<1>6. ASSUME UNCHANGED <<evaluated, erred, installed, registry>> PROVE SettledIsRegistered'
  BY <1>1, <1>6 DEF SettledIsRegistered, Settled
<1> QED
  BY <1>5, <1>6
     DEF Next, Progress, SetAutoDerive, BeginDeploy, Send, Fail, Confirm, ConfirmIssue,
         Return, Tick, Save, Restart, shardVars, vars

(* What accounts for an entry of a cache goes on to do so. *)
Accounted(cache, i) == Registered(cache, i) \/ ErredAs(cache, i)

LEMMA AccountedStays ==
  ASSUME TypeOK, TypeOK', [Next]_vars,
         NEW cache \in [Indices -> Versions \cup {None}], NEW i \in Indices,
         Accounted(cache, i)
  PROVE  cache[i] <= registry'[i] \/ \E d \in erred' : d.index = i /\ d.version = cache[i]
<1>1. registry'[i] >= registry[i] /\ registry[i] \in Int /\ registry'[i] \in Int
  BY RegistryGrows DEF TypeOK, Versions, None
<1>2. cache[i] \in Int
  BY DEF Versions, None
<1>3. erred \subseteq erred'
  BY DEF Next, Progress, SetAutoDerive, BeginDeploy, Send, Fail, Confirm, ConfirmIssue,
         Return, Evaluate, Tick, Save, Restart, shardVars, vars
<1> QED
  BY <1>1, <1>2, <1>3 DEF Accounted, Registered, ErredAs

(* A cache takes a version only from a deploy that landed. *)
LEMMA NextKnown == RegistryInv /\ [Next]_vars => KnownIsRegistered'
<1> SUFFICES ASSUME RegistryInv, [Next]_vars PROVE KnownIsRegistered'
  OBVIOUS
<1>1. TypeOK /\ TypeOK' /\ SettledIsRegistered /\ KnownIsRegistered /\ Shared \in Executors
  BY NextTypeOK DEF RegistryInv, Executors
<1>2. /\ \A e \in Executors : cached[e] \in [Indices -> Versions \cup {None}]
      /\ saved.contracts \in [Indices -> Versions \cup {None}]
  BY <1>1 DEF TypeOK
<1>3. /\ \A e \in Executors, i \in Indices : Accounted(cached[e], i)
      /\ \A i \in Indices : Accounted(saved.contracts, i)
  BY <1>1 DEF KnownIsRegistered, Accounted
<1>4. ASSUME NEW e \in Executors, Landed(e), NEW i \in Indices
      PROVE  Accounted(CacheAfter(e), i)
  <2>1. current[e] \in evaluated
    BY <1>4 DEF Landed
  <2>2. \/ current[e] \in erred
        \/ current[e].version <= registry[current[e].index]
    BY <1>1, <2>1 DEF SettledIsRegistered, Settled
  <2>3. CASE i = current[e].index
    BY <1>1, <2>2, <2>3, CacheAfterType DEF Accounted, Registered, ErredAs
  <2>4. CASE i # current[e].index
    <3>1. CacheAfter(e)[i] = cached[e][i]
      BY <1>1, <2>4, CacheAfterType
    <3> QED
      BY <1>3, <3>1 DEF Accounted, Registered, ErredAs
  <2> QED
    BY <2>3, <2>4
<1>5. ASSUME \A e \in Executors, i \in Indices :
               \E cache \in [Indices -> Versions \cup {None}] :
                 cached'[e][i] = cache[i] /\ Accounted(cache, i),
             \A i \in Indices :
               \E cache \in [Indices -> Versions \cup {None}] :
                 saved'.contracts[i] = cache[i] /\ Accounted(cache, i)
      PROVE  KnownIsRegistered'
  <2>1. ASSUME NEW e \in Executors, NEW i \in Indices
        PROVE  (Registered(cached[e], i) \/ ErredAs(cached[e], i))'
    <3>1. PICK cache \in [Indices -> Versions \cup {None}] :
            cached'[e][i] = cache[i] /\ Accounted(cache, i)
      BY <1>5
    <3> QED
      BY <1>1, <3>1, AccountedStays DEF Registered, ErredAs
  <2>2. ASSUME NEW i \in Indices
        PROVE  (Registered(saved.contracts, i) \/ ErredAs(saved.contracts, i))'
    <3>1. PICK cache \in [Indices -> Versions \cup {None}] :
            saved'.contracts[i] = cache[i] /\ Accounted(cache, i)
      BY <1>5
    <3> QED
      BY <1>1, <3>1, AccountedStays DEF Registered, ErredAs
  <2> QED
    BY <2>1, <2>2 DEF KnownIsRegistered
<1>6. ASSUME NEW e \in Executors, Confirm(e) PROVE KnownIsRegistered'
  <2>1. cached' = [cached EXCEPT ![e] = CacheAfter(e)] /\ Landed(e) /\ saved' = saved
    BY <1>6 DEF Confirm, Return
  <2>2. CacheAfter(e) \in [Indices -> Versions \cup {None}]
    BY <1>1, CacheAfterType
  <2>3. \A x \in Executors : (cached'[x] = CacheAfter(e) /\ x = e) \/ cached'[x] = cached[x]
    BY <1>1, <2>1 DEF TypeOK
  <2> QED
    BY <1>2, <1>3, <1>4, <1>5, <2>1, <2>2, <2>3
<1>7. ASSUME NEW k \in Clones, ConfirmIssue(k) PROVE KnownIsRegistered'
  <2>1. /\ cached' = [cached EXCEPT ![Shared] = CacheAfter(Shared), ![k] = CacheAfter(Shared)]
        /\ Landed(Shared) /\ saved' = saved
    BY <1>7 DEF ConfirmIssue, Return
  <2>2. CacheAfter(Shared) \in [Indices -> Versions \cup {None}]
    BY <1>1, CacheAfterType
  <2>3. \A x \in Executors : cached'[x] = CacheAfter(Shared) \/ cached'[x] = cached[x]
    BY <1>1, <2>1 DEF TypeOK
  <2> QED
    BY <1>1, <1>2, <1>3, <1>4, <1>5, <2>1, <2>2, <2>3
<1>8. ASSUME Save PROVE KnownIsRegistered'
  <2>1. cached' = cached /\ saved'.contracts = cached[Shared]
    BY <1>8 DEF Save, Image, executorVars
  <2> QED
    BY <1>1, <1>2, <1>3, <1>5, <2>1
<1>9. ASSUME Restart PROVE KnownIsRegistered'
  <2>1. saved' = saved
    BY <1>9 DEF Restart
  <2>2. \A e \in Executors :
          cached'[e] = saved.contracts \/ cached'[e] = [i \in Indices |-> None]
    BY <1>9 DEF Restart
  <2>3. \A i \in Indices : Accounted([j \in Indices |-> None], i)
    BY <1>1 DEF TypeOK, Versions, None, Accounted, Registered
  <2>4. [i \in Indices |-> None] \in [Indices -> Versions \cup {None}]
    OBVIOUS
  <2> QED
    BY <1>2, <1>3, <1>5, <2>1, <2>2, <2>3, <2>4
<1>10. ASSUME UNCHANGED <<cached, saved>> PROVE KnownIsRegistered'
  BY <1>2, <1>3, <1>5, <1>10
<1> QED
  BY <1>6, <1>7, <1>8, <1>9, <1>10
     DEF Next, Progress, SetAutoDerive, BeginDeploy, Send, Fail, Evaluate, Tick,
         executorVars, walletVars, vars

(* executor.rs:526: a contract in some executor's cache, or in the save,   *)
(* is at its URI, in the version cached or a later one, unless the deploy  *)
(* it was cached for ended in an error.                                    *)
THEOREM CacheIsRegistered == Spec => []KnownIsRegistered
<1>1. RegistryInv /\ [Next]_vars => RegistryInv'
  BY NextTypeOK, NextSettled, NextKnown DEF RegistryInv
<1>2. RegistryInv => KnownIsRegistered
  BY DEF RegistryInv
<1> QED
  BY InitRegistryInv, <1>1, <1>2, PTL DEF Spec

----------------------------------------------------------------------------
(***************************************************************************)
(* Contracts kept, when only the collection's executor deploys.  The       *)
(* contracts a process knows lie below the index its call took, and below  *)
(* the index saved with them: this is about indices alone.  When the clock *)
(* does not fall, the call also carries the latest version there is, so    *)
(* what a lost process or a failed call left in flight at a contract's     *)
(* index is older than the contract.                                       *)
(***************************************************************************)
Autos == {c \in kept : c.auto}
Busy == phase[Shared] # "idle"

OnlySharedCalls == \A e \in Executors : phase[e] # "idle" => e = Shared
IndexAhead ==
  /\ \A c \in Autos : c.index < index[Shared]
  /\ Busy => /\ current[Shared].auto => current[Shared].index < index[Shared]
             /\ \A c \in Autos : c.index < current[Shared].index
SavedAhead ==
  /\ Shared \in alive /\ Shared \in saved.listed
  /\ saved.kept \subseteq kept
  /\ \A c \in saved.kept : c.auto => c.index < saved.index
IndexInv == OnlySharedCalls /\ IndexAhead /\ SavedAhead /\ ContractsDistinct

VersionsPast ==
  /\ \A d \in inFlight : d.version <= clock
  /\ \A i \in Indices : registry[i] <= clock
CallIsLatest ==
  Busy => /\ current[Shared].version <= clock
          /\ \A d \in inFlight : d.version <= current[Shared].version
          /\ \A i \in Indices : registry[i] <= current[Shared].version
LateIsOlder ==
  \A c \in Autos, d \in inFlight : d.index = c.index => d.version <= c.version

CallInv == VersionsPast /\ CallIsLatest
VersionInv == CallInv /\ LateIsOlder /\ ContractsUntouched

(* The steps that are left when no clone deploys. *)
LEMMA SharedSteps ==
  ASSUME CloneDeploys = FALSE, OnlySharedCalls, [Next]_vars
  PROVE  \/ SetAutoDerive(Shared) \/ BeginDeploy(Shared) \/ Send(Shared) \/ Fail(Shared)
         \/ Confirm(Shared) \/ \E k \in Clones : ConfirmIssue(k)
         \/ \E d \in inFlight, ok \in BOOLEAN : Evaluate(d, ok)
         \/ Tick \/ Save \/ Restart \/ UNCHANGED vars
<1>1. ASSUME NEW e \in Executors, SetAutoDerive(e) \/ BeginDeploy(e) \/ Progress(e)
      PROVE  e = Shared
  BY <1>1
     DEF SetAutoDerive, BeginDeploy, May, Progress, Send, Fail, Confirm, Return, Landed,
         OnlySharedCalls
<1> QED
  BY <1>1 DEF Next, Progress

(* What the comparisons below are about are integers. *)
LEMMA IntegerFields ==
  ASSUME TypeOK
  PROVE  /\ Shared \in Executors /\ current[Shared] \in Deploy
         /\ clock \in Int /\ index[Shared] \in Int /\ saved.index \in Int
         /\ \A i \in Indices : registry[i] \in Int
         /\ \A d \in inFlight \cup kept \cup saved.kept \cup {current[Shared]} :
              d \in Deploy /\ d.index \in Indices /\ d.index \in Int /\ d.version \in Int
<1>1. Shared \in Executors
  BY DEF Executors
<1>2. \A d \in Deploy : d.index \in Indices /\ d.index \in Int /\ d.version \in Int
  BY DEF Deploy, Indices, Versions
<1> QED
  BY <1>1, <1>2 DEF TypeOK, Indices, Versions, None

LEMMA InitCalls == Init => IndexInv /\ VersionInv
  BY BoundAssumption
     DEF Init, IndexInv, VersionInv, CallInv, OnlySharedCalls, VersionsPast, CallIsLatest,
         IndexAhead, SavedAhead, LateIsOlder, ContractsUntouched, ContractsDistinct, Autos, Busy, Image, None, Executors

(* A new call takes the shared index, above every contract of the process, *)
(* a deploy that returns becomes a contract at the index its call took,    *)
(* and a restart goes back to an index above every contract it brings      *)
(* back.                                                                   *)
LEMMA NextIndexInv ==
  ASSUME CloneDeploys = FALSE, TypeOK, IndexInv, [Next]_vars
  PROVE  IndexInv'
<1> USE DEF IndexInv, OnlySharedCalls, IndexAhead, SavedAhead, ContractsDistinct, Autos, Busy
<1>1. /\ Shared \in Executors /\ index[Shared] \in Int /\ index \in [Executors -> Indices]
      /\ current \in [Executors -> Deploy] /\ autoDerive \in [Executors -> BOOLEAN]
      /\ phase \in [Executors -> {"idle", "sending", "waiting"}]
      /\ \A c \in kept \cup saved.kept \cup {current[Shared]} :
           c.index \in Int /\ c.index \in Indices
  BY IntegerFields DEF TypeOK
<1>2. CASE SetAutoDerive(Shared)
  BY <1>2 DEF SetAutoDerive, callVars, walletVars
<1>3. CASE BeginDeploy(Shared)
  <2>1. /\ current'[Shared].index = index[Shared]
        /\ current'[Shared].auto = autoDerive[Shared]
        /\ index'[Shared] = IF autoDerive[Shared] THEN index[Shared] + 1 ELSE index[Shared]
        /\ \A e \in Executors : phase'[e] # "idle" => e = Shared
        /\ UNCHANGED <<kept, saved, alive>>
    BY <1>1, <1>3 DEF BeginDeploy, NextIndex, walletVars
  <2> QED
    BY <1>1, <2>1
<1>4. CASE Send(Shared)
  <2>1. /\ phase[Shared] # "idle" /\ \A e \in Executors : phase'[e] # "idle" => e = Shared
        /\ UNCHANGED <<current, index, kept, saved, alive>>
    BY <1>1, <1>4 DEF Send, executorVars, walletVars
  <2> QED
    BY <2>1
<1>5. CASE Fail(Shared)
  <2>1. /\ \A e \in Executors : phase'[e] = "idle"
        /\ UNCHANGED <<index, kept, saved, alive>>
    BY <1>1, <1>5 DEF Fail, End, executorVars, walletVars
  <2> QED
    BY <1>1, <2>1
<1>6. ASSUME Return(Shared), index'[Shared] = index[Shared], alive \subseteq alive'
      PROVE  IndexInv'
  <2> DEFINE d == current[Shared]
  <2>1. /\ \A e \in Executors : phase'[e] = "idle"
        /\ phase[Shared] # "idle"
        /\ kept' = kept \cup {d} /\ saved' = saved
    BY <1>1, <1>6 DEF Return, Landed, End
  <2>2. /\ \A c \in Autos : c.index < index[Shared] /\ c.index < d.index
        /\ d.auto => d.index < index[Shared]
    BY <2>1
  <2>3. d.index \in Int /\ \A c \in kept : c.index \in Int
    BY <1>1
  <2> HIDE DEF d
  <2>4. IndexAhead' /\ SavedAhead' /\ OnlySharedCalls'
    BY <1>1, <1>6, <2>1, <2>2, <2>3
  <2>5. ContractsDistinct'
    BY <2>1, <2>2, <2>3
  <2> QED
    BY <2>4, <2>5
<1>7. CASE Confirm(Shared)
  BY <1>6, <1>7 DEF Confirm
<1>8. ASSUME NEW k \in Clones, ConfirmIssue(k) PROVE IndexInv'
  <2>1. index'[Shared] = index[Shared] /\ alive \subseteq alive' /\ Return(Shared)
    BY <1>1, <1>8, CloneAssumption DEF ConfirmIssue
  <2> QED
    BY <1>6, <2>1
<1>9. ASSUME NEW d \in inFlight, NEW ok \in BOOLEAN, Evaluate(d, ok) PROVE IndexInv'
  BY <1>9 DEF Evaluate, executorVars, callVars, walletVars
<1>10. CASE Tick
  BY <1>10 DEF Tick, executorVars, callVars, walletVars
<1>11. CASE Save
  <2>1. /\ saved' = Image /\ phase[Shared] = "idle"
        /\ UNCHANGED <<index, alive, phase, current, kept>>
    BY <1>11 DEF Save, executorVars, callVars
  <2> QED
    BY <2>1 DEF Image
<1>12. CASE Restart
  <2>1. /\ index'[Shared] = saved.index /\ alive' = saved.listed
        /\ \A e \in Executors : phase'[e] = "idle"
        /\ kept' = saved.kept /\ saved' = saved
    BY <1>1, <1>12 DEF Restart, RestoredIndex
  <2> QED
    BY <1>1, <2>1
<1>13. CASE UNCHANGED vars
  BY <1>13 DEF vars, executorVars, callVars, walletVars
<1> QED
  BY SharedSteps, <1>2, <1>3, <1>4, <1>5, <1>7, <1>8, <1>9, <1>10, <1>11, <1>12, <1>13

----------------------------------------------------------------------------
(* The call takes the clock's reading, which nothing in flight or          *)
(* registered is past, and nothing else is sent until it ends.             *)
LEMMA NextCallInv ==
  ASSUME CloneDeploys = FALSE, ClockFalls = FALSE, TypeOK, OnlySharedCalls, CallInv,
         [Next]_vars
  PROVE  CallInv'
<1> USE DEF CallInv, OnlySharedCalls, VersionsPast, CallIsLatest, Busy
<1>1. /\ Shared \in Executors /\ phase \in [Executors -> {"idle", "sending", "waiting"}]
      /\ current \in [Executors -> Deploy] /\ registry \in [Indices -> Versions \cup {None}]
      /\ clock \in Int
      /\ \A i \in Indices : registry[i] \in Int
      /\ \A d \in inFlight \cup {current[Shared]} : d.index \in Indices /\ d.version \in Int
  BY IntegerFields DEF TypeOK
<1>2. CASE SetAutoDerive(Shared)
  BY <1>2 DEF SetAutoDerive, callVars, shardVars
<1>3. CASE BeginDeploy(Shared)
  <2>1. /\ current'[Shared].version = clock
        /\ UNCHANGED <<inFlight, registry, clock>>
    BY <1>1, <1>3 DEF BeginDeploy, shardVars
  <2> QED
    BY <1>1, <2>1
<1>4. CASE Send(Shared)
  <2>1. /\ inFlight' = inFlight \cup {current[Shared]}
        /\ phase[Shared] # "idle"
        /\ UNCHANGED <<current, registry, clock>>
    BY <1>1, <1>4 DEF Send
  <2> QED
    BY <1>1, <2>1
<1>5. ASSUME /\ phase' = [phase EXCEPT ![Shared] = "idle"]
             /\ UNCHANGED <<inFlight, registry, clock>>
      PROVE  CallInv'
  BY <1>1, <1>5
<1>6. CASE Fail(Shared)
  BY <1>5, <1>6 DEF Fail, End, shardVars
<1>7. CASE Confirm(Shared)
  BY <1>5, <1>7 DEF Confirm, Return, End, shardVars
<1>8. CASE \E k \in Clones : ConfirmIssue(k)
  BY <1>5, <1>8 DEF ConfirmIssue, Return, End, shardVars
<1>9. ASSUME NEW d \in inFlight, NEW ok \in BOOLEAN, Evaluate(d, ok) PROVE CallInv'
  <2>1. /\ inFlight' \subseteq inFlight
        /\ \A i \in Indices : registry'[i] \in {registry[i], d.version}
        /\ UNCHANGED <<phase, current, clock>>
    BY <1>1, <1>9 DEF Evaluate, callVars
  <2> QED
    BY <1>1, <2>1
<1>10. ASSUME ClockMoves PROVE clock' > clock /\ clock' \in Int
  BY <1>1, <1>10 DEF ClockMoves, Versions
<1>11. CASE Tick
  <2>1. ClockMoves /\ UNCHANGED <<phase, current, inFlight, registry>>
    BY <1>11 DEF Tick, callVars, shardVars
  <2> QED
    BY <1>1, <1>10, <2>1
<1>12. CASE Save
  BY <1>12 DEF Save, callVars, shardVars
<1>13. CASE Restart
  <2>1. /\ ClockMoves /\ UNCHANGED <<inFlight, registry>>
        /\ \A e \in Executors : phase'[e] = "idle"
    BY <1>13 DEF Restart, shardVars
  <2> QED
    BY <1>1, <1>10, <2>1
<1>14. CASE UNCHANGED vars
  BY <1>14 DEF vars, callVars, shardVars
<1> QED
  BY SharedSteps, <1>2, <1>3, <1>4, <1>6, <1>7, <1>8, <1>9, <1>11, <1>12, <1>13, <1>14

(* A deploy that landed and did not end in an error is what is at its URI: *)
(* it left the URI at its version or a later one, and no version is later. *)
LEMMA LandedIsThere ==
  ASSUME TypeOK, SettledIsRegistered, OnlySharedCalls, CallInv,
         NEW e \in Executors, Landed(e), current[e] \in Settled
  PROVE  registry[current[e].index] = current[e].version
<1>1. e = Shared /\ phase[Shared] # "idle"
  BY DEF OnlySharedCalls, Landed
<1>2. /\ current[Shared].index \in Indices /\ current[Shared].version \in Int
      /\ \A i \in Indices : registry[i] \in Int
  BY IntegerFields
<1>3. registry[current[Shared].index] <= current[Shared].version
  BY <1>1, <1>2 DEF CallInv, CallIsLatest, Busy
<1>4. current[Shared].version <= registry[current[Shared].index]
  BY <1>1 DEF SettledIsRegistered
<1> QED
  BY <1>1, <1>2, <1>3, <1>4

(* A deploy that returns becomes a contract later than all that is in      *)
(* flight and, if it was installed, there in its own version.              *)
LEMMA ReturnKeepsVersions ==
  ASSUME TypeOK, SettledIsRegistered, OnlySharedCalls, CallInv, LateIsOlder,
         ContractsUntouched, Return(Shared)
  PROVE  LateIsOlder' /\ ContractsUntouched'
<1> DEFINE d == current[Shared]
<1>1. Shared \in Executors
  BY DEF Executors
<1>2. /\ phase[Shared] = "waiting" /\ Landed(Shared)
      /\ kept' = kept \cup {d}
      /\ UNCHANGED <<inFlight, registry, installed>>
  BY DEF Return, Landed, shardVars
<1>3. \A x \in inFlight : x.version <= d.version
  BY <1>2 DEF CallInv, CallIsLatest, Busy
<1>4. d \in installed => registry[d.index] = d.version
  BY <1>1, <1>2, LandedIsThere DEF Settled
<1> HIDE DEF d
<1>5. LateIsOlder'
  BY <1>2, <1>3 DEF LateIsOlder, Autos
<1>6. ContractsUntouched'
  BY <1>2, <1>4 DEF ContractsUntouched
<1> QED
  BY <1>5, <1>6

(* A deploy sent is at an index above every contract; one evaluated at a   *)
(* contract's index is older than the contract and changes nothing.        *)
LEMMA NextVersionInv ==
  ASSUME CloneDeploys = FALSE, ClockFalls = FALSE, TypeOK, SettledIsRegistered, IndexInv,
         VersionInv, [Next]_vars
  PROVE  VersionInv'
<1>1. CallInv' /\ OnlySharedCalls
  BY NextCallInv DEF VersionInv, IndexInv
<1> USE DEF VersionInv, LateIsOlder, ContractsUntouched, Autos
<1>2. /\ Shared \in Executors /\ registry \in [Indices -> Versions \cup {None}]
      /\ \A i \in Indices : registry[i] \in Int
      /\ \A c \in inFlight \cup kept \cup {current[Shared]} :
           c.index \in Int /\ c.version \in Int /\ c.index \in Indices
  BY IntegerFields DEF TypeOK
<1>3. CASE SetAutoDerive(Shared) \/ BeginDeploy(Shared) \/ Fail(Shared) \/ Tick \/ Save
  <2>1. UNCHANGED <<inFlight, registry, installed, kept>>
    BY <1>3 DEF SetAutoDerive, BeginDeploy, Fail, Tick, Save, shardVars, walletVars
  <2> QED
    BY <1>1, <2>1
<1>4. CASE Send(Shared)
  <2>1. /\ inFlight' = inFlight \cup {current[Shared]} /\ phase[Shared] # "idle"
        /\ UNCHANGED <<registry, installed, kept>>
    BY <1>4 DEF Send, walletVars
  <2>2. \A c \in Autos : c.index < current[Shared].index
    BY <2>1 DEF IndexInv, IndexAhead, Busy
  <2> QED
    BY <1>1, <1>2, <2>1, <2>2
<1>5. CASE Confirm(Shared) \/ \E k \in Clones : ConfirmIssue(k)
  <2>1. Return(Shared)
    BY <1>5 DEF Confirm, ConfirmIssue
  <2> QED
    BY <1>1, <2>1, ReturnKeepsVersions
<1>6. ASSUME NEW d \in inFlight, NEW ok \in BOOLEAN, Evaluate(d, ok) PROVE VersionInv'
  <2>1. /\ inFlight' = inFlight \ {d} /\ kept' = kept
        /\ \/ UNCHANGED <<registry, installed>>
           \/ /\ Initialises(d) /\ registry' = [registry EXCEPT ![d.index] = d.version]
              /\ installed' = installed \cup {d}
    BY <1>6 DEF Evaluate, walletVars
  <2>2. CASE UNCHANGED <<registry, installed>>
    BY <1>1, <2>1, <2>2
  <2>3. CASE /\ Initialises(d) /\ registry' = [registry EXCEPT ![d.index] = d.version]
             /\ installed' = installed \cup {d}
    <3>1. ASSUME NEW c \in Autos, c \in installed' PROVE registry'[c.index] = c.version
      <4>1. CASE c = d
        BY <1>2, <2>3, <4>1
      <4>2. CASE c # d
        <5>1. registry[c.index] = c.version /\ c.version > 0
          BY <2>3, <4>2, <3>1 DEF TypeOK, Deploy, Versions
        <5>2. c.index = d.index => d.version <= c.version
          OBVIOUS
        <5>3. c.index # d.index
          BY <1>2, <2>3, <5>1, <5>2 DEF Initialises, None
        <5> QED
          BY <1>2, <2>3, <5>1, <5>3
      <4> QED
        BY <4>1, <4>2
    <3> QED
      BY <1>1, <2>1, <3>1
  <2> QED
    BY <2>1, <2>2, <2>3
<1>7. CASE Restart
  <2>1. kept' = saved.kept /\ UNCHANGED <<inFlight, registry, installed>>
    BY <1>7 DEF Restart, shardVars
  <2>2. saved.kept \subseteq kept
    BY DEF IndexInv, SavedAhead
  <2> QED
    BY <1>1, <2>1, <2>2
<1>8. CASE UNCHANGED vars
  BY <1>1, <1>8 DEF vars, shardVars, walletVars
<1> QED
  BY SharedSteps, <1>1, <1>3, <1>4, <1>5, <1>6, <1>7, <1>8

----------------------------------------------------------------------------
(* executor.rs:116-117, "Each deploy_contract() increments                 *)
(* derivation_index, producing unique child keys": so it is among the      *)
(* contracts of a process, whichever deploys time out, fail, err and land  *)
(* late, however often the process restarts and whatever the clock does,   *)
(* as long as the clones that contracts hold are not used to deploy.       *)
THEOREM DistinctWithoutCloneDeploys ==
  ASSUME CloneDeploys = FALSE
  PROVE  Spec => []ContractsDistinct
<1>1. Init => TypeOK /\ IndexInv
  BY InitTypeOK, InitCalls
<1>2. TypeOK /\ IndexInv /\ [Next]_vars => TypeOK' /\ IndexInv'
  BY NextTypeOK, NextIndexInv
<1>3. IndexInv => ContractsDistinct
  BY DEF IndexInv
<1> QED
  BY <1>1, <1>2, <1>3, PTL DEF Spec

KeptInv == RegistryInv /\ IndexInv /\ VersionInv

LEMMA KeptInvariant ==
  ASSUME CloneDeploys = FALSE, ClockFalls = FALSE PROVE Spec => []KeptInv
<1>1. Init => KeptInv
  BY InitRegistryInv, InitCalls DEF KeptInv
<1>2. KeptInv /\ [Next]_vars => KeptInv'
  BY NextTypeOK, NextSettled, NextKnown, NextIndexInv, NextVersionInv
     DEF RegistryInv, KeptInv
<1> QED
  BY <1>1, <1>2, PTL DEF Spec

(* rho20_contract.rho:40-48: when, besides, the clock does not fall, no    *)
(* deploy that is evaluated late, after a failure or a crash, initialises  *)
(* anew a contract that was installed and that the process still knows.    *)
THEOREM UntouchedWithoutCloneDeploys ==
  ASSUME CloneDeploys = FALSE, ClockFalls = FALSE
  PROVE  Spec => []ContractsUntouched
<1>1. KeptInv => ContractsUntouched
  BY DEF KeptInv, VersionInv
<1> QED
  BY KeptInvariant, <1>1, PTL

(* executor.rs:228: under the same assumptions a deploy that               *)
(* deploy_contract is about to report as Ok is what is at its URI, unless  *)
(* it ended in an error.                                                   *)
THEOREM UpgradesInstalled ==
  ASSUME CloneDeploys = FALSE, ClockFalls = FALSE
  PROVE  Spec => []UpgradeInstalled
<1>1. KeptInv => UpgradeInstalled
  <2> SUFFICES ASSUME KeptInv, NEW e \in Executors, Landed(e), current[e] \notin erred
               PROVE  registry[current[e].index] = current[e].version
    BY DEF UpgradeInstalled
  <2> QED
    BY LandedIsThere DEF KeptInv, RegistryInv, IndexInv, VersionInv, Settled, Landed
<1> QED
  BY KeptInvariant, <1>1, PTL
=============================================================================
