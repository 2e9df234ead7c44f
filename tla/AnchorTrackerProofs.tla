------------------------ MODULE AnchorTrackerProofs ------------------------
(***************************************************************************)
(* Theorems about AnchorTracker for every set of operations and witnesses. *)
(***************************************************************************)
EXTENDS AnchorTracker, TLAPS

GoodTracker(t) == t \in Tracker /\ SymmetricIn(t) /\ KnownIn(t)

(* Links are symmetric and witnesses known in memory, and in whatever a    *)
(* load may bring back; the file, unless cut short, is the last commit.    *)
TrackerInv ==
  /\ TypeOK
  /\ GoodTracker(memory)
  /\ file \in Tracker => GoodTracker(file) /\ file = committed

(* A push adds the pushed element to what a list holds and nothing else. *)
LEMMA RangeOfAppend ==
  ASSUME NEW S, NEW q \in Seq(S), NEW e \in S
  PROVE  /\ Append(q, e) \in Seq(S)
         /\ Range(Append(q, e)) = Range(q) \cup {e}
<1>1. /\ Append(q, e) \in Seq(S)
      /\ DOMAIN Append(q, e) = 1..(Len(q) + 1)
      /\ DOMAIN q = 1..Len(q)
      /\ \A i \in 1..Len(q) : Append(q, e)[i] = q[i]
      /\ Append(q, e)[Len(q) + 1] = e
      /\ Len(q) \in Nat
  OBVIOUS
<1>2. 1..(Len(q) + 1) = (1..Len(q)) \cup {Len(q) + 1}
  BY <1>1
<1> QED
  BY <1>1, <1>2 DEF Range

LEMMA EmptyGood == GoodTracker(Empty)
<1>1. Empty \in Tracker
  BY DEF Empty, Tracker
<1>2. \A q \in {<<>>} : Range(q) = {}
  BY DEF Range
<1>3. /\ \A o \in Opids : Empty.opWitnesses[o] = <<>>
      /\ \A w \in Wids : Empty.witnessOps[w] = <<>>
  BY DEF Empty
<1> QED
  BY <1>1, <1>2, <1>3 DEF GoodTracker, SymmetricIn, KnownIn

(* add_witness keeps the links symmetric and the linked witnesses known. *)
LEMMA AddWitnessGood ==
  ASSUME NEW o \in Opids, NEW w \in Wids, NEW x \in Anchors, NEW status \in Statuses,
         GoodTracker(memory)
  PROVE  GoodTracker([Linked(o, w) EXCEPT !.witnesses[w] = WitnessData(w, x, status)])
<1> DEFINE t == [Linked(o, w) EXCEPT !.witnesses[w] = WitnessData(w, x, status)]
           data == [status |-> status, client |-> x]
           ops == [memory.opWitnesses EXCEPT ![o] = Append(memory.opWitnesses[o], w)]
           wits == [memory.witnessOps EXCEPT ![w] = Append(memory.witnessOps[w], o)]
           m1 == [memory EXCEPT !.opWitnesses = ops]
           m2 == [m1 EXCEPT !.witnessOps = wits]
<1>1. memory \in Tracker
  BY DEF GoodTracker
<1>2. /\ memory.opWitnesses \in [Opids -> Seq(Wids)]
      /\ memory.witnessOps \in [Wids -> Seq(Opids)]
      /\ memory.witnesses \in [Wids -> [status : Statuses, client : Anchors] \cup {Nothing}]
      /\ data \in [status : Statuses, client : Anchors]
  BY <1>1 DEF Tracker
<1>3. data # Nothing
  BY <1>2, MapAssumption
<1>4. /\ Append(memory.opWitnesses[o], w) \in Seq(Wids)
      /\ Range(Append(memory.opWitnesses[o], w)) = Range(memory.opWitnesses[o]) \cup {w}
  BY <1>2, RangeOfAppend
<1>5. /\ Append(memory.witnessOps[w], o) \in Seq(Opids)
      /\ Range(Append(memory.witnessOps[w], o)) = Range(memory.witnessOps[w]) \cup {o}
  BY <1>2, RangeOfAppend
<1>6. /\ ops \in [Opids -> Seq(Wids)]
      /\ wits \in [Wids -> Seq(Opids)]
      /\ [memory.witnesses EXCEPT ![w] = data]
           \in [Wids -> [status : Statuses, client : Anchors] \cup {Nothing}]
  BY <1>2, <1>4, <1>5
<1>7. m1 \in Tracker /\ m1.opWitnesses = ops
      /\ m1.witnessOps = memory.witnessOps /\ m1.witnesses = memory.witnesses
  <2> HIDE DEF ops
  <2> QED BY <1>1, <1>6 DEF Tracker
<1>8. m2 \in Tracker /\ m2.opWitnesses = ops
      /\ m2.witnessOps = wits /\ m2.witnesses = memory.witnesses
  <2> HIDE DEF ops, wits, m1
  <2> QED BY <1>7, <1>6 DEF Tracker
<1>9. t = [m2 EXCEPT !.witnesses = [memory.witnesses EXCEPT ![w] = data]]
  <2>1. Linked(o, w) = m2
    BY <1>1 DEF Linked, Tracker
  <2> HIDE DEF m2
  <2> QED BY <2>1, <1>8 DEF WitnessData
<1>10. t \in Tracker /\ t.opWitnesses = ops /\ t.witnessOps = wits
      /\ t.witnesses = [memory.witnesses EXCEPT ![w] = data]
  <2> HIDE DEF t, m2, ops, wits, data
  <2> QED BY <1>9, <1>8, <1>6 DEF Tracker
<1> HIDE DEF t, m1, m2, data
<1>11. /\ Range(t.opWitnesses[o]) = Range(memory.opWitnesses[o]) \cup {w}
       /\ Range(t.witnessOps[w]) = Range(memory.witnessOps[w]) \cup {o}
       /\ t.witnesses[w] = data
  <2>1. ops[o] = Append(memory.opWitnesses[o], w) /\ wits[w] = Append(memory.witnessOps[w], o)
    BY <1>2
  <2>2. t.witnesses[w] = data
    BY <1>2, <1>10
  <2> HIDE DEF ops, wits
  <2> QED BY <2>1, <2>2, <1>4, <1>5, <1>10
<1>12. /\ \A p \in Opids \ {o} : t.opWitnesses[p] = memory.opWitnesses[p]
       /\ \A v \in Wids \ {w} : t.witnessOps[v] = memory.witnessOps[v]
       /\ \A v \in Wids \ {w} : t.witnesses[v] = memory.witnesses[v]
  BY <1>2, <1>10
<1>13. \A p \in Opids : Range(memory.opWitnesses[p]) \subseteq Wids
  <2> SUFFICES ASSUME NEW p \in Opids PROVE Range(memory.opWitnesses[p]) \subseteq Wids
    OBVIOUS
  <2>1. memory.opWitnesses[p] \in Seq(Wids)
    BY <1>2
  <2> QED BY <2>1 DEF Range
<1> HIDE DEF ops, wits
<1>14. SymmetricIn(t)
  <2> SUFFICES ASSUME NEW p \in Opids, NEW v \in Wids
               PROVE  v \in Range(t.opWitnesses[p]) <=> p \in Range(t.witnessOps[v])
    BY DEF SymmetricIn
  <2>1. v \in Range(memory.opWitnesses[p]) <=> p \in Range(memory.witnessOps[v])
    BY DEF GoodTracker, SymmetricIn
  <2>2. v \in Range(t.opWitnesses[p])
          <=> v \in Range(memory.opWitnesses[p]) \/ (p = o /\ v = w)
    BY <1>11, <1>12
  <2>3. p \in Range(t.witnessOps[v])
          <=> p \in Range(memory.witnessOps[v]) \/ (p = o /\ v = w)
    BY <1>11, <1>12
  <2> QED BY <2>1, <2>2, <2>3
<1>15. KnownIn(t)
  <2> SUFFICES ASSUME NEW p \in Opids, NEW v \in Range(t.opWitnesses[p])
               PROVE  t.witnesses[v] # Nothing
    BY DEF KnownIn
  <2>1. CASE v = w
    BY <2>1, <1>3, <1>11
  <2>2. CASE v # w
    <3>1. v \in Range(memory.opWitnesses[p])
      BY <2>2, <1>11, <1>12
    <3>2. memory.witnesses[v] # Nothing
      BY <3>1 DEF GoodTracker, KnownIn
    <3> QED BY <2>2, <3>1, <3>2, <1>13, <1>12
  <2> QED BY <2>1, <2>2
<1> QED BY <1>10, <1>14, <1>15 DEF GoodTracker, t

(* The other methods leave the links alone and never remove a witness. *)
LEMMA ChangeGood == TrackerInv /\ Change => GoodTracker(memory')
<1> SUFFICES ASSUME TrackerInv, Change PROVE GoodTracker(memory')
  OBVIOUS
<1>1. GoodTracker(memory) /\ memory \in Tracker
  BY DEF TrackerInv, GoodTracker
<1> DEFINE SameLinks(t) ==
      /\ t \in Tracker
      /\ t.opWitnesses = memory.opWitnesses /\ t.witnessOps = memory.witnessOps
      /\ \A w \in Wids : memory.witnesses[w] # Nothing => t.witnesses[w] # Nothing
<1>2. \A p \in Opids : Range(memory.opWitnesses[p]) \subseteq Wids
  <2> SUFFICES ASSUME NEW p \in Opids PROVE Range(memory.opWitnesses[p]) \subseteq Wids
    OBVIOUS
  <2>1. memory.opWitnesses[p] \in Seq(Wids)
    BY <1>1 DEF Tracker
  <2> QED BY <2>1 DEF Range
<1>3. ASSUME NEW t, SameLinks(t)
      PROVE  GoodTracker(t)
  BY <1>1, <1>2, <1>3 DEF GoodTracker, SymmetricIn, KnownIn
<1>4. ASSUME NEW o \in Opids, NEW s \in SealMaps, AddSeals(o, s)
      PROVE  GoodTracker(memory')
  <2>1. SameLinks(memory')
    BY <1>1, <1>4 DEF AddSeals, Becomes, Tracker
  <2> QED BY <1>3, <2>1
<1>5. ASSUME NEW o \in Opids, NEW x \in Anchors \cup {Nothing},
             Becomes([memory EXCEPT !.anchors[o] = x])
      PROVE  GoodTracker(memory')
  <2>1. SameLinks(memory')
    BY <1>1, <1>5 DEF Becomes, Tracker
  <2> QED BY <1>3, <2>1
<1>6. ASSUME NEW w \in Wids, NEW status \in Statuses, UpdateWitnessStatus(w, status)
      PROVE  GoodTracker(memory')
  <2>1. /\ memory.witnesses[w] \in [status : Statuses, client : Anchors]
        /\ memory' = [memory EXCEPT !.witnesses[w].status = status]
    BY <1>1, <1>6 DEF UpdateWitnessStatus, Becomes, Tracker
  <2>2. [memory.witnesses[w] EXCEPT !.status = status] \in [status : Statuses, client : Anchors]
    BY <2>1
  <2>3. SameLinks(memory')
    BY <1>1, <2>1, <2>2, MapAssumption DEF Tracker
  <2> QED BY <1>3, <2>3
<1>7. ASSUME NEW o \in Opids, NEW w \in Wids, NEW x \in Anchors, NEW status \in Statuses,
             AddWitness(o, w, x, status)
      PROVE  GoodTracker(memory')
  BY <1>1, <1>7, AddWitnessGood DEF AddWitness, Becomes
<1> QED
  BY <1>4, <1>5, <1>6, <1>7 DEF Change, AddAnchor, RemoveAnchor

LEMMA InitTrackerInv == Init => TrackerInv
<1> SUFFICES ASSUME Init PROVE TrackerInv
  OBVIOUS
<1>1. GoodTracker(memory) /\ memory \in Tracker
  BY EmptyGood DEF Init, GoodTracker
<1> QED
  BY <1>1, FileAssumption DEF Init, TrackerInv, TypeOK

LEMMA NextTrackerInv == TrackerInv /\ [Next]_vars => TrackerInv'
<1> SUFFICES ASSUME TrackerInv, [Next]_vars PROVE TrackerInv'
  OBVIOUS
<1>1. CASE UNCHANGED vars
  BY <1>1 DEF vars, TrackerInv, TypeOK, GoodTracker, SymmetricIn, KnownIn
<1>2. CASE Change
  <2>1. GoodTracker(memory')
    BY <1>2, ChangeGood
  <2>2. UNCHANGED <<file, mode, committed>> /\ uncommitted' = uncommitted + 1
    BY <1>2 DEF Change, AddSeals, AddAnchor, RemoveAnchor, AddWitness,
                UpdateWitnessStatus, Becomes
  <2> QED BY <2>1, <2>2 DEF TrackerInv, TypeOK, GoodTracker
<1>3. CASE BeginSave \/ FailSave
  BY <1>3, FileAssumption DEF BeginSave, FailSave, TrackerInv, TypeOK, GoodTracker
<1>4. CASE FinishSave
  BY <1>4 DEF FinishSave, Serialized, TrackerInv, TypeOK, GoodTracker
<1>5. CASE Stop \/ New
  BY <1>5, EmptyGood DEF Stop, New, TrackerInv, TypeOK, GoodTracker
<1>6. CASE Load
  <2>1. file \in Tracker
    BY <1>6 DEF Load, TrackerInv, TypeOK
  <2> QED BY <1>6, <2>1 DEF Load, TrackerInv, TypeOK, GoodTracker
<1> QED
  BY <1>1, <1>2, <1>3, <1>4, <1>5, <1>6 DEF Next

THEOREM TrackerInvariant == Spec => []TrackerInv
  BY InitTrackerInv, NextTrackerInv, PTL DEF Spec

(* The types of the tracker, of the file and of the last commit. *)
THEOREM TrackerTypes == Spec => []TypeOK
<1>1. TrackerInv => TypeOK
  BY DEF TrackerInv
<1> QED BY <1>1, TrackerInvariant, PTL

(* The two link maps of add_witness (bitcoin_anchor.rs:563-572) mirror     *)
(* each other through every sequence of methods, saves, crashes and loads. *)
THEOREM LinksMirrored == Spec => []LinksSymmetric
<1>1. TrackerInv => LinksSymmetric
  BY DEF TrackerInv, GoodTracker, LinksSymmetric
<1> QED BY <1>1, TrackerInvariant, PTL

(* pub_witness and cli_witness of a linked witness never panic. *)
THEOREM LinkedNeverPanics == Spec => []LinkedWitnessesKnown
<1>1. TrackerInv => LinkedWitnessesKnown
  BY DEF TrackerInv, GoodTracker, LinkedWitnessesKnown
<1> QED BY <1>1, TrackerInvariant, PTL

(* load_from_disk returns the tracker of the last save that ended well. *)
THEOREM LoadIsExact == Spec => LoadRestoresCommit
<1>1. TrackerInv => [Load => memory' = committed]_vars
  <2> SUFFICES ASSUME TrackerInv, Load PROVE memory' = committed
    OBVIOUS
  <2>1. file \in Tracker
    BY DEF Load, TrackerInv, TypeOK
  <2> QED BY <2>1 DEF Load, TrackerInv
<1> QED BY <1>1, TrackerInvariant, PTL DEF LoadRestoresCommit
=============================================================================
