--------------------------- MODULE AnchorTracker ---------------------------
(***************************************************************************)
(* BitcoinAnchorTracker (src/src/bitcoin_anchor.rs): the seals, witnesses  *)
(* and anchors of operations, kept in memory and saved whole to one JSON   *)
(* file.  The methods take &mut self, so they never overlap; the process   *)
(* may stop between any two steps, and inside fs::write, which empties the *)
(* file before it fills it.                                                *)
(***************************************************************************)
EXTENDS Naturals, Sequences, Functions

CONSTANTS
  Opids, Wids, SealMaps, Anchors,
  Nothing,         \* no entry in a map
  Absent, Torn,    \* no file; a file cut short, which does not parse
  MaxLinks,        \* bound: links of one operation or one witness
  MaxUncommitted   \* bound: changes between two commits

Statuses == {"tentative", "mined", "archived"}

ASSUME MapAssumption == Nothing \notin SealMaps \cup Anchors \cup [status : Statuses, client : Anchors]
ASSUME BoundAssumption == MaxLinks \in Nat /\ MaxUncommitted \in Nat

Tracker ==
  [seals : [Opids -> SealMaps \cup {Nothing}],
   witnesses : [Wids -> [status : Statuses, client : Anchors] \cup {Nothing}],
   opWitnesses : [Opids -> Seq(Wids)],
   witnessOps : [Wids -> Seq(Opids)],
   anchors : [Opids -> Anchors \cup {Nothing}]]

ASSUME FileAssumption == Absent \notin Tracker /\ Torn \notin Tracker /\ Absent # Torn

VARIABLES
  memory,      \* the tracker
  file,        \* what is at the persistence path
  mode,        \* "up", "saving" inside fs::write, or "down"
  uncommitted, \* changes since the last commit, for the bound
  committed    \* history: the tracker last saved whole, or Absent

vars == <<memory, file, mode, uncommitted, committed>>

Empty ==
  [seals |-> [o \in Opids |-> Nothing], witnesses |-> [w \in Wids |-> Nothing],
   opWitnesses |-> [o \in Opids |-> <<>>], witnessOps |-> [w \in Wids |-> <<>>],
   anchors |-> [o \in Opids |-> Nothing]]

Init ==
  /\ memory = Empty
  /\ file = Absent
  /\ mode = "up"
  /\ uncommitted = 0
  /\ committed = Absent

(* One method of the running process leaves the tracker as t. *)
Becomes(t) ==
  /\ mode = "up"
  /\ uncommitted < MaxUncommitted
  /\ memory' = t
  /\ uncommitted' = uncommitted + 1
  /\ UNCHANGED <<file, mode, committed>>

AddSeals(o, s) == Becomes([memory EXCEPT !.seals[o] = s])
AddAnchor(o, x) == Becomes([memory EXCEPT !.anchors[o] = x])
RemoveAnchor(o) == Becomes([memory EXCEPT !.anchors[o] = Nothing])

\* Mutant: a known witness is updated and not linked the other way.
LinkedForwards(o, w) ==
  [memory EXCEPT
     !.opWitnesses[o] = Append(@, w),
     !.witnessOps[w] = IF memory.witnesses[w] = Nothing THEN Append(@, o) ELSE @]
Linked(o, w) ==
  [memory EXCEPT !.opWitnesses[o] = Append(@, w), !.witnessOps[w] = Append(@, o)]

\* Mutant: the data of a witness is updated, never entered.
UpdatedData(w, x, status) ==
  IF memory.witnesses[w] = Nothing THEN Nothing ELSE [status |-> status, client |-> x]
WitnessData(w, x, status) == [status |-> status, client |-> x]

(* The data of w is replaced, status included, and both links are pushed,  *)
(* also when they are there already.                                       *)
AddWitness(o, w, x, status) ==
  /\ Len(memory.opWitnesses[o]) < MaxLinks
  /\ Len(memory.witnessOps[w]) < MaxLinks
  /\ Becomes([Linked(o, w) EXCEPT !.witnesses[w] = WitnessData(w, x, status)])

UpdateWitnessStatus(w, status) ==
  /\ memory.witnesses[w] # Nothing
  /\ Becomes([memory EXCEPT !.witnesses[w].status = status])

(* save, called by the client or, when a persistence path is set, by       *)
(* commit_transaction: fs::write has emptied the file ...                  *)
BeginSave ==
  /\ mode = "up"
  /\ file' = Torn
  /\ mode' = "saving"
  /\ UNCHANGED <<memory, uncommitted, committed>>

\* Mutant: the anchors are left out of what is saved.
WithoutAnchors(t) == [t EXCEPT !.anchors = Empty.anchors]
\* serde: every map, and neither the path nor the marker.
Serialized(t) == t

(* ... and has filled it. *)
FinishSave ==
  /\ mode = "saving"
  /\ file' = Serialized(memory)
  /\ mode' = "up"
  /\ uncommitted' = 0
  /\ committed' = memory
  /\ UNCHANGED <<memory>>

(* The write failed half way: commit_transaction only logs it. *)
FailSave ==
  /\ mode = "saving"
  /\ mode' = "up"
  /\ UNCHANGED <<memory, file, uncommitted, committed>>

(* The process ends, or panics: update_witness_status and pub_witness of a *)
(* witness that is not known do.                                           *)
Stop ==
  /\ mode # "down"
  /\ mode' = "down"
  /\ memory' = Empty
  /\ UNCHANGED <<file, uncommitted, committed>>

(* load_from_disk: the file is read back; one that is cut short is an error. *)
Load ==
  /\ mode = "down"
  /\ file \notin {Absent, Torn}
  /\ memory' = file
  /\ mode' = "up"
  /\ uncommitted' = 0
  /\ UNCHANGED <<file, committed>>

(* Pile::new, or Pile::load without a path: an empty tracker, whatever the *)
(* file holds.                                                             *)
New ==
  /\ mode = "down"
  /\ memory' = Empty
  /\ mode' = "up"
  /\ uncommitted' = 0
  /\ UNCHANGED <<file, committed>>

Change ==
  \/ \E o \in Opids, s \in SealMaps : AddSeals(o, s)
  \/ \E o \in Opids, x \in Anchors : AddAnchor(o, x)
  \/ \E o \in Opids : RemoveAnchor(o)
  \/ \E o \in Opids, w \in Wids, x \in Anchors, status \in Statuses :
       AddWitness(o, w, x, status)
  \/ \E w \in Wids, status \in Statuses : UpdateWitnessStatus(w, status)

Next ==
  \/ Change
  \/ BeginSave \/ FinishSave \/ FailSave
  \/ Stop \/ Load \/ New

Spec == Init /\ [][Next]_vars

----------------------------------------------------------------------------
TypeOK ==
  /\ memory \in Tracker
  /\ file \in Tracker \cup {Absent, Torn}
  /\ mode \in {"up", "saving", "down"}
  /\ uncommitted \in Nat
  /\ committed \in Tracker \cup {Absent}

SymmetricIn(t) ==
  \A o \in Opids, w \in Wids :
    w \in Range(t.opWitnesses[o]) <=> o \in Range(t.witnessOps[w])

(* "bidirectional mappings" (bitcoin_anchor.rs:36): through shared and     *)
(* replaced witnesses, repeated additions, saves, crashes and reloads, an  *)
(* operation lists a witness exactly when the witness lists it.            *)
LinksSymmetric == SymmetricIn(memory)

KnownIn(t) ==
  \A o \in Opids : \A w \in Range(t.opWitnesses[o]) : t.witnesses[w] # Nothing

(* Every witness an operation lists has its data, so that pub_witness and  *)
(* cli_witness of it do not panic (bitcoin_anchor.rs:412, 430).            *)
LinkedWitnessesKnown == KnownIn(memory)

(* A tracker that comes back from the file is the one last saved whole,    *)
(* with no part of it left out by the serialization.  It says nothing of a *)
(* save that was cut short, whose file does not come back, nor of a failed *)
(* one that only the log reports (bitcoin_anchor.rs:246, 602).             *)
LoadRestoresCommit ==
  [][Load => memory' = committed]_vars
=============================================================================
